----------------------------- MODULE Portfolio -----------------------------
(***************************************************************************)
(* The portfolio tracker of the gateway crate: a map from instruments to   *)
(* open positions, as operators on the map.  Amounts are integers in one   *)
(* common unit; the fixed-point representation is abstracted here.         *)
(*                                                                         *)
(* entry_price, leverage and unrealized_pnl of a position are stored and   *)
(* never changed or read to any effect (unrealized_pnl stays ZERO), so a   *)
(* position is its side and its notional.                                  *)
(***************************************************************************)
EXTENDS Integers, FiniteSets, FiniteSetsExt

CONSTANTS
  Instruments,   \* the instrument codes
  NoPosition     \* the absence of an entry in the map

ASSUME PortfolioAssumption == NoPosition \notin [side : 0 .. 2, notional : Int]

(* OrderSide of the proto: 0 is ORDER_SIDE_UNSPECIFIED. *)
Buy  == 1
Sell == 2
Sides == {0, Buy, Sell}

Position == [side : Sides, notional : Int]
Books == [Instruments -> Position \cup {NoPosition}]

NewBook == [i \in Instruments |-> NoPosition]

Held(book) == {i \in Instruments : book[i] # NoPosition}

-----------------------------------------------------------------------------
(* A bug that forgets what an existing position already holds. *)
OpenOverwrites(book, i, side, amount) ==
  [book EXCEPT ![i] = [side |-> side, notional |-> amount]]

(* The entry is created with the side of the first order and no notional;  *)
(* then every order, whatever its side, adds its notional to the entry.    *)
OpenPosition(book, i, side, amount) ==
  LET entry == IF book[i] = NoPosition THEN [side |-> side, notional |-> 0] ELSE book[i]
  IN  [book EXCEPT ![i] = [side |-> entry.side, notional |-> entry.notional + amount]]

-----------------------------------------------------------------------------
(* What a snapshot of the map reports.  A position whose side is           *)
(* unspecified counts in the gross exposure and not in the net one.        *)
SumOf(amount, S) == MapThenSumSet(LAMBDA x : amount[x], S)

Notionals(book) == [i \in Held(book) |-> book[i].notional]

GrossExposure(book) == SumOf(Notionals(book), Held(book))

NetExposure(book) ==
  SumOf(Notionals(book), {i \in Held(book) : book[i].side = Buy})
    - SumOf(Notionals(book), {i \in Held(book) : book[i].side = Sell})

OpenPositionCount(book) == Cardinality(Held(book))

(* In parts per million of the high water mark. *)
DrawdownPct(equity, hwm) ==
  IF hwm > 0 /\ equity < hwm THEN ((hwm - equity) * 1000000) \div hwm ELSE 0

(* The placeholder VaR, 0.50%, in parts per million. *)
Var1d99Pct == 5000
=============================================================================
