----------------------------- MODULE GarchRing -----------------------------
(***************************************************************************)
(* GarchState<N>: the GARCH(1,1) estimator over a ring buffer.  The buffer *)
(* is called returns in the code and holds raw prices; the price before is *)
(* looked up in it, at the slot behind the write position.                 *)
(*                                                                         *)
(* One call of update or reset is one step: the owner of a tracker calls   *)
(* them with the tracker to itself.  An index outside of the buffer would  *)
(* panic and leave the tracker as it is, so there is no step for it;       *)
(* IndexInBounds says that it never comes to that.                         *)
(***************************************************************************)
EXTENDS GarchRule

CONSTANT Times       \* the observation timestamps

VARIABLES
  returns,        \* slot -> raw price
  pos,            \* the next slot to write
  count,          \* the observations since the last reset, capped at N
  sigma_sq,       \* the conditional variance
  prev_sigma_sq,  \* the variance the next update starts from
  last_ts_ns      \* the timestamp of the last observation

vars == <<returns, pos, count, sigma_sq, prev_sigma_sq, last_ts_ns>>

Slots == 0 .. N - 1

TypeOK ==
  /\ returns \in [Slots -> Prices \cup {0}]
  /\ pos \in 0 .. N
  /\ count \in 0 .. N
  /\ sigma_sq \in Nat
  /\ prev_sigma_sq \in Nat
  /\ last_ts_ns \in Times \cup {0}

Init ==
  /\ returns = [s \in Slots |-> 0]
  /\ pos = 0
  /\ count = 0
  /\ sigma_sq = LongRun
  /\ prev_sigma_sq = LongRun
  /\ last_ts_ns = 0

-----------------------------------------------------------------------------
(* A bug: the slot that is about to be overwritten. *)
PreviousIsOldest == returns[pos]

(* The slot behind the write position. *)
Previous == returns[(pos + N - 1) % N]

(* A bug: the update is added to the variance instead of replacing it. *)
UpdatedAccumulates(price) ==
  sigma_sq + Garch(prev_sigma_sq, SqReturn(Previous, price))

Updated(price) == Garch(prev_sigma_sq, SqReturn(Previous, price))

(* update, on the first observation. *)
First(price, ts) ==
  /\ count = 0
  /\ returns' = [returns EXCEPT ![0] = price]
  /\ pos' = 1
  /\ count' = 1
  /\ last_ts_ns' = ts
  /\ UNCHANGED <<sigma_sq, prev_sigma_sq>>

(* update, later on; a price that yields no return is stored all the same. *)
Store(price, ts, next, seen) ==
  /\ count > 0
  /\ pos \in Slots
  /\ returns' = [returns EXCEPT ![pos] = price]
  /\ pos' = next
  /\ count' = seen
  /\ last_ts_ns' = ts
  /\ sigma_sq' = Updated(price)
  /\ prev_sigma_sq' = sigma_sq'

AtMost(n) == IF n <= N THEN n ELSE N

(* Bugs: the position does not wrap; the count is not capped. *)
LaterUnwrapped(price, ts) == Store(price, ts, pos + 1, AtMost(count + 1))
LaterUncapped(price, ts)  == Store(price, ts, (pos + 1) % N, count + 1)

Later(price, ts) == Store(price, ts, (pos + 1) % N, AtMost(count + 1))

(* reset: back to the state of a new tracker. *)
Reset ==
  /\ returns' = [s \in Slots |-> 0]
  /\ pos' = 0
  /\ count' = 0
  /\ sigma_sq' = LongRun
  /\ prev_sigma_sq' = LongRun
  /\ last_ts_ns' = 0

Next ==
  \/ Reset
  \/ \E price \in Prices, ts \in Times : First(price, ts) \/ Later(price, ts)

Spec == Init /\ [][Next]_vars

-----------------------------------------------------------------------------
(* No sequence of observations and resets makes an update index the buffer *)
(* out of its bounds, whatever the position the reset left behind.         *)
IndexInBounds == pos \in Slots

(* The variance never leaves the band that alpha + beta < 1 allows: it is  *)
(* at least omega, so the gate never sees zero, and however long prices    *)
(* keep jumping it stays below what the largest jump for ever would give.  *)
Ceiling == LongRun + (Alpha * MaxSquaredReturn) \div (100 - Beta)

VarianceBounded == Omega <= sigma_sq /\ sigma_sq <= Ceiling

(* The ring buffer is a correct implementation of the window: read from    *)
(* the slot behind pos, count slots back, it holds exactly the last N      *)
(* prices in order, across wrap-around and resets, and every return is     *)
(* taken from the price just before.                                       *)
At(p, c, k) == (p + N - c + k - 1) % N

Read(ring, p, c) == [k \in 1 .. c |-> ring[At(p, c, k)]]

Held == Read(returns, pos, count)

Window == INSTANCE PriceWindow WITH window <- Held, variance <- sigma_sq

ImplementsPriceWindow == Window!Spec

-----------------------------------------------------------------------------
(* Invalid prices are skipped: an observation that is not a positive price *)
(* moves neither the variance nor the price the next return starts from.   *)
InvalidPricesSkipped ==
  [][\A price \in Prices \ Valid, ts \in Times :
       Later(price, ts) => sigma_sq' = sigma_sq /\ Previous' = Previous]_vars
=============================================================================
