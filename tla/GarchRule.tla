----------------------------- MODULE GarchRule -----------------------------
(***************************************************************************)
(* The GARCH(1,1) rule with the parameters EngineState gives every tracker.*)
(*                                                                         *)
(* Variances are integers, rounded down, in units of 1e-5: omega = 0.00001 *)
(* is 1 and the long-run variance omega / (1 - alpha - beta) = 0.0002 is   *)
(* 20.  Alpha and Beta are in percent.  SquaredReturn is the table of      *)
(* ln(price / previous)^2 in the same unit; all prices are at one scale.   *)
(***************************************************************************)
EXTENDS Integers, Sequences

CONSTANTS
  Prices,             \* the raw prices that may be observed
  SquaredReturn,      \* [valid prices -> [valid prices -> variance]]
  MaxSquaredReturn,   \* a bound of the table
  N                   \* how many prices a tracker remembers

Omega == 1
Alpha == 10
Beta  == 85
LongRun == 20

Valid == {p \in Prices : p > 0}

ASSUME PriceAssumption ==
  /\ Prices \subseteq Int
  /\ MaxSquaredReturn \in Nat
  /\ SquaredReturn \in [Valid -> [Valid -> 0 .. MaxSquaredReturn]]
  /\ N \in Nat \ {0}

(* A price that is not positive, the new one or the one before, yields no  *)
(* return.                                                                 *)
SqReturn(previous, price) ==
  IF previous > 0 /\ price > 0 THEN SquaredReturn[previous][price] ELSE 0

Garch(variance, square) == Omega + (Alpha * square + Beta * variance) \div 100
=============================================================================
