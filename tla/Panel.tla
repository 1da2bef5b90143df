-------------------------------- MODULE Panel --------------------------------
(***************************************************************************)
(* What a debate among the agents promises: the speakers take turns in a   *)
(* fixed order, the verdict is given once, after the last turn, and no one *)
(* speaks after it.  A debate may be started over from nothing.            *)
(***************************************************************************)
EXTENDS Integers, Sequences

CONSTANTS
  Speakers,   \* the order of the speakers
  Turns       \* the number of turns before the verdict

VARIABLES
  said,       \* the speakers so far
  verdict     \* has the verdict been given?

vars == <<said, verdict>>

Init == said = <<>> /\ verdict = FALSE

Speak ==
  /\ ~verdict
  /\ Len(said) < Turns
  /\ said' = Append(said, Speakers[(Len(said) % Len(Speakers)) + 1])
  /\ UNCHANGED verdict

Judge ==
  /\ ~verdict
  /\ Len(said) = Turns
  /\ verdict' = TRUE
  /\ UNCHANGED said

StartOver == said' = <<>> /\ verdict' = FALSE

Next == Speak \/ Judge \/ StartOver

Spec == Init /\ [][Next]_vars
=============================================================================
