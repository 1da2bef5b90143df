---------------------------- MODULE MCGarchRing ----------------------------
(***************************************************************************)
(* Small instances of GarchRing.                                           *)
(***************************************************************************)
EXTENDS GarchRing

(* ln(1.2)^2 = 0.03324; no change, no return. *)
MCSquaredReturn ==
  [p \in Valid |-> [q \in Valid |-> IF p = q THEN 0 ELSE 3324]]
=============================================================================
