----------------------------- MODULE MCSwarmRun -----------------------------
(***************************************************************************)
(* Small instances of SwarmRun; the constants are in the configurations.   *)
(***************************************************************************)
EXTENDS SwarmRun
=============================================================================
