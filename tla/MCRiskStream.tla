---------------------------- MODULE MCRiskStream ----------------------------
(***************************************************************************)
(* A small instance of RiskStream; its constants are in the configuration. *)
(***************************************************************************)
EXTENDS RiskStream
=============================================================================
