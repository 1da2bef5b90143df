---------------------------- MODULE MCSwarmGraph ----------------------------
(***************************************************************************)
(* The graph with all of its analysts, in the order of the default.        *)
(***************************************************************************)
EXTENDS SwarmGraph

AllAnalysts == <<"market", "social", "news", "fundamentals">>
=============================================================================
