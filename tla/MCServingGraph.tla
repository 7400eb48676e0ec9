--------------------------- MODULE MCServingGraph ---------------------------
(* ServingGraph for TLC. *)
EXTENDS ServingGraph
=============================================================================
