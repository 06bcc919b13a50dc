-------------------------- MODULE MCRsgPreferredPath --------------------------
(* The search for the preferred path alone. *)
EXTENDS RsgPreferredPath, MCRsgSubgraph
===============================================================================
