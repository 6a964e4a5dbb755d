----------------------------- MODULE MCPipairC2 ------------------------------
(***************************************************************************)
(* The second solution of part C for TLC; the instance is in PipairC2.cfg. *)
(***************************************************************************)
EXTENDS PipairC2

CONSTANT MaxCalls   \* bound: how many calls the graph has

MCNext == Next /\ Cardinality(calls') <= MaxCalls

MCSpec == Init /\ [][MCNext]_vars /\ Fairness
=============================================================================
