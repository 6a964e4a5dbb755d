-------------------------- MODULE MCReachReducedBug --------------------------
(***************************************************************************)
(* The depth-first search of part C for TLC.  The names of the functions   *)
(* play no role in the search, so the function of the bug and its partner  *)
(* are fixed; the scope can be any function.                               *)
(***************************************************************************)
EXTENDS ReachReducedBug, FiniteSets

CONSTANTS
  Single, Pair,   \* the two functions of the pair
  MaxCalls        \* bound: how many calls the graph has

MCInit ==
  /\ Init
  /\ singleKey = Single
  /\ pipairKey = Pair
  /\ Cardinality({e \in Fun \X Fun : e[2] \in callerCallee[e[1]]}) <= MaxCalls

MCSpec == MCInit /\ [][Next]_vars /\ WF_vars(Step)
=============================================================================
