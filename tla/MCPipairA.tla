------------------------------ MODULE MCPipairA ------------------------------
(***************************************************************************)
(* The part A program for TLC.  The instance is in PipairA.cfg; this       *)
(* module adds the repository's own test programs as checks of the         *)
(* definition of a bug that the program is compared with.                  *)
(***************************************************************************)
EXTENDS PipairA

(* The call graph of test2/main.c.                                         *)
Test2Callees ==
  [main   |-> {"scope1", "scope2", "scope3", "scope4", "scope5", "scope6"},
   scope1 |-> {"A", "B", "C", "D"},
   scope2 |-> {"A", "C", "D"},
   scope3 |-> {"A", "B"},
   scope4 |-> {"B", "D", "scope1"},
   scope5 |-> {"B", "D", "A"},
   scope6 |-> {"B", "D"},
   A |-> {"printf"}, B |-> {"printf"}, C |-> {"printf"}, D |-> {"printf"},
   printf |-> {}]

Test2Fun   == DOMAIN Test2Callees
Test2Calls == {e \in Test2Fun \X Test2Fun : e[2] \in Test2Callees[e[1]]}

At3_65  == INSTANCE LikelyPairs WITH Fun <- Test2Fun, Support <- 3, Confidence <- 65
At10_80 == INSTANCE LikelyPairs WITH Fun <- Test2Fun, Support <- 10, Confidence <- 80

(* test2/gold_3_65 and the empty test2/gold_10_80.                         *)
ASSUME Test2Gold ==
  /\ At3_65!Bugs(Test2Calls) =
       {[bug |-> "A", scope |-> "scope2", pair |-> {"A", "B"},
         support |-> 3, confidence |-> 7500],
        [bug |-> "A", scope |-> "scope3", pair |-> {"A", "D"},
         support |-> 3, confidence |-> 7500],
        [bug |-> "B", scope |-> "scope3", pair |-> {"B", "D"},
         support |-> 4, confidence |-> 8000],
        [bug |-> "D", scope |-> "scope2", pair |-> {"B", "D"},
         support |-> 4, confidence |-> 8000]}
  /\ At10_80!Bugs(Test2Calls) = {}
=============================================================================
