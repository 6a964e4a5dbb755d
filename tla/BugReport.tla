------------------------------ MODULE BugReport ------------------------------
(***************************************************************************)
(* The abstract specification of a pipair run: learn a call graph, then    *)
(* report the bugs of that graph, in any order, each of them once, and     *)
(* stop when all of them are reported.  What a bug is, is a parameter: the *)
(* versions of the program differ in it.                                   *)
(***************************************************************************)
EXTENDS Naturals

CONSTANTS
  Fun,       \* the functions of the analysed program
  Bugs(_)    \* the report that a call graph deserves

VARIABLES
  calls,    \* the call graph learnt so far
  phase,    \* "collect", "report" or "done"
  out,      \* the set of lines reported
  lines     \* how many lines were written

vars == <<calls, phase, out, lines>>

Init ==
  /\ calls = {}
  /\ phase = "collect"
  /\ out = {}
  /\ lines = 0

Collect(c, f) ==
  /\ phase = "collect"
  /\ calls' = calls \cup {<<c, f>>}
  /\ UNCHANGED <<phase, out, lines>>

Analyse ==
  /\ phase = "collect"
  /\ phase' = "report"
  /\ UNCHANGED <<calls, out, lines>>

Report(l) ==
  /\ phase = "report"
  /\ l \notin out
  /\ out' = out \cup {l}
  /\ lines' = lines + 1
  /\ UNCHANGED <<calls, phase>>

Finish ==
  /\ phase = "report"
  /\ out = Bugs(calls)
  /\ phase' = "done"
  /\ UNCHANGED <<calls, out, lines>>

Next ==
  \/ \E c, f \in Fun : Collect(c, f)
  \/ Analyse
  \/ \E l \in Bugs(calls) : Report(l)
  \/ Finish

Spec == Init /\ [][Next]_vars
=============================================================================
