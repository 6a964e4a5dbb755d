------------------------------- MODULE PipairA -------------------------------
(***************************************************************************)
(* The whole program of part A: main() reads the call graph, then calls    *)
(* printBug().                                                             *)
(***************************************************************************)
EXTENDS ScanCallGraph, PrintBug

vars == <<optVars, scanVars, printVars>>

Init == ScanInit /\ PrintInit

Scan == ScanNext /\ UNCHANGED printVars

Analyse ==
  /\ scan = "closed"
  /\ StartPrintBug
  /\ UNCHANGED <<optVars, scanVars>>

PrintStep == PrintNext /\ UNCHANGED <<optVars, scanVars>>

(* The program has ended.                                                  *)
Ended == print = "done" /\ UNCHANGED vars

Next == Scan \/ Analyse \/ PrintStep \/ Ended

Spec == Init /\ [][Next]_vars

TypeOK == ScanTypeOK /\ PrintTypeOK

(***************************************************************************)
(* When the program ends, the lines it printed are the bugs of the call    *)
(* graph that opt printed, whatever order the hash maps were visited in.   *)
(***************************************************************************)
ReportExact == print = "done" => out = Bugs(calls)

(***************************************************************************)
(* The program implements the abstract report: at every moment what it     *)
(* printed is part of the report, no line is printed twice (verify.sh      *)
(* compares sorted outputs line by line), and it stops only when the       *)
(* report is complete.                                                     *)
(***************************************************************************)
phase == IF print = "idle" THEN "collect"
         ELSE IF print = "done" THEN "done" ELSE "report"

Report == INSTANCE BugReport

ImplementsReport == Report!Spec
=============================================================================
