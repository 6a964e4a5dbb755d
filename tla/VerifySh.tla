------------------------------ MODULE VerifySh -------------------------------
(***************************************************************************)
(* verify.sh: build pipair, run it on each test under timeout.sh, compare  *)
(* its output with the gold file and count the tests that pass.            *)
(*                                                                         *)
(* A file is the number of copies of each line in it: both files are       *)
(* sorted before diff compares them.  The output is what the make rule     *)
(* leaves: opt is a part of a pipe, so its failure is no failure of make,  *)
(* and leaves a shorter or an empty output.                                *)
(***************************************************************************)
EXTENDS TimeoutSh, Sequences, FiniteSets, Functions

CONSTANTS
  Lines,      \* the lines of a report
  MaxCopies,  \* bound: how often a line is in a file
  Tests       \* how many times verifyTest is called

ASSUME VerifyAssumption == IsFiniteSet(Lines) /\ MaxCopies \in Nat /\ Tests \in Nat

VARIABLES
  verify,    \* "prepare", "next", "test", "done" or "aborted"
  TOTAL,
  PASSED,
  verdicts   \* what was printed for each test, and what it was printed about

verifyVars == <<verify, TOTAL, PASSED, verdicts>>
vars == <<shVars, interrupted, verifyVars>>

File == [Lines -> 0 .. MaxCopies]
NoFile == [l \in Lines |-> 0]   \* what sort and cat make of a missing file

Init ==
  /\ ShIdle
  /\ interrupted = FALSE
  /\ verify = "prepare"
  /\ TOTAL = 0 /\ PASSED = 0
  /\ verdicts = <<>>

(* The tests for Makefile and pipair and the make between them.            *)
Prepare ==
  /\ verify = "prepare"
  /\ verify' \in {"next", "aborted"}
  /\ UNCHANGED <<shVars, interrupted, TOTAL, PASSED, verdicts>>

StartTest ==
  /\ verify = "next"
  /\ TOTAL < Tests
  /\ verify' = "test"
  /\ TOTAL' = TOTAL + 1
  /\ ShStart
  /\ UNCHANGED <<interrupted, PASSED, verdicts>>

(* The lines of the file f that are not in the file g: with out and gold   *)
(* in this order the lines of diff with a <, in the other those with a >.  *)
LinesOnlyIn(f, g) ==
  FoldFunction(+, 0, [l \in Lines |-> IF f[l] > g[l] THEN f[l] - g[l] ELSE 0])

CountLines(f) == FoldFunction(+, 0, f)

Verdict(label, out, gold) ==
  [label |-> label, status |-> jobStatus, killed |-> termed, out |-> out, gold |-> gold,
   missing |-> LinesOnlyIn(out, gold), extra |-> LinesOnlyIn(gold, out),
   total |-> CountLines(gold)]

NoOutput(label) ==
  /\ verify' = "next"
  /\ verdicts' = Append(verdicts, Verdict(label, NoFile, NoFile))
  /\ UNCHANGED <<shVars, interrupted, TOTAL, PASSED>>

Returned == verify = "test" /\ main = "gone"

TimeOut == Returned /\ exit = 124 /\ NoOutput("time out.")

Error == Returned /\ exit \notin {0, 124, ByINT} /\ NoOutput("error.")

(* bash ends with a command that died of ^C.                               *)
Abort ==
  /\ Returned
  /\ exit = ByINT
  /\ verify' = "aborted"
  /\ UNCHANGED <<shVars, interrupted, TOTAL, PASSED, verdicts>>

(* Seeded fault: only lines of the output are looked for.                  *)
PassesSubset(out, gold) == LinesOnlyIn(out, gold) = 0

(* DIFF_COUNT is 0.                                                        *)
Passes(out, gold) == LinesOnlyIn(out, gold) = 0 /\ LinesOnlyIn(gold, out) = 0

Compare(out, gold) ==
  /\ Returned
  /\ exit = 0
  /\ verify' = "next"
  /\ IF Passes(out, gold)
     THEN /\ verdicts' = Append(verdicts, Verdict("PASS.", out, gold))
          /\ PASSED' = PASSED + 1
     ELSE /\ verdicts' = Append(verdicts, Verdict("FAIL!", out, gold))
          /\ UNCHANGED PASSED
  /\ UNCHANGED <<shVars, interrupted, TOTAL>>

Finish ==
  /\ verify = "next"
  /\ TOTAL = Tests
  /\ verify' = "done"
  /\ UNCHANGED <<shVars, interrupted, TOTAL, PASSED, verdicts>>

VerifyStep ==
  \/ Prepare \/ StartTest \/ TimeOut \/ Error \/ Abort \/ Finish
  \/ \E out, gold \in File : Compare(out, gold)

Sh(A) == A /\ UNCHANGED verifyVars

Ended == verify \in {"done", "aborted"} /\ UNCHANGED vars

Next == VerifyStep \/ Sh(ShNext) \/ Ended

(***************************************************************************)
(* The shells are scheduled, signals arrive and sleep ends.  Nothing is    *)
(* assumed of the job: it may run for ever.                                *)
(***************************************************************************)
Fairness ==
  /\ WF_vars(VerifyStep)
  /\ WF_vars(Sh(MainStep))
  /\ WF_vars(Sh(WatchStep))
  /\ WF_vars(Sh(SleepEnds))

Spec == Init /\ [][Next]_vars /\ Fairness

-----------------------------------------------------------------------------
TypeOK ==
  /\ ShTypeOK
  /\ verify \in {"prepare", "next", "test", "done", "aborted"}
  /\ TOTAL \in 0 .. Tests
  /\ PASSED \in 0 .. TOTAL
  /\ \A i \in DOMAIN verdicts :
       verdicts[i].label \in {"PASS.", "FAIL!", "error.", "time out."}

(***************************************************************************)
(* A PASS is earned: the job of that test ended by itself with status 0    *)
(* and its output has the lines of the gold file, no more and no fewer (a  *)
(* missing gold file counts as an empty one, line 39), and PASSED/TOTAL at *)
(* the end says how many were.                                             *)
(***************************************************************************)
PassIsEarned ==
  /\ \A i \in DOMAIN verdicts :
       LET v == verdicts[i]
       IN  v.label = "PASS." => v.status = 0 /\ ~ v.killed /\ v.out = v.gold
  /\ verify = "done" =>
       /\ TOTAL = Len(verdicts)
       /\ PASSED = Cardinality({i \in DOMAIN verdicts : verdicts[i].label = "PASS."})

(***************************************************************************)
(* "Note that each test is given 2 minutes" (README): a job that never     *)
(* ends does not keep verify.sh from its end, unless somebody interrupts.  *)
(***************************************************************************)
TestsEnd == <>(verify \in {"done", "aborted"} \/ interrupted)
=============================================================================
