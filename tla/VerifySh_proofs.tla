--------------------------- MODULE VerifySh_proofs ---------------------------
(***************************************************************************)
(* Proofs about timeout.sh and verify.sh, for any number of tests and any  *)
(* files: the status that timeout.sh returns, what it leaves running, and  *)
(* what a PASS means, whatever the order in which signals arrive.          *)
(***************************************************************************)
EXTENDS VerifySh, SumFacts, SequenceTheorems

(* Where the main shell is once it has the status of its wait for the job. *)
Waited == {"kill", "waita", "exit"}

(* sleep and the command watchit is at.                                    *)
TimerInv ==
  /\ watch \in {"trap", "sleep"} => sleep = "none"
  /\ watch = "wait" => sleep \in {"running", "ended"}
  /\ watch = "fire" => sleep = "ended"
  /\ main \in {"trap", "job"} => sleep # "ended" /\ ~ mainAlrm

(* Who has sent the alarm that the main shell handles: watchit, as its     *)
(* last command, or nobody but the user.                                   *)
AlarmInv ==
  /\ mainAlrm \/ handler # "no" => sleep = "ended" \/ interrupted
  /\ mainAlrm \/ handler # "no" \/ main \in {"exit", "gone"} =>
       watch = "gone" \/ interrupted
  /\ ~ alrmTrap /\ handler = "no" /\ main \in {"job", "wait"} =>
       watch = "gone" /\ ~ mainAlrm
  /\ handler # "no" => main \in {"job"} \cup Waited

(* How far the job is, by the command the main shell is at.                *)
JobInv ==
  /\ main \in {"trap", "job"} => job = "none"
  /\ main \in {"wait"} \cup Waited => job # "none"
  /\ main \in Waited /\ handler = "no" => job = "reaped"
  /\ job \in {"ended", "reaped"} => jobStatus # NoStatus
  /\ main = "gone" => job # "running" \/ termed
  /\ termed => main = "gone" /\ exit = 124 /\ (sleep = "ended" \/ interrupted)

(* What the main shell knows of the status of the job: it has it, or has   *)
(* been alarmed, and that happens only when the time is over.              *)
StatusInv ==
  /\ main \in Waited => RET # NoStatus
  /\ main \in Waited /\ ~ interrupted =>
       (job = "reaped" /\ RET = jobStatus) \/ (RET = ByALRM /\ sleep = "ended")
  /\ RET \in JobStatus => job = "reaped" /\ RET = jobStatus
  /\ main # "gone" => exit = NoStatus
  /\ exit \in JobStatus => job = "reaped" /\ exit = jobStatus
  /\ exit # NoStatus /\ ~ termed /\ ~ interrupted =>
       job = "reaped" /\ (exit = jobStatus \/ (exit = ByALRM /\ sleep = "ended"))

(* ShTypeOK in two parts.                                                  *)
Flags ==
  /\ alrmTrap \in BOOLEAN /\ mainAlrm \in BOOLEAN /\ termed \in BOOLEAN
  /\ watchTrap \in BOOLEAN /\ watchAlrm \in BOOLEAN /\ interrupted \in BOOLEAN

Places ==
  /\ main \in {"trap", "job", "wait", "gone"} \cup Waited
  /\ handler \in {"no", "cleanup", "kill"}
  /\ RET \in JobStatus \cup {NoStatus, 124, ByALRM, ByINT}
  /\ exit \in JobStatus \cup {NoStatus, 124, ByALRM, ByINT}
  /\ job \in {"none", "running", "ended", "reaped"}
  /\ jobStatus \in JobStatus \cup {NoStatus}
  /\ watch \in {"trap", "sleep", "wait", "fire", "gone"}
  /\ sleep \in {"none", "running", "ended", "killed"}

ShInv == Flags /\ Places /\ TimerInv /\ AlarmInv /\ JobInv /\ StatusInv

(* What verify.sh prints for a test.                                       *)
Labels == {"PASS.", "FAIL!", "error.", "time out."}

Printed == [label : Labels, status : JobStatus \cup {NoStatus}, killed : BOOLEAN,
            out : File, gold : File, missing : Nat, extra : Nat, total : Nat]

Earned(v) == v.label = "PASS." => v.status = 0 /\ ~ v.killed /\ v.out = v.gold

Passing(s) == {i \in DOMAIN s : s[i].label = "PASS."}

(* What verify.sh has counted, and what it has printed.                    *)
VerifyInv ==
  /\ verify \in {"prepare", "next", "test", "done", "aborted"}
  /\ verify # "test" => main = "gone"
  /\ verdicts \in Seq(Printed)
  /\ TOTAL \in 0 .. Tests
  /\ verify \in {"prepare", "next", "done"} => TOTAL = Len(verdicts)
  /\ verify = "test" => TOTAL = Len(verdicts) + 1
  /\ Len(verdicts) <= TOTAL
  /\ PASSED = Cardinality(Passing(verdicts))
  /\ \A i \in DOMAIN verdicts : Earned(verdicts[i])

-----------------------------------------------------------------------------
(* The main shell, until its wait for the job.                             *)
LEMMA MainInv ==
  ASSUME ShInv, MainTrap \/ MainJob \/ MainWait \/ MainKill \/ MainWaitTimer \/ MainExit
  PROVE  ShInv'
<1> USE DEF ShInv, Flags, Places, TimerInv, AlarmInv, JobInv, StatusInv, Waited, JobStatus,
            NoStatus, ByALRM, ByINT, mainRest
<1>1. CASE MainTrap
  BY <1>1 DEF MainTrap
<1>2. CASE MainJob
  BY <1>2 DEF MainJob
<1>3. CASE MainWait
  BY <1>3 DEF MainWait
<1>4. CASE MainKill
  BY <1>4 DEF MainKill, AlarmWatch
<1>5. CASE MainWaitTimer
  BY <1>5 DEF MainWaitTimer
<1>6. CASE MainExit
  BY <1>6 DEF MainExit, Ends
<1> QED
  BY <1>1, <1>2, <1>3, <1>4, <1>5, <1>6

(* An alarm that is handled interrupts a wait; one that is not ends the    *)
(* shell, but then no job runs that would be left behind.                  *)
LEMMA MainAlrmInv ==
  ASSUME ShInv, MainAlrm
  PROVE  ShInv'
<1> USE DEF Waited, JobStatus, NoStatus, ByALRM, ByINT
<1>1. /\ mainAlrm /\ handler = "no" /\ main \in {"wait"} \cup Waited
      /\ watch = "gone" \/ interrupted
      /\ sleep = "ended" \/ interrupted
      /\ mainAlrm' = FALSE
      /\ UNCHANGED <<alrmTrap, watchAlrm, mainRest>>
  BY DEF MainAlrm, ShInv, Flags, Places, TimerInv, AlarmInv
<1>2. CASE alrmTrap
  <2>1. /\ handler' = "cleanup" /\ exit' = exit
        /\ main' \in Waited
        /\ main = "wait" => RET' = ByALRM
        /\ main # "wait" => RET' = RET
    BY <1>1, <1>2 DEF MainAlrm, EnterCleanup
  <2>2. Flags'
    BY <1>1, Zenon DEF ShInv, Flags, mainRest
  <2>3. Places'
    BY <1>1, <2>1 DEF ShInv, Places, mainRest
  <2>4. TimerInv' /\ AlarmInv'
    BY <1>1, <2>1 DEF ShInv, TimerInv, AlarmInv, mainRest
  <2>5. JobInv' /\ StatusInv'
    BY <1>1, <2>1 DEF ShInv, JobInv, StatusInv, mainRest
  <2> QED
    BY <2>2, <2>3, <2>4, <2>5 DEF ShInv
<1>3. CASE ~ alrmTrap
  <2>1. main' = "gone" /\ exit' = ByALRM /\ handler' = handler /\ RET' = RET
    BY <1>1, <1>3 DEF MainAlrm, Ends
  <2>2. job = "reaped"
    BY <1>1, <1>3 DEF ShInv, AlarmInv, JobInv
  <2>3. Flags'
    BY <1>1, Zenon DEF ShInv, Flags, mainRest
  <2>4. Places'
    BY <1>1, <2>1 DEF ShInv, Places, mainRest
  <2>5. TimerInv' /\ AlarmInv'
    BY <1>1, <2>1 DEF ShInv, TimerInv, AlarmInv, mainRest
  <2>6. JobInv' /\ StatusInv'
    BY <1>1, <2>1, <2>2 DEF ShInv, JobInv, StatusInv, mainRest
  <2> QED
    BY <2>3, <2>4, <2>5, <2>6 DEF ShInv
<1> QED
  BY <1>2, <1>3

(* ^C interrupts the main shell.                                            *)
LEMMA MainIntInv ==
  ASSUME ShInv, MainInt
  PROVE  ShInv'
BY DEF MainInt, EnterCleanup, Ends, ShInv, Flags, Places, TimerInv, AlarmInv, JobInv, StatusInv,
       Waited, JobStatus, NoStatus, ByALRM, ByINT

(* cleanup() ends in exit 124 or, when there is nothing to kill, goes on   *)
(* where the alarm came.                                                   *)
LEMMA CleanupInv ==
  ASSUME ShInv, CleanupTimer \/ CleanupKill \/ CleanupKillWatch
  PROVE  ShInv'
<1> USE DEF Waited, JobStatus, NoStatus, ByALRM, ByINT
<1>1. CASE CleanupTimer
  <2>1. /\ handler = "cleanup" /\ handler' = "kill" /\ alrmTrap' = FALSE
        /\ UNCHANGED <<main, mainAlrm, RET, exit, mainRest>>
    BY <1>1 DEF CleanupTimer
  <2>2. watchAlrm' \in BOOLEAN
    BY <1>1 DEF CleanupTimer, AlarmWatch
  <2>3. Flags'
    BY <2>1, <2>2, Zenon DEF ShInv, Flags, mainRest
  <2>4. Places' /\ TimerInv' /\ AlarmInv' /\ JobInv' /\ StatusInv'
    BY <2>1 DEF ShInv, Places, TimerInv, AlarmInv, JobInv, StatusInv, mainRest
  <2> QED
    BY <2>3, <2>4 DEF ShInv
<1>2. CASE CleanupKill
  <2>1. /\ handler = "kill" /\ job # "none" /\ handler' = "no"
        /\ UNCHANGED <<alrmTrap, mainAlrm, RET, job, jobStatus, watch, watchTrap,
                       watchAlrm, sleep, interrupted>>
        /\ main \in Waited
        /\ sleep = "ended" \/ interrupted
        /\ watch = "gone" \/ interrupted
    BY <1>2 DEF CleanupKill, ShInv, AlarmInv, JobInv
  <2>2. CASE job = "reaped" /\ UNCHANGED <<main, exit, termed>>
    BY <2>1, <2>2 DEF ShInv, Flags, Places, TimerInv, AlarmInv, JobInv, StatusInv
  <2>3. CASE termed' = TRUE /\ main' = "gone" /\ exit' = 124
    <3>1. Flags' /\ Places'
      BY <2>1, <2>3 DEF ShInv, Flags, Places
    <3>2. TimerInv' /\ AlarmInv'
      BY <2>1, <2>3 DEF ShInv, TimerInv, AlarmInv
    <3>3. JobInv' /\ StatusInv'
      BY <2>1, <2>3 DEF ShInv, JobInv, StatusInv
    <3> QED
      BY <3>1, <3>2, <3>3 DEF ShInv
  <2> QED
    BY <1>2, <2>2, <2>3 DEF CleanupKill, Ends
<1>3. CASE CleanupKillWatch
  BY <1>3 DEF CleanupKillWatch, Ends, ShInv, Flags, Places, TimerInv, AlarmInv, JobInv, StatusInv
<1> QED
  BY <1>1, <1>2, <1>3

(* The job ends, and the main shell is told so.                            *)
LEMMA JobStepInv ==
  ASSUME ShInv, JobStep
  PROVE  ShInv'
<1> USE DEF ShInv, Flags, Places, TimerInv, AlarmInv, JobInv, StatusInv, Waited, JobStatus,
            NoStatus, ByALRM, ByINT, jobRest
<1>1. ASSUME NEW s \in JobStatus, JobEnds(s) PROVE ShInv'
  BY <1>1 DEF JobEnds
<1>2. CASE JobReaped
  BY <1>2 DEF JobReaped
<1> QED
  BY <1>1, <1>2 DEF JobStep

(* watchit and its sleep.                                                  *)
LEMMA WatchInv ==
  ASSUME ShInv, WatchTrap \/ WatchSleep \/ SleepEnds \/ WatchWait \/ WatchFire
  PROVE  ShInv'
<1> USE DEF ShInv, Flags, Places, TimerInv, AlarmInv, JobInv, StatusInv, Waited, JobStatus,
            NoStatus, ByALRM, ByINT, watchRest
<1>1. CASE WatchTrap
  BY <1>1 DEF WatchTrap
<1>2. CASE WatchSleep
  BY <1>2 DEF WatchSleep
<1>3. CASE SleepEnds
  BY <1>3 DEF SleepEnds
<1>4. CASE WatchWait
  BY <1>4 DEF WatchWait
<1>5. CASE WatchFire
  BY <1>5 DEF WatchFire
<1> QED
  BY <1>1, <1>2, <1>3, <1>4, <1>5

(* The alarm of the main shell kills the sleep, or finds that it has ended.*)
LEMMA WatchAlrmInv ==
  ASSUME ShInv, WatchAlrm
  PROVE  ShInv'
<1> USE DEF Waited, JobStatus, NoStatus, ByALRM, ByINT, watchRest
<1>1. /\ watch # "gone" /\ watchAlrm' = FALSE
      /\ UNCHANGED <<mainAlrm, watchRest>>
  BY DEF WatchAlrm
<1>2. watchTrap' \in BOOLEAN
  BY Zenon DEF WatchAlrm, ShInv, Flags
<1>3. /\ sleep' = "ended" <=> sleep = "ended"
      /\ sleep' \in {"none", "running", "ended", "killed"}
      /\ \/ watch' = "gone"
         \/ watch' = watch /\ sleep' = sleep
         \/ watch' = "fire" /\ sleep' = sleep /\ sleep = "ended"
  <2>1. CASE watch' = "gone" /\ UNCHANGED sleep
    BY <2>1 DEF ShInv, Places
  <2>2. CASE watch' = "gone" /\ sleep' = IF sleep = "running" THEN "killed" ELSE sleep
    BY <2>2 DEF ShInv, Places
  <2>3. CASE /\ sleep # "running"
             /\ watch' = IF watch = "wait" THEN "fire" ELSE watch
             /\ UNCHANGED sleep
    BY <2>3 DEF ShInv, Places, TimerInv
  <2> QED
    BY <2>1, <2>2, <2>3, Zenon DEF WatchAlrm
<1>4. Flags'
  BY <1>1, <1>2, Zenon DEF ShInv, Flags
<1>5. Places' /\ TimerInv'
  BY <1>1, <1>3 DEF ShInv, Places, TimerInv
<1>6. AlarmInv' /\ JobInv' /\ StatusInv'
  BY <1>1, <1>3 DEF ShInv, AlarmInv, JobInv, StatusInv
<1> QED
  BY <1>4, <1>5, <1>6 DEF ShInv

(* timeout.sh starts anew, whatever the last call has left.                *)
LEMMA ShStartInv ==
  ASSUME interrupted \in BOOLEAN, ShStart, UNCHANGED interrupted
  PROVE  ShInv'
<1> USE DEF Waited, JobStatus, NoStatus, ByALRM, ByINT
<1>1. Flags' /\ Places'
  BY DEF ShStart, Flags, Places
<1>2. TimerInv' /\ AlarmInv'
  BY DEF ShStart, TimerInv, AlarmInv
<1>3. JobInv' /\ StatusInv'
  BY DEF ShStart, JobInv, StatusInv
<1> QED
  BY <1>1, <1>2, <1>3 DEF ShInv

(* Every step of the two shells and of the job keeps the invariant...       *)
LEMMA ShNextInv ==
  ASSUME ShInv, ShNext
  PROVE  ShInv'
BY MainInv, MainAlrmInv, MainIntInv, CleanupInv, JobStepInv, WatchInv, WatchAlrmInv
   DEF ShNext, MainStep, WatchStep

(* ... and so does a step that is not theirs.                               *)
LEMMA ShStay ==
  ASSUME ShInv, UNCHANGED <<shVars, interrupted>>
  PROVE  ShInv'
<1> USE DEF shVars
<1>1. Flags'
  BY Zenon DEF ShInv, Flags
<1>2. Places' /\ TimerInv'
  BY DEF ShInv, Places, TimerInv
<1>3. AlarmInv' /\ JobInv' /\ StatusInv'
  BY DEF ShInv, AlarmInv, JobInv, StatusInv
<1> QED
  BY <1>1, <1>2, <1>3 DEF ShInv

-----------------------------------------------------------------------------
(* The comparison of the output with the gold file. *)

(* diff counts no line that is in one file only: each line of the one is   *)
(* in the other as often at least.                                         *)
LEMMA OnlyInFacts ==
  ASSUME NEW f \in File, NEW g \in File
  PROVE  /\ LinesOnlyIn(f, g) \in Nat
         /\ LinesOnlyIn(f, g) = 0 => \A l \in Lines : f[l] <= g[l]
<1> DEFINE d == [l \in Lines |-> IF f[l] > g[l] THEN f[l] - g[l] ELSE 0]
<1>1. LinesOnlyIn(f, g) = SumFunctionOnSet(d, Lines)
  <2>1. DOMAIN d = Lines
    OBVIOUS
  <2> HIDE DEF d
  <2>2. FoldFunction(+, 0, d) = SumFunctionOnSet(d, DOMAIN d)
    BY DEF FoldFunction, SumFunctionOnSet
  <2>3. LinesOnlyIn(f, g) = FoldFunction(+, 0, d)
    BY Zenon DEF LinesOnlyIn, d
  <2> QED
    BY <2>1, <2>2, <2>3
<1>2. \A l \in Lines : f[l] \in Nat /\ g[l] \in Nat
  BY VerifyAssumption DEF File
<1>3. \A l \in Lines : d[l] \in Nat /\ (d[l] = 0 => f[l] <= g[l])
  BY <1>2
<1> HIDE DEF d
<1>4. SumFunctionOnSet(d, Lines) \in Nat
  BY <1>3, VerifyAssumption, SumNotNegative
<1>5. SumFunctionOnSet(d, Lines) = 0 => \A l \in Lines : d[l] = 0
  BY <1>3, VerifyAssumption, SumZero
<1> QED
  BY <1>1, <1>3, <1>4, <1>5

(* The number of lines of a file is a natural number.                       *)
LEMMA CountFacts ==
  ASSUME NEW f \in File
  PROVE  CountLines(f) \in Nat
<1>1. CountLines(f) = SumFunctionOnSet(f, Lines)
  BY DEF CountLines, FoldFunction, SumFunctionOnSet, File
<1>2. \A l \in Lines : f[l] \in Nat
  BY VerifyAssumption DEF File
<1> QED
  BY <1>1, <1>2, VerifyAssumption, SumNotNegative

(* Two files that pass are the same file, up to the order of the lines.    *)
LEMMA PassesMeansSame ==
  ASSUME NEW out \in File, NEW gold \in File, Passes(out, gold)
  PROVE  out = gold
<1>1. \A l \in Lines : out[l] <= gold[l] /\ gold[l] <= out[l]
  BY OnlyInFacts DEF Passes
<1>2. \A l \in Lines : out[l] \in Nat /\ gold[l] \in Nat
  BY VerifyAssumption DEF File
<1>3. \A l \in Lines : out[l] = gold[l]
  BY <1>1, <1>2
<1> QED
  BY <1>3 DEF File

(* There are at most as many passing tests as tests.                       *)
LEMMA PassingBound ==
  ASSUME NEW s \in Seq(Printed)
  PROVE  /\ IsFiniteSet(Passing(s))
         /\ Cardinality(Passing(s)) \in 0 .. Len(s)
         /\ Passing(s) = {i \in 1 .. Len(s) : s[i].label = "PASS."}
         /\ Len(s) \in Nat
<1> DEFINE n == Len(s)
<1>1. n \in Nat /\ DOMAIN s = 1 .. n
  OBVIOUS
<1> HIDE DEF n
<1>2. Passing(s) \subseteq 1 .. n /\ Passing(s) = {i \in 1 .. n : s[i].label = "PASS."}
  BY <1>1 DEF Passing
<1>3. IsFiniteSet(1 .. n) /\ Cardinality(1 .. n) = n
  BY <1>1, FS_Interval
<1>4. /\ IsFiniteSet(Passing(s)) /\ Cardinality(Passing(s)) \in Nat
      /\ Cardinality(Passing(s)) <= n
  BY <1>2, <1>3, FS_Subset, FS_CardinalityType
<1>5. Cardinality(Passing(s)) \in 0 .. n
  BY <1>1, <1>4
<1> QED
  BY <1>1, <1>2, <1>4, <1>5 DEF n

(* The number of passing tests when one more verdict is printed.           *)
LEMMA PassingAppend ==
  ASSUME NEW s \in Seq(Printed), NEW v \in Printed
  PROVE  /\ Append(s, v) \in Seq(Printed)
         /\ Len(Append(s, v)) = Len(s) + 1
         /\ \A i \in DOMAIN Append(s, v) :
              Append(s, v)[i] = v \/ (i \in DOMAIN s /\ Append(s, v)[i] = s[i])
         /\ Cardinality(Passing(s)) \in 0 .. Len(s)
         /\ Cardinality(Passing(Append(s, v))) =
              Cardinality(Passing(s)) + IF v.label = "PASS." THEN 1 ELSE 0
<1> DEFINE n == Len(s)
<1> DEFINE t == Append(s, v)
<1>1. /\ t \in Seq(Printed) /\ Len(t) = n + 1 /\ n \in Nat
      /\ DOMAIN s = 1 .. n /\ DOMAIN t = 1 .. n + 1
      /\ t[n + 1] = v
      /\ \A i \in 1 .. n : t[i] = s[i]
  OBVIOUS
<1> HIDE DEF n, t
<1>2. /\ IsFiniteSet(Passing(s)) /\ Cardinality(Passing(s)) \in 0 .. n
      /\ Passing(s) = {i \in 1 .. n : s[i].label = "PASS."}
  BY PassingBound DEF n
<1>3. n + 1 \notin Passing(s)
  BY <1>1, <1>2
<1>4. Passing(t) = Passing(s) \cup (IF v.label = "PASS." THEN {n + 1} ELSE {})
  BY <1>1, <1>2 DEF Passing
<1>5. Cardinality(Passing(t)) = Cardinality(Passing(s)) + IF v.label = "PASS." THEN 1 ELSE 0
  <2>1. CASE v.label = "PASS."
    BY <1>2, <1>3, <1>4, <2>1, FS_AddElement
  <2>2. CASE v.label # "PASS."
    BY <1>2, <1>4, <2>2
  <2> QED
    BY <2>1, <2>2
<1>6. \A i \in 1 .. n + 1 : t[i] = v \/ (i \in 1 .. n /\ t[i] = s[i])
  <2> TAKE i \in 1 .. n + 1
  <2>1. CASE i = n + 1
    BY <1>1, <2>1
  <2>2. CASE i # n + 1
    <3>1. i \in 1 .. n
      BY <1>1, <2>2
    <3> QED
      BY <1>1, <3>1
  <2> QED
    BY <2>1, <2>2
<1> QED
  BY <1>1, <1>2, <1>5, <1>6, Zenon DEF n, t

(* A verdict is printed about two files.                                   *)
LEMMA VerdictFacts ==
  ASSUME ShInv, NEW out \in File, NEW gold \in File,
         NEW label \in Labels
  PROVE  /\ Verdict(label, out, gold) \in Printed
         /\ Verdict(label, out, gold).label = label
         /\ label # "PASS." => Earned(Verdict(label, out, gold))
         /\ exit = 0 /\ out = gold => Earned(Verdict(label, out, gold))
<1> DEFINE v == Verdict(label, out, gold)
<1>1. /\ LinesOnlyIn(out, gold) \in Nat /\ LinesOnlyIn(gold, out) \in Nat
      /\ CountLines(gold) \in Nat
  BY OnlyInFacts, CountFacts
<1>2. jobStatus \in JobStatus \cup {NoStatus} /\ termed \in BOOLEAN
  BY DEF ShInv, Flags, Places
<1>3. v \in Printed
  BY <1>1, <1>2 DEF Verdict, Printed
<1>4. v.label = label /\ v.status = jobStatus /\ v.out = out /\ v.gold = gold
  BY DEF Verdict
<1>5. v.killed = termed
  BY Zenon DEF Verdict
<1>6. exit = 0 => jobStatus = 0 /\ ~ termed
  <2>1. exit = 0 => jobStatus = 0
    BY DEF ShInv, StatusInv, JobStatus
  <2>2. termed => exit = 124
    BY Zenon DEF ShInv, JobInv
  <2>3. 0 # 124
    OBVIOUS
  <2> QED
    BY <2>1, <2>2, <2>3, Zenon
<1> HIDE DEF v
<1>7. exit = 0 => ~ v.killed
  BY <1>5, <1>6, Zenon
<1>8. label # "PASS." => Earned(v)
  BY <1>4 DEF Earned
<1>9. exit = 0 /\ out = gold => Earned(v)
  BY <1>4, <1>6, <1>7 DEF Earned
<1> QED
  BY <1>3, <1>4, <1>8, <1>9 DEF v

(* PASSED counts tests.                                                    *)
LEMMA PassingIsCounted ==
  ASSUME VerifyInv
  PROVE  PASSED \in Int /\ PASSED \in 0 .. TOTAL
<1>1. /\ verdicts \in Seq(Printed) /\ PASSED = Cardinality(Passing(verdicts))
      /\ Len(verdicts) <= TOTAL /\ TOTAL \in 0 .. Tests
  BY DEF VerifyInv
<1>2. Cardinality(Passing(verdicts)) \in 0 .. Len(verdicts) /\ Len(verdicts) \in Nat
  BY <1>1, PassingBound
<1> QED
  BY <1>1, <1>2, VerifyAssumption

-----------------------------------------------------------------------------
(* One more verdict. *)
LEMMA PrintInv ==
  ASSUME ShInv, VerifyInv, verify = "test", main = "gone",
         NEW label \in Labels,
         NEW out \in File, NEW gold \in File, label = "PASS." => exit = 0 /\ out = gold,
         verify' = "next", verdicts' = Append(verdicts, Verdict(label, out, gold)),
         PASSED' = IF label = "PASS." THEN PASSED + 1 ELSE PASSED,
         UNCHANGED <<shVars, TOTAL>>
  PROVE  VerifyInv'
<1> DEFINE v == Verdict(label, out, gold)
<1>1. v \in Printed /\ v.label = label /\ Earned(v)
  BY VerdictFacts
<1> HIDE DEF v
<1>2. verdicts' = Append(verdicts, v)
  BY DEF v
<1>3. verdicts \in Seq(Printed) /\ TOTAL = Len(verdicts) + 1 /\ TOTAL \in 0 .. Tests
  BY DEF VerifyInv
<1>4. /\ verdicts' \in Seq(Printed) /\ Len(verdicts') = Len(verdicts) + 1
      /\ \A i \in DOMAIN verdicts' :
           verdicts'[i] = v \/ (i \in DOMAIN verdicts /\ verdicts'[i] = verdicts[i])
      /\ Cardinality(Passing(verdicts')) =
           Cardinality(Passing(verdicts)) + IF v.label = "PASS." THEN 1 ELSE 0
  <2> DEFINE s == verdicts
  <2>1. s \in Seq(Printed)
    BY <1>3
  <2> HIDE DEF s
  <2>2. /\ Append(s, v) \in Seq(Printed)
        /\ Len(Append(s, v)) = Len(s) + 1
        /\ \A i \in DOMAIN Append(s, v) :
             Append(s, v)[i] = v \/ (i \in DOMAIN s /\ Append(s, v)[i] = s[i])
        /\ Cardinality(Passing(Append(s, v))) =
             Cardinality(Passing(s)) + IF v.label = "PASS." THEN 1 ELSE 0
    BY <1>1, <2>1, PassingAppend
  <2> QED
    BY <1>2, <2>2, Zenon DEF s
<1>5. PASSED' = Cardinality(Passing(verdicts'))
  BY <1>1, <1>4, PassingIsCounted DEF VerifyInv
<1>6. \A i \in DOMAIN verdicts' : Earned(verdicts'[i])
  BY <1>1, <1>4 DEF VerifyInv
<1>7. main' = "gone" /\ TOTAL' = TOTAL
  BY Zenon DEF shVars
<1>8. Len(verdicts') = TOTAL /\ TOTAL \in Int
  BY <1>3, <1>4, VerifyAssumption
<1> QED
  BY <1>3, <1>4, <1>5, <1>6, <1>7, <1>8 DEF VerifyInv

(* verify.sh starts with nothing counted and no test running.               *)
LEMMA VerifyInit ==
  ASSUME Init
  PROVE  ShInv /\ VerifyInv
<1>1. ShInv
  <2> USE DEF Waited, JobStatus, NoStatus
  <2>1. Flags /\ Places
    BY DEF Init, ShIdle, Flags, Places
  <2>2. TimerInv /\ AlarmInv
    BY DEF Init, ShIdle, TimerInv, AlarmInv
  <2>3. JobInv /\ StatusInv
    BY DEF Init, ShIdle, JobInv, StatusInv
  <2> QED
    BY <2>1, <2>2, <2>3 DEF ShInv
<1>2. Passing(<<>>) = {} /\ <<>> \in Seq(Printed) /\ Len(<<>>) = 0
  BY DEF Passing
<1>3. Cardinality(Passing(<<>>)) = 0
  BY <1>2, FS_EmptySet
<1>4. VerifyInv
  BY <1>2, <1>3, VerifyAssumption DEF Init, ShIdle, VerifyInv
<1> QED
  BY <1>1, <1>4

(* Every step of verify.sh and of the test it runs keeps both invariants.   *)
LEMMA VerifyNext ==
  ASSUME ShInv, VerifyInv, [Next]_vars
  PROVE  ShInv' /\ VerifyInv'
<1>1. CASE Sh(ShNext)
  <2>1. ShInv'
    BY <1>1, ShNextInv DEF Sh
  <2>2. main = "gone" => main' = "gone"
    BY <1>1 DEF Sh, ShNext, MainStep, MainTrap, MainJob, MainWait, MainKill, MainWaitTimer,
                MainExit, MainAlrm, MainInt, CleanupTimer, CleanupKill, CleanupKillWatch,
                JobStep, JobEnds, JobReaped, jobRest, WatchStep, WatchTrap, WatchSleep, WatchWait,
                WatchFire, WatchAlrm, watchRest, SleepEnds, Ends, EnterCleanup,
                ShInv, AlarmInv, Waited
  <2>3. VerifyInv'
    BY <1>1, <2>2 DEF Sh, verifyVars, VerifyInv
  <2> QED
    BY <2>1, <2>3
<1>2. CASE StartTest
  <2>1. ShInv'
    BY <1>2, ShStartInv DEF StartTest, ShInv, Flags
  <2>2. verdicts \in Seq(Printed) /\ Len(verdicts) \in Nat
    BY DEF VerifyInv
  <2>3. VerifyInv'
    BY <1>2, <2>2, VerifyAssumption DEF StartTest, VerifyInv
  <2> QED
    BY <2>1, <2>3
<1>3. CASE /\ Prepare \/ Abort \/ Finish \/ TimeOut \/ Error
              \/ \E out, gold \in File : Compare(out, gold)
  <2>1. UNCHANGED <<shVars, interrupted>>
    BY <1>3 DEF Prepare, Abort, Finish, TimeOut, Error, NoOutput, Compare
  <2>2. ShInv'
    BY <2>1, ShStay
  <2> main' = main
    BY <2>1, Zenon DEF shVars
  <2>3. ASSUME UNCHANGED <<TOTAL, PASSED, verdicts>>,
               \/ verify \in {"prepare", "next"} /\ verify' \in {"next", "done", "aborted"}
               \/ main = "gone" /\ verify' = "aborted"
        PROVE  VerifyInv'
    <3>1. /\ verify' \in {"next", "done", "aborted"}
          /\ verify' # "test" => main' = "gone"
          /\ verify' \in {"prepare", "next", "done"} => TOTAL = Len(verdicts)
      BY <2>3 DEF VerifyInv
    <3>2. PASSED' = Cardinality(Passing(verdicts')) /\ \A i \in DOMAIN verdicts' : Earned(verdicts'[i])
      BY <2>3 DEF VerifyInv
    <3> QED
      BY <2>3, <3>1, <3>2 DEF VerifyInv
  <2>4. CASE Prepare \/ Finish
    <3>1. /\ verify \in {"prepare", "next"} /\ verify' \in {"next", "done", "aborted"}
          /\ UNCHANGED <<TOTAL, PASSED, verdicts>>
      BY <2>4 DEF Prepare, Finish
    <3> QED
      BY <2>2, <2>3, <3>1
  <2>5. CASE Abort
    <3>1. /\ main = "gone" /\ verify' = "aborted"
          /\ UNCHANGED <<TOTAL, PASSED, verdicts>>
      BY <2>5 DEF Abort, Returned
    <3> QED
      BY <2>2, <2>3, <3>1
  <2>6. CASE TimeOut \/ Error
    <3>1. PICK label \in Labels : label # "PASS." /\ Returned /\ NoOutput(label)
      <4>1. /\ "error." \in Labels /\ "error." # "PASS."
            /\ "time out." \in Labels /\ "time out." # "PASS."
        BY Zenon DEF Labels
      <4> QED
        BY <2>6, <4>1, Zenon DEF TimeOut, Error
    <3>2. NoFile \in File
      <4>1. 0 \in 0 .. MaxCopies
        BY VerifyAssumption
      <4> QED
        BY <4>1 DEF NoFile, File
    <3>3. /\ verify = "test" /\ main = "gone" /\ verify' = "next"
          /\ verdicts' = Append(verdicts, Verdict(label, NoFile, NoFile))
          /\ PASSED' = PASSED /\ UNCHANGED <<shVars, TOTAL>>
      BY <3>1, Zenon DEF NoOutput, Returned
    <3>4. PASSED' = IF label = "PASS." THEN PASSED + 1 ELSE PASSED
      BY <3>1, <3>3
    <3> QED
      BY <2>2, <3>1, <3>2, <3>3, <3>4, PrintInv, Zenon
  <2>7. ASSUME NEW out \in File, NEW gold \in File, Compare(out, gold)
        PROVE  VerifyInv'
    <3> DEFINE label == IF Passes(out, gold) THEN "PASS." ELSE "FAIL!"
    <3>1. /\ verify = "test" /\ main = "gone" /\ exit = 0 /\ verify' = "next"
          /\ verdicts' = Append(verdicts, Verdict(label, out, gold))
          /\ PASSED' = IF Passes(out, gold) THEN PASSED + 1 ELSE PASSED
          /\ UNCHANGED <<shVars, TOTAL>>
      BY <2>7, Zenon DEF Compare, Returned
    <3>2. label \in Labels /\ (label = "PASS." <=> Passes(out, gold))
      BY Zenon DEF Labels
    <3> HIDE DEF label
    <3>3. label = "PASS." => exit = 0 /\ out = gold
      BY <3>1, <3>2, PassesMeansSame
    <3>4. PASSED' = IF label = "PASS." THEN PASSED + 1 ELSE PASSED
      BY <3>1, <3>2
    <3> QED
      BY <3>1, <3>2, <3>3, <3>4, PrintInv, Zenon
  <2> QED
    BY <1>3, <2>2, <2>4, <2>5, <2>6, <2>7
<1>4. CASE Ended \/ UNCHANGED vars
  <2>1. UNCHANGED <<shVars, interrupted>> /\ UNCHANGED verifyVars
    BY <1>4 DEF Ended, vars
  <2>2. VerifyInv'
    BY <2>1 DEF shVars, verifyVars, VerifyInv
  <2> QED
    BY <2>1, <2>2, ShStay
<1> QED
  BY <1>1, <1>2, <1>3, <1>4 DEF Next, VerifyStep

(* Both invariants always hold.                                             *)
LEMMA InvAlways == Spec => [](ShInv /\ VerifyInv)
BY VerifyInit, VerifyNext, PTL DEF Spec

-----------------------------------------------------------------------------
(* Type correctness of the two scripts.                                    *)
THEOREM TypeCorrect == Spec => []TypeOK
<1>1. ASSUME ShInv, VerifyInv PROVE TypeOK
  <2>1. ShTypeOK
    BY <1>1 DEF ShInv, Flags, Places, StatusInv, Waited, ShTypeOK
  <2>2. PASSED \in 0 .. TOTAL
    BY <1>1, PassingIsCounted DEF VerifyInv
  <2>3. \A i \in DOMAIN verdicts :
          verdicts[i].label \in {"PASS.", "FAIL!", "error.", "time out."}
    <3>1. \A i \in DOMAIN verdicts : verdicts[i].label \in Labels
      <4>1. \A v \in Printed : v.label \in Labels
        BY DEF Printed
      <4>2. \A i \in DOMAIN verdicts : verdicts[i] \in Printed
        BY <1>1 DEF VerifyInv
      <4> QED
        BY <4>1, <4>2
    <3> QED
      BY <3>1, Zenon DEF Labels
  <2> QED
    BY <1>1, <2>1, <2>2, <2>3 DEF VerifyInv, TypeOK
<1> QED
  BY <1>1, InvAlways, PTL

(* "return the value" (timeout.sh line 56): however the alarms of the two  *)
(* shells cross, the status is that of the job, or 124 when it was stopped *)
(* because its time was over; 142 only when the alarm came as it ended.    *)
THEOREM StatusIsFaithful == Spec => []StatusFaithful
<1>1. ShInv => StatusFaithful
  BY DEF ShInv, Places, JobInv, StatusInv, StatusFaithful
<1> QED
  BY <1>1, InvAlways, PTL

(* timeout.sh never ends with a job that runs and was not sent a TERM:     *)
(* after trap - ALRM the default action of an alarm can end it only when   *)
(* there is no job to wait for.                                            *)
THEOREM JobIsNotLeft == Spec => []JobNotLeft
<1>1. ShInv => JobNotLeft
  BY DEF ShInv, JobInv, JobNotLeft
<1> QED
  BY <1>1, InvAlways, PTL

(* kill -ALRM $a and wait $a leave no watchit behind that could signal a   *)
(* process with the number of a shell that is gone.                        *)
THEOREM NoAlarmStrays == Spec => []NoStrayAlarm
<1>1. ShInv => NoStrayAlarm
  BY DEF ShInv, AlarmInv, NoStrayAlarm
<1> QED
  BY <1>1, InvAlways, PTL

(* A test that passes has an output with the lines of its gold file, each  *)
(* as often, and the number at the end is that of the tests that passed.   *)
THEOREM PassesAreEarned == Spec => []PassIsEarned
<1>1. ShInv /\ VerifyInv => PassIsEarned
  BY DEF VerifyInv, Passing, Earned, PassIsEarned
<1> QED
  BY <1>1, InvAlways, PTL
=============================================================================
