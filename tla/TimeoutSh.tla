------------------------------ MODULE TimeoutSh ------------------------------
(***************************************************************************)
(* timeout.sh: run a command, and kill it when the time is over.           *)
(*                                                                         *)
(* Four processes and the signals between them: the main shell ($$), the   *)
(* timer subshell watchit ($a) with its child sleep, and the job.  A       *)
(* signal that was sent is delivered at any later moment; a shell runs the *)
(* trap between two commands, or when it interrupts a wait.  Whether a     *)
(* child that has ended can still be signalled depends on whether its      *)
(* shell has collected it, which shells do early or late.                  *)
(*                                                                         *)
(* Time is abstracted: sleep ends at any moment, but not before the main   *)
(* shell has got to its wait, three commands after the start (the limit is *)
(* 120 seconds).  The job may run for ever.                                *)
(***************************************************************************)
EXTENDS Integers

VARIABLES
  main,       \* main shell: the command it is at, "gone" when it has ended
  handler,    \* main shell: the command of cleanup() it is at, or "no"
  alrmTrap,   \* main shell: cleanup is the trap of ALRM
  mainAlrm,   \* an ALRM is on its way to the main shell
  RET,        \* main shell: the status that wait $! returned
  exit,       \* the status timeout.sh ended with
  job,        \* "none", "running", "ended" or (by the shell) "reaped"
  jobStatus,  \* what it ended with
  termed,     \* a TERM was sent to the job
  watch,      \* watchit: the command it is at, "gone" when it has ended
  watchTrap,  \* watchit: cleanup is the trap of ALRM
  watchAlrm,  \* an ALRM is on its way to watchit
  sleep,      \* "none", "running", "ended" or "killed"
  interrupted \* the user has interrupted verify.sh (^C)

shVars == <<main, handler, alrmTrap, mainAlrm, RET, exit, job, jobStatus, termed,
            watch, watchTrap, watchAlrm, sleep>>

(* 128 + the number of the signal that ended the shell or its wait.        *)
ByALRM == 142
ByINT  == 130
NoStatus == -1

JobStatus == {0, 2}   \* of make: the file was made, or not

(* Nothing runs: between two tests.                                        *)
ShIdle ==
  /\ main = "gone" /\ handler = "no" /\ alrmTrap = FALSE /\ mainAlrm = FALSE
  /\ RET = NoStatus /\ exit = NoStatus
  /\ job = "none" /\ jobStatus = NoStatus /\ termed = FALSE
  /\ watch = "gone" /\ watchTrap = FALSE /\ watchAlrm = FALSE /\ sleep = "none"

(* timeout.sh is called: watchit $1& a=$! and shift.                       *)
ShStart ==
  /\ main' = "trap" /\ handler' = "no" /\ alrmTrap' = FALSE /\ mainAlrm' = FALSE
  /\ RET' = NoStatus /\ exit' = NoStatus
  /\ job' = "none" /\ jobStatus' = NoStatus /\ termed' = FALSE
  /\ watch' = "trap" /\ watchTrap' = FALSE /\ watchAlrm' = FALSE /\ sleep' = "none"

Ends(status) == main' = "gone" /\ exit' = status

(* kill -ALRM $a                                                           *)
AlarmWatch == watchAlrm' = (watchAlrm \/ watch # "gone")

-----------------------------------------------------------------------------
(* The main shell. *)

mainRest == <<job, jobStatus, termed, watch, watchTrap, sleep, interrupted>>

MainTrap ==
  /\ main = "trap" /\ handler = "no"
  /\ main' = "job"
  /\ alrmTrap' = TRUE
  /\ UNCHANGED <<handler, mainAlrm, RET, exit, watchAlrm, mainRest>>

MainJob ==
  /\ main = "job" /\ handler = "no"
  /\ main' = "wait"
  /\ job' = "running"
  /\ UNCHANGED <<handler, alrmTrap, mainAlrm, RET, exit, jobStatus, termed,
                 watch, watchTrap, watchAlrm, sleep, interrupted>>

MainWait ==
  /\ main = "wait" /\ handler = "no"
  /\ job \in {"ended", "reaped"}
  /\ main' = "kill"
  /\ RET' = jobStatus
  /\ job' = "reaped"
  /\ UNCHANGED <<handler, alrmTrap, mainAlrm, exit, jobStatus, termed,
                 watch, watchTrap, watchAlrm, sleep, interrupted>>

(* Seeded fault: wait $a is left out.                                      *)
MainKillNoWait ==
  /\ main = "kill" /\ handler = "no"
  /\ main' = "exit"
  /\ AlarmWatch
  /\ UNCHANGED <<handler, alrmTrap, mainAlrm, RET, exit, mainRest>>

MainKill ==
  /\ main = "kill" /\ handler = "no"
  /\ main' = "waita"
  /\ AlarmWatch
  /\ UNCHANGED <<handler, alrmTrap, mainAlrm, RET, exit, mainRest>>

(* Seeded fault: the status is taken from the second wait.                 *)
MainWaitTimerStatus ==
  /\ main = "waita" /\ handler = "no"
  /\ watch = "gone"
  /\ main' = "exit"
  /\ RET' = IF sleep = "killed" THEN 124 ELSE RET
  /\ UNCHANGED <<handler, alrmTrap, mainAlrm, exit, watchAlrm, mainRest>>

MainWaitTimer ==
  /\ main = "waita" /\ handler = "no"
  /\ watch = "gone"
  /\ main' = "exit"
  /\ UNCHANGED <<handler, alrmTrap, mainAlrm, RET, exit, watchAlrm, mainRest>>

MainExit ==
  /\ main = "exit" /\ handler = "no"
  /\ Ends(RET)
  /\ UNCHANGED <<handler, alrmTrap, mainAlrm, RET, watchAlrm, mainRest>>

(* Seeded fault: the status of an interrupted wait is not kept.            *)
EnterCleanupNoStatus(status) ==
  /\ handler' = "cleanup"
  /\ main' = CASE main = "wait" -> "kill" [] main = "waita" -> "exit" [] OTHER -> main
  /\ UNCHANGED <<RET, exit>>

(* A trapped signal interrupts a wait: its status is 128 + the signal.     *)
EnterCleanup(status) ==
  /\ handler' = "cleanup"
  /\ RET' = IF main = "wait" THEN status ELSE RET
  /\ main' = CASE main = "wait" -> "kill" [] main = "waita" -> "exit" [] OTHER -> main
  /\ UNCHANGED exit

MainAlrm ==
  /\ mainAlrm /\ main # "gone" /\ handler = "no"
  /\ mainAlrm' = FALSE
  /\ IF alrmTrap THEN EnterCleanup(ByALRM)
                 ELSE Ends(ByALRM) /\ UNCHANGED <<handler, RET>>
  /\ UNCHANGED <<alrmTrap, watchAlrm, mainRest>>

(* ^C reaches the main shell only: commands started with & ignore it.      *)
MainInt ==
  /\ ~ interrupted /\ main # "gone" /\ handler = "no"
  /\ interrupted' = TRUE
  /\ IF main # "trap" THEN EnterCleanup(ByINT)
                      ELSE Ends(ByINT) /\ UNCHANGED <<handler, RET>>
  /\ UNCHANGED <<alrmTrap, mainAlrm, job, jobStatus, termed, watch, watchTrap,
                 watchAlrm, sleep>>

(* cleanup(): trap - ALRM; kill -ALRM $a                                   *)
CleanupTimer ==
  /\ handler = "cleanup"
  /\ handler' = "kill"
  /\ alrmTrap' = FALSE
  /\ AlarmWatch
  /\ UNCHANGED <<main, mainAlrm, RET, exit, mainRest>>

(* Seeded fault: exit 124 without kill $!.                                 *)
CleanupKillNot ==
  /\ handler = "kill" /\ job # "none"
  /\ handler' = "no"
  /\ IF job = "reaped" THEN UNCHANGED <<main, exit>> ELSE Ends(124)
  /\ UNCHANGED <<alrmTrap, mainAlrm, RET, job, jobStatus, termed, watch, watchTrap,
                 watchAlrm, sleep, interrupted>>

(* cleanup(): kill $! && exit 124, where $! is the job.                    *)
CleanupKill ==
  /\ handler = "kill" /\ job # "none"
  /\ handler' = "no"
  /\ IF job = "reaped"
     THEN UNCHANGED <<main, exit, termed>>
     ELSE termed' = TRUE /\ Ends(124)
  /\ UNCHANGED <<alrmTrap, mainAlrm, RET, job, jobStatus, watch, watchTrap,
                 watchAlrm, sleep, interrupted>>

(* The same before the job was started: $! is then watchit.                *)
CleanupKillWatch ==
  /\ handler = "kill" /\ job = "none"
  /\ handler' = "no"
  /\ \/ Ends(124) /\ watch' = "gone"
     \/ watch = "gone" /\ UNCHANGED <<main, exit, watch>>
  /\ UNCHANGED <<alrmTrap, mainAlrm, RET, job, jobStatus, termed, watchTrap,
                 watchAlrm, sleep, interrupted>>

-----------------------------------------------------------------------------
(* The job. *)

jobRest == <<main, handler, alrmTrap, mainAlrm, RET, exit, termed, watch, watchTrap,
             watchAlrm, sleep, interrupted>>

JobEnds(status) ==
  /\ job = "running"
  /\ job' = "ended"
  /\ jobStatus' = status
  /\ UNCHANGED jobRest

(* The shell is told of the end of its child at once, or when it waits.    *)
JobReaped ==
  /\ job = "ended" /\ main # "gone"
  /\ job' = "reaped"
  /\ UNCHANGED <<jobStatus, jobRest>>

-----------------------------------------------------------------------------
(* watchit, in a subshell. *)

watchRest == <<main, handler, alrmTrap, RET, exit, job, jobStatus, termed, interrupted>>

WatchTrap ==
  /\ watch = "trap"
  /\ watch' = "sleep"
  /\ watchTrap' = TRUE
  /\ UNCHANGED <<mainAlrm, watchAlrm, sleep, watchRest>>

WatchSleep ==
  /\ watch = "sleep"
  /\ watch' = "wait"
  /\ sleep' = "running"
  /\ UNCHANGED <<mainAlrm, watchTrap, watchAlrm, watchRest>>

SleepEnds ==
  /\ sleep = "running"
  /\ main \notin {"trap", "job"}
  /\ sleep' = "ended"
  /\ UNCHANGED <<mainAlrm, watch, watchTrap, watchAlrm, watchRest>>

WatchWait ==
  /\ watch = "wait"
  /\ sleep = "ended"
  /\ watch' = "fire"
  /\ UNCHANGED <<mainAlrm, watchTrap, watchAlrm, sleep, watchRest>>

(* Seeded fault: kill -ALRM $$ is left out.                                *)
WatchFireNot ==
  /\ watch = "fire"
  /\ watch' = "gone"
  /\ UNCHANGED <<mainAlrm, watchTrap, watchAlrm, sleep, watchRest>>

(* kill -ALRM $$, the last command of the subshell.                        *)
WatchFire ==
  /\ watch = "fire"
  /\ watch' = "gone"
  /\ mainAlrm' = (main # "gone")
  /\ UNCHANGED <<watchTrap, watchAlrm, sleep, watchRest>>

(***************************************************************************)
(* ALRM reaches watchit.  Without its trap it dies.  In cleanup() $a is    *)
(* not set here, and $! is sleep once that was started: if it runs (or was *)
(* not collected yet) it is killed and watchit exits, otherwise watchit    *)
(* goes on where it was, without its trap.                                 *)
(***************************************************************************)
WatchAlrm ==
  /\ watchAlrm /\ watch # "gone"
  /\ watchAlrm' = FALSE
  /\ \/ /\ ~ watchTrap
        /\ watch' = "gone"
        /\ UNCHANGED <<watchTrap, sleep>>
     \/ /\ watchTrap /\ watch = "wait"
        /\ watch' = "gone"
        /\ sleep' = IF sleep = "running" THEN "killed" ELSE sleep
        /\ UNCHANGED watchTrap
     \/ /\ watchTrap /\ sleep # "running"
        /\ watch' = IF watch = "wait" THEN "fire" ELSE watch
        /\ watchTrap' = FALSE
        /\ UNCHANGED sleep
  /\ UNCHANGED <<mainAlrm, watchRest>>

-----------------------------------------------------------------------------
MainStep ==
  \/ MainTrap \/ MainJob \/ MainWait \/ MainKill \/ MainWaitTimer \/ MainExit
  \/ MainAlrm
  \/ CleanupTimer \/ CleanupKill \/ CleanupKillWatch

JobStep == (\E s \in JobStatus : JobEnds(s)) \/ JobReaped

WatchStep == WatchTrap \/ WatchSleep \/ WatchWait \/ WatchFire \/ WatchAlrm

ShNext == MainStep \/ MainInt \/ JobStep \/ WatchStep \/ SleepEnds

ShTypeOK ==
  /\ main \in {"trap", "job", "wait", "kill", "waita", "exit", "gone"}
  /\ handler \in {"no", "cleanup", "kill"}
  /\ alrmTrap \in BOOLEAN /\ mainAlrm \in BOOLEAN /\ termed \in BOOLEAN
  /\ watchTrap \in BOOLEAN /\ watchAlrm \in BOOLEAN /\ interrupted \in BOOLEAN
  /\ {RET, exit} \subseteq JobStatus \cup {NoStatus, 124, ByALRM, ByINT}
  /\ job \in {"none", "running", "ended", "reaped"}
  /\ jobStatus \in JobStatus \cup {NoStatus}
  /\ watch \in {"trap", "sleep", "wait", "fire", "gone"}
  /\ sleep \in {"none", "running", "ended", "killed"}
  /\ main # "exit" \/ RET # NoStatus

(***************************************************************************)
(* "return the value" (line 56), "If the timeout occurs the exit status is *)
(* 124" (line 9): unless somebody interrupts, timeout.sh ends with 124     *)
(* when it has stopped the job, which it does only when the time is over,  *)
(* and with the status of the job when that ended by itself, however the   *)
(* alarms of its two shells cross.  The one exception: the job ends while  *)
(* the alarm comes, and the status is that of the interrupted wait.        *)
(***************************************************************************)
StatusFaithful ==
  main = "gone" /\ exit # NoStatus /\ ~ interrupted =>
    \/ termed /\ exit = 124 /\ sleep = "ended"
    \/ ~ termed /\ job = "reaped" /\ exit = jobStatus
    \/ ~ termed /\ job = "reaped" /\ exit = ByALRM /\ sleep = "ended"

(***************************************************************************)
(* timeout.sh leaves no job behind: when it has ended, the job has ended   *)
(* too, was never started, or was sent a TERM.                             *)
(***************************************************************************)
JobNotLeft == main = "gone" => job # "running" \/ termed

(***************************************************************************)
(* watchit is waited for (line 55), so that its alarm does not reach a     *)
(* process that has got the number of the shell when that is gone: unless  *)
(* somebody interrupts, no watchit that can still fire outlives its shell. *)
(***************************************************************************)
NoStrayAlarm == main = "gone" /\ ~ interrupted => watch = "gone"
=============================================================================
