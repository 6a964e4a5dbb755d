-------------------------- MODULE WorkerChild_proofs --------------------------
(***************************************************************************)
(* Proofs about WorkerChild, for any number of workers, sockets and pools:  *)
(* the account of idle workers is exact at every step of every thread, and  *)
(* for this reason a push never finds the queue full or terminated; every   *)
(* accepted socket and every pool is in one place, no pool is lost, and the *)
(* child keeps the promise of ConnectionService.                            *)
(***************************************************************************)
EXTENDS WorkerChild, FiniteSetTheorems, SequenceTheorems, TLAPS

\* Where the listener holds a reservation that it has not used.
Reserved == {"peek", "swap", "lock", "poll", "enterPoll", "polling", "ready", "enterAccept",
             "accepting", "unlock", "push", "quit"}

\* Where a worker counts as idle, and where it does not.
IdlePlace == {"signal", "check", "pop", "wait", "unlocked"}

BusyPlace == {"unborn", "loop", "recycle", "idle", "popped", "serving", "load", "store"}

(***************************************************************************)
(* The inductive invariant.  IdleAccount alone is not inductive: that a    *)
(* reservation is taken from a positive count and is used once depends on  *)
(* where the listener is, that a worker is counted once on where it is.    *)
(***************************************************************************)
HoldsWhatItPasses ==
    /\ listener = "swap" => peeked # <<>>
    /\ listener \in {"enterAccept", "accepting", "unlock", "push"} => ptrans # None
    /\ listener = "push" => csd # None
    /\ \A w \in Worker : pc[w] = "recycle" => pool[w] # None

ReservationHeld ==
    /\ listener \in Reserved => have_idle_worker
    /\ listener \in {"unborn", "idlers", "block", "reserve"} => ~have_idle_worker
    /\ listener = "reserve" => idlers > 0
    /\ terminated => listener \in {"interrupt", "kill", "exited"}

WorkersCountOnce ==
    \A w \in Worker :
        /\ pc[w] \in IdlePlace => is_idle[w]
        /\ pc[w] \in BusyPlace => ~is_idle[w]
        /\ w \notin created => pc[w] = "unborn"

TypeInv == TypeOK /\ HoldsWhatItPasses

AccountInv == ReservationHeld /\ WorkersCountOnce /\ IdleAccount

-----------------------------------------------------------------------------
(* The steps of Next, by thread.                                            *)

StartStep == (\E w \in Worker : StartWorker(w)) \/ StartListener \/ StartEnd \/ StartFails

ListenerEvent == ListenerPolled \/ ListenerAccept \/ ListenerFails

MainEvent ==
    MainStep \/ (\E m \in {"GRACEFUL", "UNGRACEFUL"} : MainRead(m)) \/ StraySigterm

StrayStep == ListenerStray \/ \E w \in Worker : WorkerStray(w)

\* A step is a step of one of the threads, or changes nothing.
LEMMA StepCases ==
    ASSUME [Next]_vars
    PROVE  \/ StartStep \/ ListenerStep \/ ListenerEvent
           \/ \E w \in Worker : WorkerStep(w)
           \/ MainEvent \/ StrayStep \/ UNCHANGED vars
BY DEF Next, Exited, StartStep, ListenerEvent, MainEvent, StrayStep

-----------------------------------------------------------------------------
(* Types.                                                                   *)

\* What is popped from a sequence, and what is left.
LEMMA FrontFacts ==
    ASSUME NEW S, NEW q \in Seq(S), q # <<>>
    PROVE  /\ q[Len(q)] \in S
           /\ SubSeq(q, 1, Len(q) - 1) \in Seq(S)
           /\ Len(SubSeq(q, 1, Len(q) - 1)) = Len(q) - 1
<1> DEFINE n == Len(q) - 1
           r == SubSeq(q, 1, n)
<1>1. Len(q) \in Nat /\ Len(q) # 0
  OBVIOUS
<1>2. n \in Nat /\ \A i \in 1 .. n : q[i] \in S
  BY <1>1
<1>3. r \in Seq(S) /\ Len(r) = IF 1 <= n THEN n - 1 + 1 ELSE 0
  BY <1>2, SubSeqProperties
<1>4. Len(r) = n
  <2> HIDE DEF n, r
  <2> QED
    BY <1>2, <1>3
<1>5. q[Len(q)] \in S
  BY <1>1
<1> QED
  BY <1>3, <1>4, <1>5, Zenon

\* A step of the thread that starts the others keeps the flags Boolean.
LEMMA StartFlags ==
    ASSUME FlagsOK, StartStep
    PROVE  FlagsOK'
<1> USE DEF FlagsOK, fdVars, mainVars, startVars, listenerVars, workerVars, flagVars,
            otherVars
<1>1. CASE \E w \in Worker : StartWorker(w)
  BY <1>1, Zenon DEF StartWorker
<1>2. CASE StartListener
  BY <1>2, Zenon DEF StartListener
<1>3. CASE StartEnd
  BY <1>3, Zenon DEF StartEnd
<1>4. CASE StartFails
  BY <1>4, Zenon DEF StartFails
<1> QED
  BY <1>1, <1>2, <1>3, <1>4 DEF StartStep

\* A step of the listener keeps the flags Boolean.
LEMMA ListenerFlags ==
    ASSUME FlagsOK, ListenerStep
    PROVE  FlagsOK'
<1> USE DEF FlagsOK, fdVars, mainVars, startVars, listenerVars, workerVars, flagVars,
            otherVars
<1>1. CASE ListenerTop
  BY <1>1, Zenon DEF ListenerTop, SignalGraceful
<1>2. CASE ListenerIdlers
  BY <1>2, Zenon DEF ListenerIdlers
<1>3. CASE ListenerBlock
  BY <1>3, Zenon DEF ListenerBlock, BlockForIdler
<1>4. CASE ListenerReserve
  BY <1>4, Zenon DEF ListenerReserve, DecIdlers
<1>5. CASE ListenerPeekPool
  BY <1>5, Zenon DEF ListenerPeekPool, AfterWaitForIdler
<1>6. CASE ListenerSwapPool
  BY <1>6, Zenon DEF ListenerSwapPool, SwapPool, AfterWaitForIdler
<1>7. CASE ListenerLock
  BY <1>7, Zenon DEF ListenerLock
<1>8. CASE ListenerPoll
  BY <1>8, Zenon DEF ListenerPoll
<1>9. CASE ListenerReady
  BY <1>9, Zenon DEF ListenerReady
<1>10. CASE ListenerUnlock
  BY <1>10, Zenon DEF ListenerUnlock, AfterUnlock
<1>11. CASE ListenerPush
  BY <1>11, Zenon DEF ListenerPush, ap_queue_push, SignalNotEmpty
<1>12. CASE ListenerQuit
  BY <1>12, Zenon DEF ListenerQuit, SignalGraceful
<1>13. CASE ListenerTerm
  BY <1>13, Zenon DEF ListenerTerm, SetTerminated
<1>14. CASE ListenerInterrupt
  BY <1>14, Zenon DEF ListenerInterrupt, ap_queue_interrupt_all
<1>15. CASE ListenerKill
  BY <1>15, Zenon DEF ListenerKill, InterruptMain
<1>16. CASE ListenerEnterPoll
  BY <1>16, Zenon DEF ListenerEnterPoll
<1>17. CASE ListenerEnterAccept
  BY <1>17, Zenon DEF ListenerEnterAccept
<1> QED
  BY <1>1, <1>2, <1>3, <1>4, <1>5, <1>6, <1>7, <1>8, <1>9, <1>10, <1>11, <1>12, <1>13, <1>14,
     <1>15, <1>16, <1>17 DEF ListenerStep

\* A step of the listener on events from outside, failures included keeps the flags Boolean.
LEMMA EventFlags ==
    ASSUME FlagsOK, ListenerEvent
    PROVE  FlagsOK'
<1> USE DEF FlagsOK, fdVars, mainVars, startVars, listenerVars, workerVars, flagVars,
            otherVars
<1>1. CASE ListenerPolled
  BY <1>1, Zenon DEF ListenerPolled, SignalGraceful
<1>2. CASE ListenerAccept
  BY <1>2, Zenon DEF ListenerAccept
<1>3. CASE ListenerLockFails
  BY <1>3, Zenon DEF ListenerLockFails, SignalGraceful
<1>4. CASE ListenerAcceptFails
  BY <1>4, Zenon DEF ListenerAcceptFails, SignalGraceful
<1>5. CASE ListenerUnlockFails
  BY <1>5, Zenon DEF ListenerUnlockFails, SignalGraceful, AfterUnlock
<1> QED
  BY <1>1, <1>2, <1>3, <1>4, <1>5 DEF ListenerEvent, ListenerFails

\* A step of a worker keeps the flags Boolean.
LEMMA WorkerFlags ==
    ASSUME FlagsOK, NEW w \in Worker, WorkerStep(w)
    PROVE  FlagsOK'
<1> USE DEF FlagsOK, fdVars, mainVars, startVars, listenerVars, workerVars, flagVars,
            otherVars
<1>1. CASE WorkerLoop(w)
  BY <1>1, Zenon DEF WorkerLoop, Goto
<1>2. CASE WorkerRecycle(w)
  BY <1>2, Zenon DEF WorkerRecycle, Goto, RecyclePool
<1>3. CASE WorkerIdle(w)
  BY <1>3, Zenon DEF WorkerIdle, Goto, IncIdlers
<1>4. CASE WorkerSignal(w)
  BY <1>4, Zenon DEF WorkerSignal, Goto, SignalIdler
<1>5. CASE WorkerCheck(w)
  BY <1>5, Zenon DEF WorkerCheck, Goto
<1>6. CASE WorkerTake(w)
  BY <1>6, Zenon DEF WorkerTake, Goto, PopElem, Popped, ap_queue_empty
<1>7. CASE WorkerBlock(w)
  BY <1>7, Zenon DEF WorkerBlock, Goto, BlockForElem
<1>8. CASE WorkerFindsNothing(w)
  BY <1>8, Zenon DEF WorkerFindsNothing, Goto
<1>9. CASE WorkerPopStatus(w)
  BY <1>9, Zenon DEF WorkerPopStatus, Goto
<1>10. CASE WorkerRegister(w)
  BY <1>10, Zenon DEF WorkerRegister, Goto
<1>11. CASE WorkerServed(w)
  BY <1>11, Zenon DEF WorkerServed, Goto
<1>12. CASE WorkerLoad(w)
  BY <1>12, Zenon DEF WorkerLoad, Goto
<1>13. CASE WorkerStore(w)
  BY <1>13, Zenon DEF WorkerStore, Goto
<1> QED
  BY <1>1, <1>2, <1>3, <1>4, <1>5, <1>6, <1>7, <1>8, <1>9, <1>10, <1>11, <1>12, <1>13
     DEF WorkerStep

\* A step of the main thread keeps the flags Boolean.
LEMMA MainFlags ==
    ASSUME FlagsOK, MainEvent
    PROVE  FlagsOK'
<1> USE DEF FlagsOK, fdVars, mainVars, startVars, listenerVars, workerVars, flagVars,
            otherVars
<1>1. CASE MainBlock
  BY <1>1, Zenon DEF MainBlock
<1>2. CASE \E m \in {"GRACEFUL", "UNGRACEFUL"} : MainRead(m)
  BY <1>2, Zenon DEF MainRead, JoinStartThread
<1>3. CASE MainInterrupted
  BY <1>3, Zenon DEF MainInterrupted, JoinStartThread
<1>4. CASE MainSignalThreads
  BY <1>4, Zenon DEF MainSignalThreads, WakeupListener
<1>5. CASE MainWorkersMayExit
  BY <1>5, Zenon DEF MainWorkersMayExit
<1>6. CASE MainInterruptAll
  BY <1>6, Zenon DEF MainInterruptAll, ap_queue_interrupt_all
<1>7. CASE MainInfoTerm
  BY <1>7, Zenon DEF MainInfoTerm, ap_queue_info_term
<1>8. CASE close_worker_sockets
  BY <1>8, Zenon DEF close_worker_sockets
<1>9. CASE MainWakeListener
  BY <1>9, Zenon DEF MainWakeListener, WakeupListener
<1>10. CASE MainJoinListener
  BY <1>10, Zenon DEF MainJoinListener
<1>11. CASE MainExit
  BY <1>11, Zenon DEF MainExit
<1>12. CASE StraySigterm
  BY <1>12, Zenon DEF StraySigterm, InterruptMain
<1> QED
  BY <1>1, <1>2, <1>3, <1>4, <1>5, <1>6, <1>7, <1>8, <1>9, <1>10, <1>11, <1>12
     DEF MainEvent, MainStep

\* A step of the thread that starts the others keeps the types.
LEMMA StartTypes ==
    ASSUME TypeInv, FlagsOK', StartStep
    PROVE  TypeInv'
<1> USE ChildAssumption DEF TypeInv, TypeOK, HoldsWhatItPasses, Modes, fdVars, mainVars,
            startVars, listenerVars, workerVars, flagVars,
            otherVars
<1>1. CASE \E w \in Worker : StartWorker(w)
  BY <1>1 DEF StartWorker
<1>2. CASE StartListener
  BY <1>2 DEF StartListener
<1>3. CASE StartEnd
  BY <1>3 DEF StartEnd
<1>4. CASE StartFails
  BY <1>4 DEF StartFails
<1> QED
  BY <1>1, <1>2, <1>3, <1>4 DEF StartStep

\* A step of the listener keeps the types.
LEMMA ListenerTypes ==
    ASSUME TypeInv, FlagsOK', ListenerStep
    PROVE  TypeInv'
<1> USE ChildAssumption DEF TypeInv, TypeOK, HoldsWhatItPasses, Modes, fdVars, mainVars,
            startVars, listenerVars, workerVars, flagVars,
            otherVars
<1>1. CASE ListenerTop
  BY <1>1 DEF ListenerTop, SignalGraceful
<1>2. CASE ListenerIdlers
  BY <1>2 DEF ListenerIdlers
<1>3. CASE ListenerBlock
  BY <1>3 DEF ListenerBlock, BlockForIdler
<1>4. CASE ListenerReserve
  BY <1>4 DEF ListenerReserve, DecIdlers
<1>5. CASE ListenerPeekPool
  BY <1>5 DEF ListenerPeekPool, AfterWaitForIdler
<1>6. CASE ListenerSwapPool
  <2>1. Head(peeked) \in Pool /\ Tail(peeked) \in Seq(Pool)
    BY <1>6 DEF ListenerSwapPool
  <2>2. ptrans' \in Pool \cup {None} /\ recycled' \in Seq(Pool)
    <3>1. CASE Head(recycled) = Head(peeked)
      BY <1>6, <2>1, <3>1 DEF ListenerSwapPool, SwapPool
    <3>2. CASE Head(recycled) # Head(peeked)
      BY <1>6, <3>2 DEF ListenerSwapPool
    <3> QED
      BY <3>1, <3>2
  <2>3. peeked' \in Seq(Pool)
    BY <1>6 DEF ListenerSwapPool
  <2> QED
    BY <1>6, <2>2, <2>3 DEF ListenerSwapPool, AfterWaitForIdler
<1>7. CASE ListenerLock
  BY <1>7 DEF ListenerLock
<1>8. CASE ListenerPoll
  BY <1>8 DEF ListenerPoll
<1>9. CASE ListenerReady
  BY <1>9 DEF ListenerReady
<1>10. CASE ListenerUnlock
  BY <1>10 DEF ListenerUnlock, AfterUnlock
<1>11. CASE ListenerPush
  BY <1>11 DEF ListenerPush, ap_queue_push, SignalNotEmpty
<1>12. CASE ListenerQuit
  BY <1>12 DEF ListenerQuit, SignalGraceful
<1>13. CASE ListenerTerm
  BY <1>13 DEF ListenerTerm, SetTerminated
<1>14. CASE ListenerInterrupt
  BY <1>14 DEF ListenerInterrupt, ap_queue_interrupt_all
<1>15. CASE ListenerKill
  BY <1>15 DEF ListenerKill, InterruptMain
<1>16. CASE ListenerEnterPoll
  BY <1>16 DEF ListenerEnterPoll
<1>17. CASE ListenerEnterAccept
  BY <1>17 DEF ListenerEnterAccept
<1> QED
  BY <1>1, <1>2, <1>3, <1>4, <1>5, <1>6, <1>7, <1>8, <1>9, <1>10, <1>11, <1>12, <1>13, <1>14,
     <1>15, <1>16, <1>17 DEF ListenerStep

\* A step of the listener on events from outside, failures included keeps the types.
LEMMA EventTypes ==
    ASSUME TypeInv, FlagsOK', ListenerEvent
    PROVE  TypeInv'
<1> USE ChildAssumption DEF TypeInv, TypeOK, HoldsWhatItPasses, Modes, fdVars, mainVars,
            startVars, listenerVars, workerVars, flagVars,
            otherVars
<1>1. CASE ListenerPolled
  BY <1>1 DEF ListenerPolled, SignalGraceful
<1>2. CASE ListenerAccept
  BY <1>2 DEF ListenerAccept
<1>3. CASE ListenerLockFails
  BY <1>3 DEF ListenerLockFails, SignalGraceful
<1>4. CASE ListenerAcceptFails
  BY <1>4 DEF ListenerAcceptFails, SignalGraceful
<1>5. CASE ListenerUnlockFails
  <2>1. outcome' \in [Conn -> {"new", "accepted", "served", "killed", "dropped"}]
    BY <1>5 DEF ListenerUnlockFails
  <2>2. terminate_mode' \in Modes
    BY <1>5 DEF ListenerUnlockFails, SignalGraceful
  <2> QED
    BY <1>5, <2>1, <2>2 DEF ListenerUnlockFails, AfterUnlock
<1> QED
  BY <1>1, <1>2, <1>3, <1>4, <1>5 DEF ListenerEvent, ListenerFails

\* A step of a worker keeps the types.
LEMMA WorkerTypes ==
    ASSUME TypeInv, FlagsOK', NEW w \in Worker, WorkerStep(w)
    PROVE  TypeInv'
<1> USE ChildAssumption DEF TypeInv, TypeOK, HoldsWhatItPasses, Modes, fdVars, mainVars,
            startVars, listenerVars, workerVars, flagVars,
            otherVars
<1>1. CASE WorkerLoop(w)
  BY <1>1 DEF WorkerLoop, Goto
<1>2. CASE WorkerRecycle(w)
  BY <1>2 DEF WorkerRecycle, Goto, RecyclePool
<1>3. CASE WorkerIdle(w)
  BY <1>3 DEF WorkerIdle, Goto, IncIdlers
<1>4. CASE WorkerSignal(w)
  BY <1>4 DEF WorkerSignal, Goto, SignalIdler
<1>5. CASE WorkerCheck(w)
  BY <1>5 DEF WorkerCheck, Goto
<1>6. CASE WorkerTake(w)
  <2>1. Popped \in [sd : Conn, p : Pool] /\ queue' \in Seq([sd : Conn, p : Pool])
    BY <1>6, FrontFacts DEF WorkerTake, PopElem, Popped, ap_queue_empty
  <2>2. sd' \in [Worker -> Conn \cup {None}] /\ pool' \in [Worker -> Pool \cup {None}]
    BY <1>6, <2>1 DEF WorkerTake
  <2>3. is_idle' \in [Worker -> BOOLEAN]
    BY <1>6 DEF WorkerTake
  <2>4. \A v \in Worker : pc'[v] = "recycle" => pool'[v] # None
    BY <1>6, <2>1 DEF WorkerTake, Goto
  <2> QED
    BY <1>6, <2>1, <2>2, <2>3, <2>4 DEF WorkerTake, Goto
<1>7. CASE WorkerBlock(w)
  BY <1>7 DEF WorkerBlock, Goto, BlockForElem
<1>8. CASE WorkerFindsNothing(w)
  BY <1>8 DEF WorkerFindsNothing, Goto
<1>9. CASE WorkerPopStatus(w)
  BY <1>9 DEF WorkerPopStatus, Goto
<1>10. CASE WorkerRegister(w)
  BY <1>10 DEF WorkerRegister, Goto
<1>11. CASE WorkerServed(w)
  <2>1. outcome' \in [Conn -> {"new", "accepted", "served", "killed", "dropped"}]
    BY <1>11 DEF WorkerServed
  <2> QED
    BY <1>11, <2>1 DEF WorkerServed, Goto
<1>12. CASE WorkerLoad(w)
  BY <1>12 DEF WorkerLoad, Goto
<1>13. CASE WorkerStore(w)
  BY <1>13 DEF WorkerStore, Goto
<1> QED
  BY <1>1, <1>2, <1>3, <1>4, <1>5, <1>6, <1>7, <1>8, <1>9, <1>10, <1>11, <1>12, <1>13
     DEF WorkerStep

\* A step of the main thread keeps the types.
LEMMA MainTypes ==
    ASSUME TypeInv, FlagsOK', MainEvent
    PROVE  TypeInv'
<1> USE ChildAssumption DEF TypeInv, TypeOK, HoldsWhatItPasses, Modes, fdVars, mainVars,
            startVars, listenerVars, workerVars, flagVars,
            otherVars
<1>1. CASE MainBlock
  BY <1>1 DEF MainBlock
<1>2. CASE \E m \in {"GRACEFUL", "UNGRACEFUL"} : MainRead(m)
  BY <1>2 DEF MainRead, JoinStartThread
<1>3. CASE MainInterrupted
  BY <1>3 DEF MainInterrupted, JoinStartThread
<1>4. CASE MainSignalThreads
  BY <1>4 DEF MainSignalThreads, WakeupListener
<1>5. CASE MainWorkersMayExit
  BY <1>5 DEF MainWorkersMayExit
<1>6. CASE MainInterruptAll
  BY <1>6 DEF MainInterruptAll, ap_queue_interrupt_all
<1>7. CASE MainInfoTerm
  BY <1>7 DEF MainInfoTerm, ap_queue_info_term
<1>8. CASE close_worker_sockets
  BY <1>8 DEF close_worker_sockets
<1>9. CASE MainWakeListener
  BY <1>9 DEF MainWakeListener, WakeupListener
<1>10. CASE MainJoinListener
  BY <1>10 DEF MainJoinListener
<1>11. CASE MainExit
  BY <1>11 DEF MainExit
<1>12. CASE StraySigterm
  BY <1>12 DEF StraySigterm, InterruptMain
<1> QED
  BY <1>1, <1>2, <1>3, <1>4, <1>5, <1>6, <1>7, <1>8, <1>9, <1>10, <1>11, <1>12
     DEF MainEvent, MainStep

\* A spurious wakeup changes only who waits.
LEMMA StrayChanges ==
    ASSUME StrayStep
    PROVE  /\ UNCHANGED <<queue, terminated, idlers, infoTerminated, recycled>>
           /\ UNCHANGED <<mainVars, startVars, listenerVars, workerVars, flagVars>>
           /\ UNCHANGED <<requests_this_child, outcome, overlooked, exit>>
BY DEF StrayStep, ListenerStray, WorkerStray, otherVars

\* A spurious wakeup keeps the types.
LEMMA StrayTypes ==
    ASSUME TypeInv, StrayStep
    PROVE  TypeInv'
<1> USE DEF mainVars, startVars, listenerVars, workerVars, flagVars
<1>1. notEmpty' \subseteq Worker /\ stray' \subseteq Worker
  BY DEF StrayStep, ListenerStray, WorkerStray, StrayNotEmpty, otherVars, TypeInv, TypeOK
<1>2. idlerWait' \in BOOLEAN
  BY Zenon DEF StrayStep, ListenerStray, StrayIdler, WorkerStray, TypeInv, TypeOK, FlagsOK
<1>3. FlagsOK'
  BY <1>2, StrayChanges, Zenon DEF FlagsOK, TypeInv, TypeOK
<1>4. HoldsWhatItPasses'
  BY StrayChanges DEF HoldsWhatItPasses, TypeInv
<1> QED
  BY <1>1, <1>3, <1>4, StrayChanges DEF TypeInv, TypeOK, Modes

-----------------------------------------------------------------------------
(* The account of idle workers.                                             *)

\* A step of the thread that starts the others keeps reservations and idle workers where
\* they belong.
LEMMA StartReserves ==
    ASSUME TypeInv, ReservationHeld, WorkersCountOnce, StartStep
    PROVE  ReservationHeld' /\ WorkersCountOnce'
<1> USE DEF TypeInv, TypeOK, FlagsOK, ReservationHeld, WorkersCountOnce, Reserved, IdlePlace,
            BusyPlace, fdVars, mainVars, startVars, listenerVars, workerVars, flagVars,
            otherVars
<1>1. CASE \E w \in Worker : StartWorker(w)
  BY <1>1 DEF StartWorker
<1>2. CASE StartListener
  BY <1>2 DEF StartListener
<1>3. CASE StartEnd
  BY <1>3 DEF StartEnd
<1>4. CASE StartFails
  BY <1>4 DEF StartFails
<1> QED
  BY <1>1, <1>2, <1>3, <1>4 DEF StartStep

\* A step of the listener keeps reservations and idle workers where they belong.
LEMMA ListenerReserves ==
    ASSUME TypeInv, ReservationHeld, WorkersCountOnce, ListenerStep
    PROVE  ReservationHeld' /\ WorkersCountOnce'
<1> USE DEF TypeInv, TypeOK, FlagsOK, ReservationHeld, WorkersCountOnce, Reserved, IdlePlace,
            BusyPlace, fdVars, mainVars, startVars, listenerVars, workerVars, flagVars,
            otherVars
<1>1. CASE ListenerTop
  BY <1>1 DEF ListenerTop, SignalGraceful
<1>2. CASE ListenerIdlers
  BY <1>2 DEF ListenerIdlers
<1>3. CASE ListenerBlock
  BY <1>3 DEF ListenerBlock, BlockForIdler
<1>4. CASE ListenerReserve
  BY <1>4 DEF ListenerReserve, DecIdlers
<1>5. CASE ListenerPeekPool
  BY <1>5 DEF ListenerPeekPool, AfterWaitForIdler
<1>6. CASE ListenerSwapPool
  BY <1>6 DEF ListenerSwapPool, SwapPool, AfterWaitForIdler
<1>7. CASE ListenerLock
  BY <1>7 DEF ListenerLock
<1>8. CASE ListenerPoll
  BY <1>8 DEF ListenerPoll
<1>9. CASE ListenerReady
  BY <1>9 DEF ListenerReady
<1>10. CASE ListenerUnlock
  BY <1>10 DEF ListenerUnlock, AfterUnlock
<1>11. CASE ListenerPush
  BY <1>11 DEF ListenerPush, ap_queue_push, SignalNotEmpty
<1>12. CASE ListenerQuit
  BY <1>12 DEF ListenerQuit, SignalGraceful
<1>13. CASE ListenerTerm
  BY <1>13 DEF ListenerTerm, SetTerminated
<1>14. CASE ListenerInterrupt
  BY <1>14 DEF ListenerInterrupt, ap_queue_interrupt_all
<1>15. CASE ListenerKill
  BY <1>15 DEF ListenerKill, InterruptMain
<1>16. CASE ListenerEnterPoll
  BY <1>16 DEF ListenerEnterPoll
<1>17. CASE ListenerEnterAccept
  BY <1>17 DEF ListenerEnterAccept
<1> QED
  BY <1>1, <1>2, <1>3, <1>4, <1>5, <1>6, <1>7, <1>8, <1>9, <1>10, <1>11, <1>12, <1>13, <1>14,
     <1>15, <1>16, <1>17 DEF ListenerStep

\* A step of the listener on events from outside, failures included keeps reservations and
\* idle workers where they belong.
LEMMA EventReserves ==
    ASSUME TypeInv, ReservationHeld, WorkersCountOnce, ListenerEvent
    PROVE  ReservationHeld' /\ WorkersCountOnce'
<1> USE DEF TypeInv, TypeOK, FlagsOK, ReservationHeld, WorkersCountOnce, Reserved, IdlePlace,
            BusyPlace, fdVars, mainVars, startVars, listenerVars, workerVars, flagVars,
            otherVars
<1>1. CASE ListenerPolled
  BY <1>1 DEF ListenerPolled, SignalGraceful
<1>2. CASE ListenerAccept
  BY <1>2 DEF ListenerAccept
<1>3. CASE ListenerLockFails
  BY <1>3 DEF ListenerLockFails, SignalGraceful
<1>4. CASE ListenerAcceptFails
  BY <1>4 DEF ListenerAcceptFails, SignalGraceful
<1>5. CASE ListenerUnlockFails
  BY <1>5 DEF ListenerUnlockFails, SignalGraceful, AfterUnlock
<1> QED
  BY <1>1, <1>2, <1>3, <1>4, <1>5 DEF ListenerEvent, ListenerFails

\* A step of a worker keeps reservations and idle workers where they belong.
LEMMA WorkerReserves ==
    ASSUME TypeInv, ReservationHeld, WorkersCountOnce, NEW w \in Worker, WorkerStep(w)
    PROVE  ReservationHeld' /\ WorkersCountOnce'
<1> USE DEF TypeInv, TypeOK, FlagsOK, ReservationHeld, WorkersCountOnce, Reserved, IdlePlace,
            BusyPlace, fdVars, mainVars, startVars, listenerVars, workerVars, flagVars,
            otherVars
<1>1. CASE WorkerLoop(w)
  BY <1>1 DEF WorkerLoop, Goto
<1>2. CASE WorkerRecycle(w)
  BY <1>2 DEF WorkerRecycle, Goto, RecyclePool
<1>3. CASE WorkerIdle(w)
  BY <1>3 DEF WorkerIdle, Goto, IncIdlers
<1>4. CASE WorkerSignal(w)
  BY <1>4 DEF WorkerSignal, Goto, SignalIdler
<1>5. CASE WorkerCheck(w)
  BY <1>5 DEF WorkerCheck, Goto
<1>6. CASE WorkerTake(w)
  BY <1>6 DEF WorkerTake, Goto, PopElem, Popped, ap_queue_empty
<1>7. CASE WorkerBlock(w)
  BY <1>7 DEF WorkerBlock, Goto, BlockForElem
<1>8. CASE WorkerFindsNothing(w)
  BY <1>8 DEF WorkerFindsNothing, Goto
<1>9. CASE WorkerPopStatus(w)
  BY <1>9 DEF WorkerPopStatus, Goto
<1>10. CASE WorkerRegister(w)
  BY <1>10 DEF WorkerRegister, Goto
<1>11. CASE WorkerServed(w)
  BY <1>11 DEF WorkerServed, Goto
<1>12. CASE WorkerLoad(w)
  BY <1>12 DEF WorkerLoad, Goto
<1>13. CASE WorkerStore(w)
  BY <1>13 DEF WorkerStore, Goto
<1> QED
  BY <1>1, <1>2, <1>3, <1>4, <1>5, <1>6, <1>7, <1>8, <1>9, <1>10, <1>11, <1>12, <1>13
     DEF WorkerStep

\* A step of the main thread keeps reservations and idle workers where they belong.
LEMMA MainReserves ==
    ASSUME TypeInv, ReservationHeld, WorkersCountOnce, MainEvent
    PROVE  ReservationHeld' /\ WorkersCountOnce'
<1> USE DEF TypeInv, TypeOK, FlagsOK, ReservationHeld, WorkersCountOnce, Reserved, IdlePlace,
            BusyPlace, fdVars, mainVars, startVars, listenerVars, workerVars, flagVars,
            otherVars
<1>1. CASE MainBlock
  BY <1>1 DEF MainBlock
<1>2. CASE \E m \in {"GRACEFUL", "UNGRACEFUL"} : MainRead(m)
  BY <1>2 DEF MainRead, JoinStartThread
<1>3. CASE MainInterrupted
  BY <1>3 DEF MainInterrupted, JoinStartThread
<1>4. CASE MainSignalThreads
  BY <1>4 DEF MainSignalThreads, WakeupListener
<1>5. CASE MainWorkersMayExit
  BY <1>5 DEF MainWorkersMayExit
<1>6. CASE MainInterruptAll
  BY <1>6 DEF MainInterruptAll, ap_queue_interrupt_all
<1>7. CASE MainInfoTerm
  BY <1>7 DEF MainInfoTerm, ap_queue_info_term
<1>8. CASE close_worker_sockets
  BY <1>8 DEF close_worker_sockets
<1>9. CASE MainWakeListener
  BY <1>9 DEF MainWakeListener, WakeupListener
<1>10. CASE MainJoinListener
  BY <1>10 DEF MainJoinListener
<1>11. CASE MainExit
  BY <1>11 DEF MainExit
<1>12. CASE StraySigterm
  BY <1>12 DEF StraySigterm, InterruptMain
<1> QED
  BY <1>1, <1>2, <1>3, <1>4, <1>5, <1>6, <1>7, <1>8, <1>9, <1>10, <1>11, <1>12
     DEF MainEvent, MainStep

\* A spurious wakeup keeps reservations and idle workers where they are.
LEMMA StrayReserves ==
    ASSUME ReservationHeld, WorkersCountOnce, StrayStep
    PROVE  ReservationHeld' /\ WorkersCountOnce'
BY StrayChanges DEF ReservationHeld, WorkersCountOnce, startVars, listenerVars, workerVars

Idle == {w \in Worker : is_idle[w]}

accountVars == <<idlers, queue, have_idle_worker, is_idle>>

\* The account depends on nothing else.
LEMMA AccountUnchanged ==
    ASSUME IdleAccount, UNCHANGED accountVars
    PROVE  IdleAccount'
BY DEF IdleAccount, accountVars

\* The workers counted are finitely many, and no more than there are.
LEMMA IdleIsFinite ==
    IsFiniteSet(Idle) /\ Cardinality(Idle) \in Nat /\ Cardinality(Idle) <= Cardinality(Worker)
BY ChildAssumption, FS_Subset, FS_CardinalityType DEF Idle

\* Going idle adds a worker to both sides of the account.
LEMMA IdleAdds ==
    ASSUME TypeInv, WorkersCountOnce, IdleAccount, NEW w \in Worker, WorkerIdle(w)
    PROVE  IdleAccount'
<1>1. w \notin Idle
  BY DEF WorkerIdle, WorkersCountOnce, BusyPlace, Idle
<1>2. Idle' = Idle \cup {w}
  BY DEF WorkerIdle, Idle, TypeInv, TypeOK
<1>3. Cardinality(Idle') = Cardinality(Idle) + 1
  BY <1>1, <1>2, IdleIsFinite, FS_AddElement
<1>4. idlers' = idlers + 1 /\ UNCHANGED <<have_idle_worker, queue>>
  BY DEF WorkerIdle, IncIdlers, listenerVars
<1>5. idlers \in Nat /\ Len(queue) \in Nat
  BY DEF TypeInv, TypeOK
<1> QED
  BY <1>3, <1>4, <1>5, IdleIsFinite DEF IdleAccount, Idle

\* Taking an element removes a worker from both sides.
LEMMA TakeRemoves ==
    ASSUME TypeInv, WorkersCountOnce, IdleAccount, NEW w \in Worker, WorkerTake(w)
    PROVE  IdleAccount'
<1>1. w \in Idle
  BY DEF WorkerTake, WorkersCountOnce, IdlePlace, Idle
<1>2. Idle' = Idle \ {w}
  BY DEF WorkerTake, Idle, TypeInv, TypeOK
<1>3. Cardinality(Idle') = Cardinality(Idle) - 1
  BY <1>1, <1>2, IdleIsFinite, FS_RemoveElement
<1>4. Len(queue') = Len(queue) - 1 /\ UNCHANGED <<idlers, have_idle_worker>>
  BY FrontFacts DEF WorkerTake, PopElem, ap_queue_empty, listenerVars, TypeInv, TypeOK
<1>5. idlers \in Nat /\ Len(queue) \in Nat
  BY DEF TypeInv, TypeOK
<1> QED
  BY <1>3, <1>4, <1>5, IdleIsFinite DEF IdleAccount, Idle

\* A reservation is taken from the count.
LEMMA ReserveMoves ==
    ASSUME TypeInv, ReservationHeld, IdleAccount, ListenerReserve
    PROVE  IdleAccount'
<1>1. idlers \in Nat /\ idlers > 0 /\ ~have_idle_worker
  BY DEF ListenerReserve, ReservationHeld, TypeInv, TypeOK
<1>2. idlers' = idlers - 1 /\ have_idle_worker'
  BY <1>1 DEF ListenerReserve, DecIdlers
<1>3. UNCHANGED <<queue, is_idle>>
  BY DEF ListenerReserve, workerVars
<1>4. Len(queue) \in Nat
  BY DEF TypeInv, TypeOK
<1> QED
  BY <1>1, <1>2, <1>3, <1>4 DEF IdleAccount

\* A push turns the reservation into an element.
LEMMA PushMoves ==
    ASSUME TypeInv, ReservationHeld, IdleAccount, ListenerPush
    PROVE  IdleAccount'
<1>1. have_idle_worker /\ ~have_idle_worker'
  BY DEF ListenerPush, ReservationHeld, Reserved
<1>2. queue \in Seq([sd : Conn, p : Pool]) /\ idlers \in Nat
  BY DEF TypeInv, TypeOK
<1>3. queue' = Append(queue, [sd |-> csd, p |-> ptrans])
  BY DEF ListenerPush, ap_queue_push
<1>4. Len(queue') = Len(queue) + 1 /\ Len(queue) \in Nat
  BY <1>2, <1>3
<1>5. UNCHANGED <<idlers, is_idle>>
  BY DEF ListenerPush, workerVars
<1> QED
  BY <1>1, <1>2, <1>4, <1>5 DEF IdleAccount

\* No other step touches what is counted.
LEMMA AccountStep ==
    ASSUME TypeInv, ReservationHeld, WorkersCountOnce, IdleAccount, [Next]_vars
    PROVE  IdleAccount'
<1> USE DEF accountVars, fdVars, listenerVars, workerVars
<1>1. ASSUME StartStep
      PROVE  UNCHANGED accountVars
  BY <1>1 DEF StartStep, StartWorker, StartListener, StartEnd, StartFails
<1>2. CASE ListenerStep
  <2>1. CASE ListenerReserve
    BY <2>1, ReserveMoves
  <2>2. CASE ListenerPush
    BY <2>2, PushMoves
  <2>3. ASSUME ~ListenerReserve, ~ListenerPush
        PROVE  UNCHANGED accountVars
    BY <1>2, <2>3 DEF ListenerStep, ListenerTop, ListenerIdlers, ListenerBlock,
       ListenerPeekPool, ListenerSwapPool, ListenerLock, ListenerPoll, ListenerEnterPoll,
       ListenerReady, ListenerEnterAccept, ListenerUnlock, ListenerQuit, ListenerTerm,
       ListenerInterrupt, ListenerKill
  <2> QED
    BY <2>1, <2>2, <2>3, AccountUnchanged
<1>3. ASSUME ListenerEvent
      PROVE  UNCHANGED accountVars
  BY <1>3 DEF ListenerEvent, ListenerFails, ListenerPolled, ListenerAccept,
     ListenerLockFails, ListenerAcceptFails, ListenerUnlockFails
<1>4. ASSUME NEW w \in Worker, WorkerStep(w)
      PROVE  IdleAccount'
  <2>1. CASE WorkerIdle(w)
    BY <2>1, IdleAdds
  <2>2. CASE WorkerTake(w)
    BY <2>2, TakeRemoves
  <2>3. ASSUME ~WorkerIdle(w), ~WorkerTake(w)
        PROVE  UNCHANGED accountVars
    BY <1>4, <2>3 DEF WorkerStep, WorkerLoop, WorkerRecycle, WorkerSignal, WorkerCheck,
       WorkerBlock, WorkerFindsNothing, WorkerPopStatus, WorkerRegister, WorkerServed,
       WorkerLoad, WorkerStore
  <2> QED
    BY <2>1, <2>2, <2>3, AccountUnchanged
<1>5. ASSUME MainEvent
      PROVE  UNCHANGED accountVars
  BY <1>5 DEF MainEvent, MainStep, WakeupListener, MainBlock, MainRead, MainInterrupted,
     MainSignalThreads, MainWorkersMayExit, MainInterruptAll, MainInfoTerm,
     close_worker_sockets, MainWakeListener, MainJoinListener, MainExit, StraySigterm
<1>6. StrayStep \/ UNCHANGED vars => UNCHANGED accountVars
  BY StrayChanges DEF vars
<1> QED
  BY <1>1, <1>2, <1>3, <1>4, <1>5, <1>6, AccountUnchanged, StepCases

-----------------------------------------------------------------------------
(* The theorems.                                                            *)

\* Both invariants are inductive.
LEMMA InvInductive ==
    /\ Init => TypeInv /\ AccountInv
    /\ TypeInv /\ AccountInv /\ [Next]_vars => TypeInv' /\ AccountInv'
<1>1. ASSUME Init PROVE TypeInv /\ AccountInv
  <2> USE <1>1 DEF Init, FdInit
  <2>1. TypeInv
    <3>1. FlagsOK
      BY Zenon DEF FlagsOK
    <3>2. /\ queue \in Seq([sd : Conn, p : Pool])
          /\ recycled \in Seq(Pool) /\ peeked \in Seq(Pool)
      OBVIOUS
    <3>3. is_idle \in [Worker -> BOOLEAN]
      BY Zenon
    <3>4. overlooked \in BOOLEAN
      BY Zenon
    <3> QED
      BY <3>1, <3>2, <3>3, <3>4, ChildAssumption DEF TypeInv, TypeOK, HoldsWhatItPasses, Modes
  <2>2. ReservationHeld /\ WorkersCountOnce
    BY DEF ReservationHeld, WorkersCountOnce, Reserved, IdlePlace, BusyPlace
  <2>3. {w \in Worker : is_idle[w]} = {}
    OBVIOUS
  <2>4. IdleAccount
    <3>1. Cardinality({w \in Worker : is_idle[w]}) = 0
      BY ONLY <2>3, FS_EmptySet
    <3>2. /\ Len(queue) = 0
          /\ idlers = 0
      OBVIOUS
    <3>3. ~ have_idle_worker
      BY Zenon
    <3> QED
      BY ONLY <3>1, <3>2, <3>3 DEF IdleAccount
  <2> QED
    BY <2>1, <2>2, <2>4 DEF AccountInv
<1>2. ASSUME TypeInv, AccountInv, [Next]_vars PROVE TypeInv' /\ AccountInv'
  <2> USE <1>2 DEF AccountInv
  <2>1. FlagsOK
    BY DEF TypeInv, TypeOK
  <2>2. CASE UNCHANGED vars
    <3> USE <2>2 DEF vars, fdVars, mainVars, startVars, listenerVars, workerVars, flagVars, otherVars
    <3>1. TypeInv'
      BY DEF TypeInv, TypeOK, FlagsOK, HoldsWhatItPasses, Modes
    <3>2. ReservationHeld' /\ WorkersCountOnce'
      BY DEF ReservationHeld, WorkersCountOnce
    <3> QED
      BY <3>1, <3>2, AccountStep
  <2>3. FlagsOK' \/ UNCHANGED vars
    <3>1. StrayStep => FlagsOK'
      BY StrayTypes DEF TypeInv, TypeOK
    <3> QED
      BY <2>1, <3>1, StepCases, StartFlags, ListenerFlags, EventFlags, WorkerFlags, MainFlags
  <2>4. CASE FlagsOK'
    <3>1. TypeInv' \/ UNCHANGED vars
      BY <2>4, StepCases, StartTypes, ListenerTypes, EventTypes, WorkerTypes, MainTypes,
         StrayTypes
    <3>2. (ReservationHeld' /\ WorkersCountOnce') \/ UNCHANGED vars
      BY StepCases, StartReserves, ListenerReserves, EventReserves, WorkerReserves,
         MainReserves, StrayReserves
    <3> QED
      BY <2>2, <3>1, <3>2, AccountStep
  <2> QED
    BY <2>2, <2>3, <2>4
<1> QED
  BY <1>1, <1>2

(***************************************************************************)
(* Every variable of the child keeps its type; in particular a socket and  *)
(* its pool are both there whenever the listener pushes them.              *)
(***************************************************************************)
THEOREM TypeCorrect == Spec => []TypeOK
<1>1. TypeInv => TypeOK
  BY DEF TypeInv
<1> QED
  BY <1>1, InvInductive, PTL DEF Spec

(***************************************************************************)
(* The account of fdqueue.c is exact at every step: as many workers wait   *)
(* for a socket as are counted, reserved, or owed an element.              *)
(***************************************************************************)
THEOREM AccountIsExact == Spec => []IdleAccount
<1>1. AccountInv => IdleAccount
  BY DEF AccountInv
<1> QED
  BY <1>1, InvInductive, PTL DEF Spec

(***************************************************************************)
(* ap_queue_push, which does not test for room, never runs over the end of *)
(* data: the assertions of its debug build hold for any ThreadsPerChild.   *)
(***************************************************************************)
THEOREM PushAlwaysSafe == Spec => []PushIsSafe
<1>1. TypeInv /\ AccountInv => PushIsSafe
  <2> SUFFICES ASSUME TypeInv, AccountInv, listener = "push"
               PROVE  ~terminated /\ ~ap_queue_full
    BY DEF PushIsSafe
  <2>1. have_idle_worker /\ ~terminated
    BY DEF AccountInv, ReservationHeld, Reserved
  <2>2. idlers \in Nat /\ Len(queue) \in Nat
    BY DEF TypeInv, TypeOK
  <2>3. idlers + 1 + Len(queue) = Cardinality(Idle)
    BY <2>1, <2>2 DEF AccountInv, IdleAccount, Idle
  <2>4. Cardinality(Worker) \in Nat
    BY ChildAssumption, FS_CardinalityType
  <2>5. Len(queue) # Cardinality(Worker)
    BY <2>2, <2>3, <2>4, IdleIsFinite
  <2> QED
    BY <2>1, <2>5 DEF ap_queue_full, bounds
<1> QED
  BY <1>1, InvInductive, PTL DEF Spec

-------------------------------------------------------------------------------
\* Sockets, pools and the promise of the child: a second inductive invariant,
\* on top of the first.

\* Where the listener can have a socket: still to be pushed, or never to be.
Passing == {"unlock", "push"}

Leaving == {"term", "interrupt", "kill", "exited"}

\* Who holds a socket depends on where it is.
HeldWhere ==
    /\ \A w \in Worker : sd[w] # None <=> pc[w] \in {"popped", "serving"}
    /\ \A w \in Worker : worker_sockets[w] \in {None, sd[w]}
    /\ csd # None => listener \in Passing \cup Leaving

\* What is held is not finished, and what is not finished is held.
HeldAsTold ==
    /\ \A w \in Worker : sd[w] # None => outcome[sd[w]] \in {"accepted", "killed"}
    /\ \A i \in DOMAIN queue : outcome[queue[i].sd] = "accepted"
    /\ csd # None => outcome[csd] = IF listener \in Passing THEN "accepted" ELSE "dropped"
    /\ \A c \in Conn : outcome[c] \in {"accepted", "dropped"} =>
          \/ csd = c
          \/ \E w \in Worker : sd[w] = c
          \/ \E i \in DOMAIN queue : queue[i].sd = c

\* No socket is held twice.
HeldOnce ==
    /\ \A v, w \in Worker : sd[v] = sd[w] /\ sd[v] # None => v = w
    /\ \A i, j \in DOMAIN queue : queue[i].sd = queue[j].sd => i = j
    /\ \A w \in Worker : \A i \in DOMAIN queue : queue[i].sd # sd[w]
    /\ csd # None => /\ \A w \in Worker : sd[w] # csd
                     /\ \A i \in DOMAIN queue : queue[i].sd # csd

SocketInv == HeldWhere /\ HeldAsTold /\ HeldOnce

\* Where a worker has no pool, and where the listener has none.
PoolHeldWhere ==
    /\ \A w \in Worker : pc[w] = "idle" \/ is_idle[w] => pool[w] = None
    /\ ~have_idle_worker \/ listener \in {"peek", "swap"} => ptrans = None

\* No pool is held twice.
PoolHeldOnce ==
    /\ \A v, w \in Worker : pool[v] = pool[w] /\ pool[v] # None => v = w
    /\ \A i, j \in DOMAIN queue : queue[i].p = queue[j].p => i = j
    /\ \A i, j \in DOMAIN recycled : recycled[i] = recycled[j] => i = j
    /\ \A w \in Worker : \A i \in DOMAIN queue : queue[i].p # pool[w]
    /\ \A w \in Worker : \A i \in DOMAIN recycled : recycled[i] # pool[w]
    /\ \A i \in DOMAIN queue : \A j \in DOMAIN recycled : queue[i].p # recycled[j]
    /\ ptrans # None => /\ \A w \in Worker : pool[w] # ptrans
                        /\ \A i \in DOMAIN queue : queue[i].p # ptrans
                        /\ \A i \in DOMAIN recycled : recycled[i] # ptrans

\* The list the listener has read is still the end of recycled: workers only add in front.
PeekedIsTail ==
    listener = "swap" =>
        /\ Len(peeked) <= Len(recycled)
        /\ \A i \in 1 .. Len(peeked) :
              recycled[Len(recycled) - Len(peeked) + i] = peeked[i]

\* The workers about to count themselves idle.
Going == {w \in Worker : pc[w] = "idle"}

\* A pool in the list is owed to a worker that is counted idle, or about to be, or to the
\* reservation.
RecycledAccount ==
    Len(recycled) <= idlers + Cardinality(Going)
                       + (IF listener \in {"peek", "swap"} THEN 1 ELSE 0)

PoolInv == PoolHeldWhere /\ PoolHeldOnce /\ PeekedIsTail /\ RecycledAccount

\* A worker that has been woken and has not looked yet.
Woken(w) == pc[w] = "wait" /\ w \notin notEmpty

\* A worker that will look at the queue before it leaves, or sleeps until it is told to.
Attentive(w) == pc[w] \notin {"unlocked", "exited"} /\ ~Woken(w)

(***************************************************************************)
(* Why no socket is forgotten in a graceful stop.  A worker that was woken *)
(* may find the queue empty and leave by APR_EOF after another socket has  *)
(* been pushed; but whoever took the element it was woken for has not been *)
(* woken since without an element to take.  So as long as something may be *)
(* pushed or is queued, some worker has still to look at the queue, unless *)
(* there is, or has been, a worker that nobody woke.                       *)
(***************************************************************************)
Attended ==
    ~workers_may_exit /\ created # {} /\ (~terminated \/ queue # <<>>) =>
        \/ \E w \in created : Attentive(w)
        \/ queue # <<>> /\ \E w \in created : Woken(w)
        \/ stray # {} \/ overlooked

\* A worker that nobody woke is in ap_queue_pop, and has not left it by APR_EOF.
StrayHere == stray \subseteq {w \in created : pc[w] = "unlocked" \/ Woken(w)}

\* With where the listener and the main thread are, when they let the others go.
StopInv ==
    /\ Attended
    /\ StrayHere
    /\ created = {} => listener = "unborn"
    /\ listener \in {"interrupt", "kill", "exited"} => terminated
    /\ main \in {"interruptAll", "infoTerm", "closeSockets"} => workers_may_exit

\* Whatever ends the child has first told the listener.
Ordered ==
    /\ terminate_mode # "INIT" \/ infoTerminated => listener_may_exit
    /\ listener \in {"quit"} \cup Leaving => listener_may_exit
    /\ main = "joinStart" => rv # "INIT"
    /\ main \notin {"read", "reading", "eintr", "joinStart"} => listener_may_exit

-----------------------------------------------------------------------------
(* Sockets.                                                                 *)

Holding == {"popped", "serving"}

socketVars == <<sd, queue, csd, outcome, worker_sockets>>

\* A step that moves no socket, and goes neither to nor from a place where one is held.
LEMMA SocketsStay ==
    ASSUME SocketInv, UNCHANGED socketVars,
           \A w \in Worker : pc'[w] \in Holding <=> pc[w] \in Holding,
           csd # None => \/ listener \in Passing /\ listener' \in Passing
                         \/ listener \in Leaving /\ listener' \in Leaving
    PROVE  SocketInv'
<1> USE DEF SocketInv, socketVars
<1>1. HeldWhere'
  BY DEF HeldWhere, Holding
<1>2. HeldAsTold'
  BY DEF HeldAsTold, Passing, Leaving
<1>3. HeldOnce'
  BY DEF HeldOnce
<1> QED
  BY <1>1, <1>2, <1>3

\* The thread that starts the others moves no socket.
LEMMA StartSockets ==
    ASSUME TypeInv, SocketInv, WorkersCountOnce, StartStep
    PROVE  SocketInv'
<1> USE DEF socketVars, Holding, fdVars, listenerVars, workerVars, otherVars
<1>1. UNCHANGED socketVars
  BY DEF StartStep, StartWorker, StartListener, StartEnd, StartFails
<1>2. \A w \in Worker : pc'[w] \in Holding <=> pc[w] \in Holding
  <2>1. CASE \E v \in Worker : StartWorker(v)
    BY <2>1 DEF StartWorker, WorkersCountOnce, TypeInv, TypeOK
  <2>2. CASE StartListener \/ StartEnd \/ StartFails
    BY <2>2 DEF StartListener, StartEnd, StartFails
  <2> QED
    BY <2>1, <2>2 DEF StartStep
<1>3. csd # None => \/ listener \in Passing /\ listener' \in Passing
                    \/ listener \in Leaving /\ listener' \in Leaving
  BY DEF StartStep, StartWorker, StartListener, StartEnd, StartFails, SocketInv, HeldWhere,
         Passing, Leaving
<1> QED
  BY <1>1, <1>2, <1>3, SocketsStay

\* An element is added at the end of the queue.
LEMMA AppendFacts ==
    ASSUME NEW S, NEW q \in Seq(S), NEW e \in S
    PROVE  /\ DOMAIN q = 1 .. Len(q) /\ Len(q) \in Nat
           /\ DOMAIN Append(q, e) = 1 .. (Len(q) + 1)
           /\ \A i \in DOMAIN q : Append(q, e)[i] = q[i]
           /\ Append(q, e)[Len(q) + 1] = e
OBVIOUS

\* ap_queue_push moves the socket from the listener to the queue.
LEMMA PushSocket ==
    ASSUME TypeInv, SocketInv, ListenerPush
    PROVE  SocketInv'
<1> DEFINE e == [sd |-> csd, p |-> ptrans]
<1>1. /\ e \in [sd : Conn, p : Pool] /\ e.sd = csd /\ csd # None
      /\ queue \in Seq([sd : Conn, p : Pool]) /\ queue' = Append(queue, e)
  BY DEF ListenerPush, ap_queue_push, TypeInv, TypeOK, HoldsWhatItPasses
<1>2. /\ UNCHANGED <<sd, pc, outcome, worker_sockets>> /\ csd' = None /\ listener' = "top"
      /\ listener = "push"
  BY DEF ListenerPush, workerVars, otherVars
<1>3. /\ DOMAIN queue = 1 .. Len(queue) /\ Len(queue) \in Nat
      /\ DOMAIN queue' = 1 .. (Len(queue) + 1)
      /\ \A i \in DOMAIN queue : queue'[i] = queue[i]
      /\ queue'[Len(queue) + 1] = e
  BY <1>1, AppendFacts
<1> HIDE DEF e
<1> USE DEF SocketInv
<1>4. HeldWhere'
  BY <1>2 DEF HeldWhere
<1>5. HeldAsTold'
  <2>1. \A c \in Conn : outcome'[c] \in {"accepted", "dropped"} =>
            (\E w \in Worker : sd'[w] = c) \/ \E i \in DOMAIN queue' : queue'[i].sd = c
    BY <1>1, <1>2, <1>3 DEF HeldAsTold
  <2>2. \A i \in DOMAIN queue' : outcome'[queue'[i].sd] = "accepted"
    BY <1>1, <1>2, <1>3 DEF HeldAsTold, Passing
  <2> QED
    BY <1>2, <2>1, <2>2 DEF HeldAsTold
<1>6. HeldOnce'
  <2>1. \A i, j \in DOMAIN queue' : queue'[i].sd = queue'[j].sd => i = j
    BY <1>1, <1>3 DEF HeldOnce
  <2>2. \A w \in Worker : \A i \in DOMAIN queue' : queue'[i].sd # sd'[w]
    BY <1>1, <1>2, <1>3 DEF HeldOnce
  <2> QED
    BY <1>2, <2>1, <2>2 DEF HeldOnce
<1> QED
  BY <1>4, <1>5, <1>6

\* A step of the listener keeps every socket in its place but the one it pushes.
LEMMA ListenerSockets ==
    ASSUME TypeInv, SocketInv, ListenerStep
    PROVE  SocketInv'
<1>1. CASE ListenerPush
  BY <1>1, PushSocket
<1>2. CASE ~ListenerPush
  <2>1. UNCHANGED <<sd, queue, csd, outcome, worker_sockets, pc>>
    BY <1>2 DEF ListenerStep, ListenerTop, ListenerIdlers, ListenerBlock, ListenerReserve,
       ListenerPeekPool, ListenerSwapPool, ListenerLock, ListenerPoll, ListenerEnterPoll,
       ListenerReady, ListenerEnterAccept,
       ListenerUnlock, ListenerQuit, ListenerTerm, ListenerInterrupt, ListenerKill, fdVars,
       listenerVars, workerVars, otherVars
  <2>2. csd # None => \/ listener \in Passing /\ listener' \in Passing
                      \/ listener \in Leaving /\ listener' \in Leaving
    BY <1>2 DEF SocketInv, HeldWhere, Passing, Leaving, ListenerStep, ListenerTop,
       ListenerIdlers, ListenerBlock, ListenerReserve, ListenerPeekPool, ListenerSwapPool,
       ListenerLock, ListenerPoll, ListenerEnterPoll, ListenerReady, ListenerEnterAccept,
       ListenerUnlock, ListenerQuit, ListenerTerm,
       ListenerInterrupt, ListenerKill, AfterUnlock
  <2> QED
    BY <2>1, <2>2, SocketsStay DEF socketVars
<1> QED
  BY <1>1, <1>2

\* accept returns a socket that nobody has.
LEMMA AcceptSocket ==
    ASSUME TypeInv, SocketInv, ListenerAccept
    PROVE  SocketInv'
<1>1. PICK c \in Conn : /\ outcome[c] = "new" /\ csd' = c
                       /\ outcome' = [outcome EXCEPT ![c] = "accepted"]
  BY DEF ListenerAccept
<1>2. /\ UNCHANGED <<sd, pc, queue, worker_sockets>> /\ listener = "accepting"
      /\ listener' = "unlock" /\ csd = None
  BY DEF ListenerAccept, workerVars, fdVars, SocketInv, HeldWhere, Passing, Leaving
<1>3. outcome \in [Conn -> {"new", "accepted", "served", "killed", "dropped"}] /\ c # None
  BY ChildAssumption DEF TypeInv, TypeOK
<1>4. /\ \A w \in Worker : sd[w] # c
      /\ \A i \in DOMAIN queue : queue[i].sd # c
  BY <1>1, <1>3 DEF SocketInv, HeldAsTold
<1> USE DEF SocketInv
<1>5. HeldWhere'
  BY <1>2 DEF HeldWhere, Passing
<1>6. HeldAsTold'
  <2>1. \A w \in Worker : sd'[w] # None => outcome'[sd'[w]] \in {"accepted", "killed"}
    BY <1>1, <1>2, <1>3, <1>4 DEF HeldAsTold, TypeInv, TypeOK
  <2>2. \A i \in DOMAIN queue' : outcome'[queue'[i].sd] = "accepted"
    BY <1>1, <1>2, <1>3, <1>4 DEF HeldAsTold, TypeInv, TypeOK
  <2>3. outcome'[csd'] = "accepted"
    BY <1>1, <1>3
  <2>4. \A b \in Conn : outcome'[b] \in {"accepted", "dropped"} =>
            \/ csd' = b \/ (\E w \in Worker : sd'[w] = b)
            \/ \E i \in DOMAIN queue' : queue'[i].sd = b
    <3>1. \A b \in Conn : b # c => outcome'[b] = outcome[b]
      BY <1>1, <1>3
    <3> QED
      BY <1>1, <1>2, <3>1, ChildAssumption DEF HeldAsTold
  <2> QED
    BY <1>2, <2>1, <2>2, <2>3, <2>4 DEF HeldAsTold, Passing
<1>7. HeldOnce'
  BY <1>1, <1>2, <1>4 DEF HeldOnce
<1> QED
  BY <1>5, <1>6, <1>7

\* The listener that leaves with a socket keeps it, and the socket is dropped.
LEMMA DropSocket ==
    ASSUME TypeInv, SocketInv, ListenerUnlockFails, listener_may_exit
    PROVE  SocketInv'
<1>1. /\ UNCHANGED <<sd, pc, queue, worker_sockets, csd>>
      /\ listener = "unlock" /\ listener' = "term"
      /\ outcome' = IF csd = None THEN outcome ELSE [outcome EXCEPT ![csd] = "dropped"]
  BY DEF ListenerUnlockFails, workerVars, fdVars
<1>2. outcome \in [Conn -> {"new", "accepted", "served", "killed", "dropped"}]
  BY DEF TypeInv, TypeOK
<1>3. csd # None => csd \in Conn
  BY DEF TypeInv, TypeOK
<1> USE DEF SocketInv
<1>4. HeldWhere'
  BY <1>1 DEF HeldWhere, Leaving
<1>5. HeldAsTold'
  <2>1. CASE csd = None
    BY <1>1, <2>1 DEF HeldAsTold
  <2>2. CASE csd # None
    <3>1. outcome' = [outcome EXCEPT ![csd] = "dropped"]
      BY <1>1, <2>2
    <3>2. /\ \A w \in Worker : sd[w] # csd
          /\ \A i \in DOMAIN queue : queue[i].sd # csd
      BY <2>2 DEF HeldOnce
    <3>3. \A w \in Worker : sd'[w] # None => outcome'[sd'[w]] \in {"accepted", "killed"}
      BY <1>1, <1>2, <1>3, <3>1, <3>2 DEF HeldAsTold, TypeInv, TypeOK
    <3>4. \A i \in DOMAIN queue' : outcome'[queue'[i].sd] = "accepted"
      BY <1>1, <1>2, <1>3, <3>1, <3>2 DEF HeldAsTold, TypeInv, TypeOK
    <3>5. outcome'[csd'] = "dropped"
      BY <1>1, <1>2, <1>3, <2>2, <3>1
    <3>6. \A b \in Conn : outcome'[b] \in {"accepted", "dropped"} =>
              \/ csd' = b \/ (\E w \in Worker : sd'[w] = b)
              \/ \E i \in DOMAIN queue' : queue'[i].sd = b
      BY <1>1, <1>2, <1>3, <2>2, <3>1 DEF HeldAsTold
    <3> QED
      BY <1>1, <3>3, <3>4, <3>5, <3>6 DEF HeldAsTold, Passing
  <2> QED
    BY <2>1, <2>2
<1>6. HeldOnce'
  BY <1>1 DEF HeldOnce
<1> QED
  BY <1>4, <1>5, <1>6

\* What comes from outside keeps every socket in its place, but for accept and a failed unlock.
LEMMA EventSockets ==
    ASSUME TypeInv, SocketInv, ListenerEvent
    PROVE  SocketInv'
<1>1. CASE ListenerAccept
  BY <1>1, AcceptSocket
<1>2. CASE ListenerUnlockFails /\ listener_may_exit
  BY <1>2, DropSocket
<1>3. CASE ~ListenerAccept /\ ~(ListenerUnlockFails /\ listener_may_exit)
  <2>1. UNCHANGED <<sd, queue, csd, outcome, worker_sockets, pc>>
    BY <1>3 DEF ListenerEvent, ListenerFails, ListenerPolled, ListenerLockFails,
       ListenerAcceptFails, ListenerUnlockFails, fdVars, listenerVars, workerVars, otherVars
  <2>2. csd # None => \/ listener \in Passing /\ listener' \in Passing
                      \/ listener \in Leaving /\ listener' \in Leaving
    BY <1>3 DEF SocketInv, HeldWhere, Passing, Leaving, ListenerEvent, ListenerFails,
       ListenerPolled, ListenerLockFails, ListenerAcceptFails, ListenerUnlockFails,
       AfterUnlock
  <2> QED
    BY <2>1, <2>2, SocketsStay DEF socketVars
<1> QED
  BY <1>1, <1>2, <1>3

\* An element of the queue is a socket and its pool.
LEMMA QueueElements ==
    ASSUME TypeInv
    PROVE  \A i \in DOMAIN queue : queue[i].sd \in Conn /\ queue[i].p \in Pool
<1>1. queue \in Seq([sd : Conn, p : Pool])
  BY DEF TypeInv, TypeOK
<1>2. DOMAIN queue = 1 .. Len(queue)
  BY <1>1
<1>3. \A i \in 1 .. Len(queue) : queue[i] \in [sd : Conn, p : Pool]
  BY <1>1, ElementOfSeq
<1> QED
  BY <1>2, <1>3

\* What is popped, and what it leaves behind.
LEMMA PopFacts ==
    ASSUME TypeInv, PopElem
    PROVE  /\ Popped \in [sd : Conn, p : Pool]
           /\ DOMAIN queue = 1 .. Len(queue) /\ Len(queue) \in Nat \ {0}
           /\ DOMAIN queue' = 1 .. (Len(queue) - 1)
           /\ \A i \in DOMAIN queue' : queue'[i] = queue[i]
           /\ Popped = queue[Len(queue)]
<1>1. queue \in Seq([sd : Conn, p : Pool]) /\ queue # <<>>
  BY DEF PopElem, ap_queue_empty, TypeInv, TypeOK
<1>2. queue' = SubSeq(queue, 1, Len(queue) - 1)
  BY DEF PopElem
<1>3. Len(queue) \in Nat /\ Len(queue) # 0
  BY <1>1
<1>4. queue' \in Seq([sd : Conn, p : Pool]) /\ Len(queue') = Len(queue) - 1
  BY <1>1, <1>2, FrontFacts
<1>5. \A i \in 1 .. (Len(queue) - 1) : queue'[i] = queue[i]
  BY <1>1, <1>2
<1>6. Popped \in [sd : Conn, p : Pool]
  BY <1>1, FrontFacts DEF Popped
<1> QED
  BY <1>1, <1>3, <1>4, <1>5, <1>6 DEF Popped

\* ap_queue_pop moves the last socket from the queue to the worker.
LEMMA TakeSocket ==
    ASSUME TypeInv, SocketInv, NEW w \in Worker, WorkerTake(w)
    PROVE  SocketInv'
<1> DEFINE c == Popped.sd
           n == Len(queue)
<1>1. /\ c \in Conn /\ c # None /\ c = queue[n].sd
      /\ DOMAIN queue = 1 .. n /\ n \in Nat \ {0}
      /\ DOMAIN queue' = 1 .. (n - 1)
      /\ \A i \in DOMAIN queue' : queue'[i] = queue[i]
  BY PopFacts, ChildAssumption DEF WorkerTake
<1>2. /\ UNCHANGED <<csd, listener, outcome, worker_sockets>>
      /\ sd' = [sd EXCEPT ![w] = c] /\ pc' = [pc EXCEPT ![w] = "popped"]
      /\ pc[w] \in {"pop", "wait"}
  BY DEF WorkerTake, listenerVars, otherVars, Goto
<1>3. /\ sd \in [Worker -> Conn \cup {None}] /\ DOMAIN pc = Worker
      /\ outcome \in [Conn -> {"new", "accepted", "served", "killed", "dropped"}]
  BY DEF TypeInv, TypeOK
<1> HIDE DEF c, n
<1>4. /\ sd' \in [Worker -> Conn \cup {None}] /\ sd'[w] = c
      /\ \A v \in Worker : v # w => sd'[v] = sd[v]
      /\ pc'[w] = "popped" /\ \A v \in Worker : v # w => pc'[v] = pc[v]
  BY <1>1, <1>2, <1>3
<1> USE DEF SocketInv
<1>5. sd[w] = None /\ worker_sockets[w] = None
  BY <1>2 DEF HeldWhere
<1>6. outcome[c] = "accepted"
  BY <1>1 DEF HeldAsTold
<1>7. HeldWhere'
  BY <1>1, <1>2, <1>4, <1>5 DEF HeldWhere
<1>8. HeldAsTold'
  <2>1. \A b \in Conn : outcome'[b] \in {"accepted", "dropped"} =>
            \/ csd' = b \/ (\E v \in Worker : sd'[v] = b)
            \/ \E i \in DOMAIN queue' : queue'[i].sd = b
    <3> SUFFICES ASSUME NEW b \in Conn, outcome[b] \in {"accepted", "dropped"}
                 PROVE  \/ csd = b \/ (\E v \in Worker : sd'[v] = b)
                        \/ \E i \in DOMAIN queue' : queue'[i].sd = b
      BY <1>2
    <3>1. CASE \E v \in Worker : sd[v] = b
      BY <1>4, <1>5, <3>1, ChildAssumption
    <3>2. CASE \E i \in DOMAIN queue : queue[i].sd = b
      <4>1. PICK i \in DOMAIN queue : queue[i].sd = b
        BY <3>2
      <4>2. CASE i = n
        BY <1>1, <1>4, <4>1, <4>2
      <4>3. CASE i # n
        BY <1>1, <4>1, <4>3
      <4> QED
        BY <4>2, <4>3
    <3> QED
      BY <3>1, <3>2 DEF HeldAsTold
  <2>2. \A v \in Worker : sd'[v] # None => outcome'[sd'[v]] \in {"accepted", "killed"}
    BY <1>2, <1>4, <1>6 DEF HeldAsTold
  <2>3. \A i \in DOMAIN queue' : outcome'[queue'[i].sd] = "accepted"
    BY <1>1, <1>2 DEF HeldAsTold
  <2> QED
    BY <1>2, <2>1, <2>2, <2>3 DEF HeldAsTold
<1>9. HeldOnce'
  <2>1. \A v \in Worker : sd[v] # c
    BY <1>1 DEF HeldOnce
  <2>2. \A u, v \in Worker : sd'[u] = sd'[v] /\ sd'[u] # None => u = v
    BY <1>4, <2>1 DEF HeldOnce
  <2>3. \A i, j \in DOMAIN queue' : queue'[i].sd = queue'[j].sd => i = j
    BY <1>1 DEF HeldOnce
  <2>4. \A v \in Worker : \A i \in DOMAIN queue' : queue'[i].sd # sd'[v]
    <3>1. \A i \in DOMAIN queue' : queue'[i].sd # c
      BY <1>1 DEF HeldOnce
    <3> QED
      BY <1>1, <1>4, <3>1 DEF HeldOnce
  <2>5. csd' # None => /\ \A v \in Worker : sd'[v] # csd'
                       /\ \A i \in DOMAIN queue' : queue'[i].sd # csd'
    BY <1>1, <1>2, <1>4 DEF HeldOnce
  <2> QED
    BY <2>2, <2>3, <2>4, <2>5 DEF HeldOnce
<1> QED
  BY <1>7, <1>8, <1>9

\* A socket that is served is in no place any more.
LEMMA ServedSocket ==
    ASSUME TypeInv, SocketInv, NEW w \in Worker, WorkerServed(w)
    PROVE  SocketInv'
<1> DEFINE c == sd[w]
<1>1. /\ UNCHANGED <<csd, listener, queue>> /\ pc[w] = "serving"
      /\ outcome' = [outcome EXCEPT ![c] = IF @ = "killed" THEN @ ELSE "served"]
      /\ sd' = [sd EXCEPT ![w] = None] /\ pc' = [pc EXCEPT ![w] = "load"]
      /\ worker_sockets' = [worker_sockets EXCEPT ![w] = None]
  BY DEF WorkerServed, listenerVars, fdVars, Goto
<1>2. /\ sd \in [Worker -> Conn \cup {None}] /\ DOMAIN pc = Worker
      /\ DOMAIN worker_sockets = Worker
      /\ outcome \in [Conn -> {"new", "accepted", "served", "killed", "dropped"}]
  BY DEF TypeInv, TypeOK
<1> USE DEF SocketInv
<1>3. c \in Conn /\ c # None /\ outcome[c] \in {"accepted", "killed"}
  BY <1>1, <1>2 DEF HeldWhere, HeldAsTold
<1>4. /\ \A v \in Worker : v # w => sd[v] # c
      /\ \A i \in DOMAIN queue : queue[i].sd # c
      /\ csd # c
  BY <1>3 DEF HeldOnce
<1> HIDE DEF c
<1>5. /\ sd'[w] = None /\ \A v \in Worker : v # w => sd'[v] = sd[v]
      /\ worker_sockets'[w] = None
      /\ \A v \in Worker : v # w => worker_sockets'[v] = worker_sockets[v]
      /\ pc'[w] = "load" /\ \A v \in Worker : v # w => pc'[v] = pc[v]
  BY <1>1, <1>2
<1>6. /\ outcome'[c] \in {"served", "killed"}
      /\ \A b \in Conn : b # c => outcome'[b] = outcome[b]
  BY <1>1, <1>2, <1>3
<1>7. HeldWhere'
  BY <1>1, <1>5 DEF HeldWhere
<1>8. HeldAsTold'
  <2>1. \A v \in Worker : sd'[v] # None => outcome'[sd'[v]] \in {"accepted", "killed"}
    BY <1>2, <1>4, <1>5, <1>6 DEF HeldAsTold
  <2>2. \A i \in DOMAIN queue' : outcome'[queue'[i].sd] = "accepted"
    BY <1>1, <1>4, <1>6 DEF HeldAsTold, TypeInv, TypeOK
  <2>3. csd' # None => outcome'[csd'] = IF listener' \in Passing THEN "accepted" ELSE "dropped"
    BY <1>1, <1>4, <1>6 DEF HeldAsTold, TypeInv, TypeOK
  <2>4. \A b \in Conn : outcome'[b] \in {"accepted", "dropped"} =>
            \/ csd' = b \/ (\E v \in Worker : sd'[v] = b)
            \/ \E i \in DOMAIN queue' : queue'[i].sd = b
    <3> SUFFICES ASSUME NEW b \in Conn, outcome'[b] \in {"accepted", "dropped"}
                 PROVE  \/ csd = b \/ (\E v \in Worker : sd'[v] = b)
                        \/ \E i \in DOMAIN queue : queue[i].sd = b
      BY <1>1
    <3>1. b # c /\ outcome[b] \in {"accepted", "dropped"}
      BY <1>6
    <3>2. sd[w] # b
      BY <3>1 DEF c
    <3> QED
      BY <1>5, <3>1, <3>2 DEF HeldAsTold
  <2> QED
    BY <2>1, <2>2, <2>3, <2>4 DEF HeldAsTold
<1>9. HeldOnce'
  <2>1. \A u, v \in Worker : sd'[u] = sd'[v] /\ sd'[u] # None => u = v
    BY <1>5 DEF HeldOnce
  <2>2. \A v \in Worker : \A i \in DOMAIN queue' : queue'[i].sd # sd'[v]
    <3>1. \A i \in DOMAIN queue : queue[i].sd # None
      BY QueueElements, ChildAssumption
    <3> QED
      BY <1>1, <1>5, <3>1 DEF HeldOnce
  <2>3. csd' # None => \A v \in Worker : sd'[v] # csd'
    BY <1>1, <1>5 DEF HeldOnce
  <2> QED
    BY <1>1, <2>1, <2>2, <2>3 DEF HeldOnce
<1> QED
  BY <1>7, <1>8, <1>9

\* A worker moves a socket when it takes one and when it has served it.
LEMMA WorkerSockets ==
    ASSUME TypeInv, SocketInv, NEW w \in Worker, WorkerStep(w)
    PROVE  SocketInv'
<1>1. CASE WorkerTake(w)
  BY <1>1, TakeSocket
<1>2. CASE WorkerServed(w)
  BY <1>2, ServedSocket
<1>3. CASE WorkerRegister(w)
  <2>1. /\ UNCHANGED <<sd, queue, csd, outcome, listener>>
        /\ pc[w] = "popped" /\ pc' = [pc EXCEPT ![w] = "serving"]
        /\ worker_sockets' = [worker_sockets EXCEPT ![w] = sd[w]]
    BY <1>3 DEF WorkerRegister, fdVars, listenerVars, otherVars, Goto
  <2>2. HeldWhere'
    BY <2>1 DEF SocketInv, HeldWhere, TypeInv, TypeOK
  <2>3. HeldAsTold' /\ HeldOnce'
    BY <2>1 DEF SocketInv, HeldAsTold, HeldOnce
  <2> QED
    BY <2>2, <2>3 DEF SocketInv
<1>4. CASE ~WorkerTake(w) /\ ~WorkerServed(w) /\ ~WorkerRegister(w)
  <2>1. UNCHANGED <<sd, queue, csd, outcome, worker_sockets, listener>>
    BY <1>4 DEF WorkerStep, WorkerLoop, WorkerRecycle, WorkerIdle, WorkerSignal, WorkerCheck,
       WorkerBlock, WorkerFindsNothing, WorkerPopStatus, WorkerLoad, WorkerStore, fdVars,
       listenerVars, otherVars
  <2>2. \A v \in Worker : pc'[v] \in Holding <=> pc[v] \in Holding
    BY <1>4 DEF WorkerStep, WorkerLoop, WorkerRecycle, WorkerIdle, WorkerSignal, WorkerCheck,
       WorkerBlock, WorkerFindsNothing, WorkerPopStatus, WorkerLoad, WorkerStore, Goto,
       Holding, TypeInv, TypeOK
  <2>3. csd # None => listener \in Passing \cup Leaving
    BY DEF SocketInv, HeldWhere
  <2> QED
    BY <2>1, <2>2, <2>3, SocketsStay DEF socketVars
<1> QED
  BY <1>1, <1>2, <1>3, <1>4

\* close_worker_sockets kills what workers have registered; the worker still holds it.
LEMMA CloseSockets ==
    ASSUME TypeInv, SocketInv, close_worker_sockets
    PROVE  SocketInv'
<1>1. /\ UNCHANGED <<sd, queue, csd, listener, pc>>
      /\ outcome' = [c \in Conn |-> IF \E w \in Worker : worker_sockets[w] = c THEN "killed"
                                    ELSE outcome[c]]
      /\ worker_sockets' = [w \in Worker |-> None]
  BY DEF close_worker_sockets, fdVars, listenerVars
<1>2. \A c \in Conn : \/ outcome'[c] = outcome[c]
                      \/ outcome'[c] = "killed" /\ \E w \in Worker : worker_sockets[w] = c
  BY <1>1
<1>3. \A c \in Conn : (\E w \in Worker : worker_sockets[w] = c) => \E w \in Worker : sd[w] = c
  BY ChildAssumption DEF SocketInv, HeldWhere
<1> USE DEF SocketInv
<1>4. HeldWhere'
  BY <1>1 DEF HeldWhere
<1>5. HeldAsTold'
  <2>1. \A w \in Worker : sd'[w] # None => outcome'[sd'[w]] \in {"accepted", "killed"}
    BY <1>1, <1>2 DEF HeldAsTold, TypeInv, TypeOK
  <2>2. \A i \in DOMAIN queue' : outcome'[queue'[i].sd] = "accepted"
    <3>1. \A i \in DOMAIN queue : queue[i].sd \in Conn
      BY QueueElements
    <3>2. \A i \in DOMAIN queue : ~ \E w \in Worker : sd[w] = queue[i].sd
      BY DEF HeldOnce
    <3> QED
      BY <1>1, <1>2, <1>3, <3>1, <3>2 DEF HeldAsTold
  <2>3. csd' # None => outcome'[csd'] = IF listener' \in Passing THEN "accepted" ELSE "dropped"
    <3> SUFFICES ASSUME csd # None
                 PROVE  outcome'[csd] = IF listener \in Passing THEN "accepted" ELSE "dropped"
      BY <1>1
    <3>1. csd \in Conn
      BY DEF TypeInv, TypeOK
    <3>2. ~ \E w \in Worker : worker_sockets[w] = csd
      BY <1>3, <3>1 DEF HeldOnce
    <3>3. outcome'[csd] = outcome[csd]
      BY <1>2, <3>1, <3>2
    <3> QED
      BY <3>3 DEF HeldAsTold
  <2>4. \A c \in Conn : outcome'[c] \in {"accepted", "dropped"} => outcome'[c] = outcome[c]
    BY <1>2
  <2> QED
    BY <1>1, <2>1, <2>2, <2>3, <2>4 DEF HeldAsTold
<1>6. HeldOnce'
  BY <1>1 DEF HeldOnce
<1> QED
  BY <1>4, <1>5, <1>6

\* The main thread moves no socket; of the listener it only interrupts poll and accept.
LEMMA MainSockets ==
    ASSUME TypeInv, SocketInv, MainEvent
    PROVE  SocketInv'
<1>1. CASE close_worker_sockets
  BY <1>1, CloseSockets
<1>2. CASE ~close_worker_sockets
  <2>1. UNCHANGED <<sd, queue, csd, outcome, worker_sockets, pc>>
    BY <1>2 DEF MainEvent, MainStep, MainBlock, MainRead, MainInterrupted, MainSignalThreads,
       MainWorkersMayExit, MainInterruptAll, MainInfoTerm, MainWakeListener, MainJoinListener,
       MainExit, StraySigterm, WakeupListener, fdVars, listenerVars, workerVars, otherVars
  <2>2. csd # None => \/ listener \in Passing /\ listener' \in Passing
                      \/ listener \in Leaving /\ listener' \in Leaving
    BY <1>2 DEF SocketInv, HeldWhere, Passing, Leaving, MainEvent, MainStep, MainBlock,
       MainRead, MainInterrupted, MainSignalThreads, MainWorkersMayExit, MainInterruptAll,
       MainInfoTerm, MainWakeListener, MainJoinListener, MainExit, StraySigterm,
       WakeupListener, listenerVars
  <2> QED
    BY <2>1, <2>2, SocketsStay DEF socketVars
<1> QED
  BY <1>1, <1>2

\* No step of any thread puts a socket in two places or leaves one behind.
LEMMA SocketStep ==
    ASSUME TypeInv, WorkersCountOnce, SocketInv, [Next]_vars
    PROVE  SocketInv'
<1>1. CASE UNCHANGED vars
  <2>1. UNCHANGED <<sd, queue, csd, outcome, worker_sockets, pc, listener>>
    BY <1>1 DEF vars, fdVars, listenerVars, workerVars, otherVars
  <2> QED
    BY <2>1, SocketsStay DEF socketVars, SocketInv, HeldWhere
<1>2. CASE StrayStep
  <2>1. UNCHANGED <<sd, queue, csd, outcome, worker_sockets, pc, listener>>
    BY <1>2, StrayChanges DEF listenerVars, workerVars
  <2> QED
    BY <2>1, SocketsStay DEF socketVars, SocketInv, HeldWhere
<1> QED
  BY <1>1, <1>2, StepCases, StartSockets, ListenerSockets, EventSockets, WorkerSockets,
     MainSockets

\* At the start there is no socket.
LEMMA SocketInit ==
    ASSUME Init
    PROVE  SocketInv
BY DEF Init, FdInit, SocketInv, HeldWhere, HeldAsTold, HeldOnce

\* A set whose elements are all equal has at most one.
LEMMA AtMostOne ==
    ASSUME NEW S, \A x, y \in S : x = y
    PROVE  IsFiniteSet(S) /\ Cardinality(S) = IF S = {} THEN 0 ELSE 1
<1>1. CASE S = {}
  BY <1>1, FS_EmptySet
<1>2. CASE S # {}
  <2>1. PICK x \in S : TRUE
    BY <1>2
  <2>2. S = {x}
    BY <2>1
  <2> QED
    BY <1>2, <2>2, FS_Singleton
<1> QED
  BY <1>1, <1>2

(***************************************************************************)
(* A socket that has been accepted and not served is with the listener, in *)
(* the queue or with one worker, whatever the threads do and in whatever   *)
(* order: none is served twice, and none is forgotten.                     *)
(***************************************************************************)
THEOREM SocketsStayExclusive == Spec => []SocketsExclusive
<1>1. TypeInv /\ SocketInv => SocketsExclusive
  <2> SUFFICES ASSUME TypeInv, SocketInv, NEW c \in Conn
               PROVE  LET places == Cardinality({w \in Worker : sd[w] = c})
                            + Cardinality({i \in DOMAIN queue : queue[i].sd = c})
                            + (IF csd = c THEN 1 ELSE 0)
                      IN  /\ outcome[c] \in {"new", "served"} => places = 0
                          /\ outcome[c] \in {"accepted", "dropped"} => places = 1
                          /\ outcome[c] = "killed" => places <= 1
    BY DEF SocketsExclusive
  <2> DEFINE W == {w \in Worker : sd[w] = c}
             Q == {i \in DOMAIN queue : queue[i].sd = c}
  <2> USE DEF SocketInv
  <2>1. c # None
    BY ChildAssumption
  <2>2. Cardinality(W) = IF W = {} THEN 0 ELSE 1
    <3>1. \A v, w \in W : v = w
      BY <2>1 DEF HeldOnce
    <3> QED
      BY <3>1, AtMostOne
  <2>3. Cardinality(Q) = IF Q = {} THEN 0 ELSE 1
    <3>1. \A i, j \in Q : i = j
      BY DEF HeldOnce
    <3> QED
      BY <3>1, AtMostOne
  <2>4. ~(W # {} /\ Q # {}) /\ (csd = c => W = {} /\ Q = {})
    BY <2>1 DEF HeldOnce
  <2>5. outcome[c] \in {"new", "served"} => W = {} /\ Q = {} /\ csd # c
    BY <2>1 DEF HeldAsTold
  <2>6. outcome[c] \in {"accepted", "dropped"} => W # {} \/ Q # {} \/ csd = c
    BY DEF HeldAsTold
  <2> HIDE DEF W, Q
  <2>7. LET places == Cardinality(W) + Cardinality(Q) + (IF csd = c THEN 1 ELSE 0)
        IN  /\ outcome[c] \in {"new", "served"} => places = 0
            /\ outcome[c] \in {"accepted", "dropped"} => places = 1
            /\ outcome[c] = "killed" => places <= 1
    BY <2>2, <2>3, <2>4, <2>5, <2>6
  <2> QED
    BY <2>7 DEF W, Q
<1> QED
  BY <1>1, InvInductive, SocketInit, SocketStep, PTL DEF Spec, AccountInv

-----------------------------------------------------------------------------
(* Pools.                                                                   *)

poolVars == <<pool, recycled, queue, ptrans, peeked, idlers, have_idle_worker, is_idle>>

Popping == {"peek", "swap"}

\* A step that moves no pool and takes none from the list.
LEMMA PoolsStay ==
    ASSUME PoolInv, UNCHANGED poolVars,
           \A w \in Worker : pc'[w] = "idle" <=> pc[w] = "idle",
           listener' = listener \/ (listener \notin Popping /\ listener' \notin Popping)
    PROVE  PoolInv'
<1> USE DEF PoolInv, poolVars, Popping
<1>1. Going' = Going
  BY DEF Going
<1>2. PoolHeldWhere' /\ PoolHeldOnce'
  BY DEF PoolHeldWhere, PoolHeldOnce
<1>3. PeekedIsTail' /\ RecycledAccount'
  BY <1>1 DEF PeekedIsTail, RecycledAccount
<1> QED
  BY <1>2, <1>3

\* The workers about to be idle are finitely many.
LEMMA GoingIsFinite ==
    IsFiniteSet(Going) /\ Cardinality(Going) \in Nat
BY ChildAssumption, FS_Subset, FS_CardinalityType DEF Going

\* The thread that starts the others moves no pool.
LEMMA StartPools ==
    ASSUME TypeInv, PoolInv, WorkersCountOnce, StartStep
    PROVE  PoolInv'
<1>1. UNCHANGED poolVars
  BY DEF StartStep, StartWorker, StartListener, StartEnd, StartFails, poolVars, fdVars,
         listenerVars, workerVars
<1>2. \A w \in Worker : pc'[w] = "idle" <=> pc[w] = "idle"
  <2>1. CASE \E v \in Worker : StartWorker(v)
    BY <2>1 DEF StartWorker, WorkersCountOnce, TypeInv, TypeOK
  <2>2. CASE StartListener \/ StartEnd \/ StartFails
    BY <2>2 DEF StartListener, StartEnd, StartFails, workerVars
  <2> QED
    BY <2>1, <2>2 DEF StartStep
<1>3. listener' = listener \/ (listener \notin Popping /\ listener' \notin Popping)
  BY DEF StartStep, StartWorker, StartListener, StartEnd, StartFails, listenerVars, Popping
<1> QED
  BY <1>1, <1>2, <1>3, PoolsStay

\* A reservation leaves room for the pool that goes with it.
LEMMA ReservePool ==
    ASSUME TypeInv, PoolInv, ReservationHeld, ListenerReserve
    PROVE  PoolInv'
<1>1. /\ UNCHANGED <<pool, recycled, queue, ptrans, peeked, pc, is_idle>>
      /\ idlers' = idlers - 1 /\ idlers \in Nat
      /\ listener = "reserve" /\ listener' = "peek" /\ ~have_idle_worker
  BY DEF ListenerReserve, DecIdlers, ReservationHeld, workerVars, TypeInv, TypeOK
<1> USE DEF PoolInv
<1>2. PoolHeldWhere' /\ PoolHeldOnce'
  BY <1>1 DEF PoolHeldWhere, PoolHeldOnce
<1>3. PeekedIsTail'
  BY <1>1 DEF PeekedIsTail
<1>4. RecycledAccount'
  <2>1. Going' = Going
    BY <1>1 DEF Going
  <2> QED
    BY <1>1, <2>1, GoingIsFinite DEF RecycledAccount, TypeInv, TypeOK
<1> QED
  BY <1>2, <1>3, <1>4

\* The list is read; if it is empty the reservation needs no room in it.
LEMMA PeekPool ==
    ASSUME TypeInv, PoolInv, ListenerPeekPool
    PROVE  PoolInv'
<1>1. /\ UNCHANGED <<pool, recycled, queue, ptrans, pc, is_idle, idlers, have_idle_worker>>
      /\ peeked' = recycled
      /\ listener' = IF recycled = <<>> THEN AfterWaitForIdler ELSE "swap"
      /\ listener = "peek"
  BY DEF ListenerPeekPool, workerVars, fdVars
<1>2. recycled \in Seq(Pool)
  BY DEF TypeInv, TypeOK
<1> USE DEF PoolInv
<1>3. PoolHeldWhere' /\ PoolHeldOnce'
  BY <1>1 DEF PoolHeldWhere, PoolHeldOnce
<1>4. PeekedIsTail'
  BY <1>1, <1>2 DEF PeekedIsTail
<1>5. RecycledAccount'
  <2>1. Going' = Going
    BY <1>1 DEF Going
  <2>2. CASE recycled = <<>>
    <3>1. Len(recycled') = 0 /\ idlers' \in Nat
      BY <1>1, <2>2 DEF TypeInv, TypeOK
    <3> QED
      BY <2>1, <3>1, GoingIsFinite DEF RecycledAccount
  <2>3. CASE recycled # <<>>
    BY <1>1, <2>1, <2>3 DEF RecycledAccount
  <2> QED
    BY <2>2, <2>3
<1> QED
  BY <1>3, <1>4, <1>5

\* When the first pool is the one that was read, nothing was added in front of it:
\* the list is the one that was read, and its tail is what it has to become.
LEMMA SwapIsExact ==
    ASSUME TypeInv, PoolInv, listener = "swap", Head(recycled) = Head(peeked), recycled # <<>>
    PROVE  recycled = peeked
<1>1. recycled \in Seq(Pool) /\ peeked \in Seq(Pool) /\ peeked # <<>>
  BY DEF TypeInv, TypeOK, HoldsWhatItPasses
<1> DEFINE n == Len(recycled)
           m == Len(peeked)
<1>2. /\ n \in Nat /\ n > 0 /\ m \in Nat /\ m > 0
      /\ Head(recycled) = recycled[1] /\ Head(peeked) = peeked[1]
      /\ DOMAIN recycled = 1 .. n
  BY <1>1
<1>3. m <= n /\ \A i \in 1 .. m : recycled[n - m + i] = peeked[i]
  BY DEF PoolInv, PeekedIsTail
<1>4. recycled[n - m + 1] = recycled[1]
  BY <1>2, <1>3
<1>5. \A i, j \in 1 .. n : recycled[i] = recycled[j] => i = j
  BY <1>2 DEF PoolInv, PoolHeldOnce
<1> HIDE DEF n, m
<1>6. n = m
  BY <1>2, <1>3, <1>4, <1>5
<1>7. \A i \in 1 .. n : recycled[i] = peeked[i]
  BY <1>2, <1>3, <1>6
<1> QED
  BY <1>1, <1>6, <1>7, SeqEqual DEF n, m

\* The tail of a sequence.
LEMMA TailFacts ==
    ASSUME NEW S, NEW q \in Seq(S), q # <<>>
    PROVE  /\ Head(q) = q[1] /\ Len(q) \in Nat \ {0} /\ DOMAIN q = 1 .. Len(q)
           /\ Len(Tail(q)) = Len(q) - 1 /\ DOMAIN Tail(q) = 1 .. (Len(q) - 1)
           /\ \A i \in 1 .. (Len(q) - 1) : Tail(q)[i] = q[i + 1]
OBVIOUS

\* The compare-and-swap of ap_queue_info_wait_for_idler takes the first pool and no other.
LEMMA SwapTakesFirst ==
    ASSUME TypeInv, ReservationHeld, PoolInv, ListenerSwapPool
    PROVE  PoolInv'
<1>1. /\ UNCHANGED <<pool, queue, pc, is_idle, idlers, have_idle_worker>>
      /\ listener = "swap" /\ peeked' = <<>>
  BY DEF ListenerSwapPool, workerVars
<1>2. Going' = Going
  BY <1>1 DEF Going
<1> USE DEF PoolInv
<1>3. ptrans = None
  BY <1>1 DEF PoolHeldWhere
<1>4. CASE Head(recycled) # Head(peeked)
  <2>1. listener' = "peek" /\ UNCHANGED <<recycled, ptrans>>
    BY <1>4 DEF ListenerSwapPool
  <2>2. PoolHeldWhere' /\ PoolHeldOnce'
    BY <1>1, <2>1, <1>3 DEF PoolHeldWhere, PoolHeldOnce
  <2>3. PeekedIsTail' /\ RecycledAccount'
    BY <1>1, <1>2, <2>1 DEF PeekedIsTail, RecycledAccount
  <2> QED
    BY <2>2, <2>3
<1>5. CASE Head(recycled) = Head(peeked)
  <2> DEFINE n == Len(recycled)
             p == recycled[1]
  <2>1. /\ recycled # <<>> /\ recycled' = Tail(peeked) /\ ptrans' = Head(peeked)
        /\ listener' = AfterWaitForIdler
    BY <1>5 DEF ListenerSwapPool, SwapPool
  <2>2. recycled' = Tail(recycled) /\ ptrans' = Head(recycled) /\ recycled \in Seq(Pool)
    BY <1>1, <1>5, <2>1, SwapIsExact DEF TypeInv, TypeOK
  <2>3. /\ ptrans' = p /\ n \in Nat \ {0} /\ DOMAIN recycled = 1 .. n
        /\ Len(recycled') = n - 1 /\ DOMAIN recycled' = 1 .. (n - 1)
        /\ \A i \in 1 .. (n - 1) : recycled'[i] = recycled[i + 1]
    BY <2>1, <2>2, TailFacts
  <2> HIDE DEF n, p
  <2>4. p # None
    BY <2>1, <2>2, ChildAssumption DEF p
  <2>5. listener' \notin Popping
    BY <2>1 DEF AfterWaitForIdler, Popping
  <2>6. have_idle_worker'
    BY <1>1 DEF ReservationHeld, Reserved
  <2>7. PoolHeldWhere'
    BY <1>1, <2>5, <2>6, Zenon DEF PoolHeldWhere, Popping
  <2>8. PoolHeldOnce'
    <3>1. \A i \in 1 .. (n - 1) : i + 1 \in 1 .. n /\ i + 1 # 1 /\ 1 \in 1 .. n
      BY <2>3
    <3>2. \A i, j \in DOMAIN recycled' : recycled'[i] = recycled'[j] => i = j
      <4> SUFFICES ASSUME NEW i \in 1 .. (n - 1), NEW j \in 1 .. (n - 1),
                          recycled[i + 1] = recycled[j + 1]
                   PROVE  i = j
        BY <2>3
      <4>1. i + 1 = j + 1
        BY <2>3, <3>1 DEF PoolHeldOnce
      <4> QED
        BY <4>1
    <3>3. /\ \A w \in Worker : \A i \in DOMAIN recycled' : recycled'[i] # pool'[w]
          /\ \A i \in DOMAIN queue' : \A j \in DOMAIN recycled' : queue'[i].p # recycled'[j]
      <4>1. \A j \in DOMAIN recycled' : j + 1 \in DOMAIN recycled /\ recycled'[j] = recycled[j + 1]
        BY <2>3, <3>1
      <4> QED
        BY <1>1, <4>1 DEF PoolHeldOnce
    <3>4. /\ \A w \in Worker : pool'[w] # p
          /\ \A i \in DOMAIN queue' : queue'[i].p # p
          /\ \A i \in DOMAIN recycled' : recycled'[i] # p
      <4>1. 1 \in DOMAIN recycled
        BY <2>3
      <4>2. (\A w \in Worker : pool[w] # p) /\ (\A i \in DOMAIN queue : queue[i].p # p)
        BY <4>1 DEF PoolHeldOnce, p
      <4>3. ASSUME NEW i \in 1 .. (n - 1) PROVE recycled[i + 1] # p
        BY <2>3, <3>1, <4>1 DEF PoolHeldOnce, p
      <4> QED
        BY <1>1, <2>3, <4>2, <4>3
    <3> QED
      BY <1>1, <2>3, <3>2, <3>3, <3>4 DEF PoolHeldOnce
  <2>9. PeekedIsTail'
    BY <2>5 DEF PeekedIsTail, Popping
  <2>10. RecycledAccount'
    <3>1. n <= idlers + Cardinality(Going) + 1 /\ idlers \in Nat
      BY <1>1 DEF RecycledAccount, n, TypeInv, TypeOK
    <3> QED
      BY <1>1, <1>2, <2>3, <2>5, <3>1, GoingIsFinite DEF RecycledAccount, Popping
  <2> QED
    BY <2>7, <2>8, <2>9, <2>10
<1> QED
  BY <1>4, <1>5

\* A pool that is created is in use nowhere.
LEMMA CreatePool ==
    ASSUME TypeInv, ReservationHeld, PoolInv, ListenerReady
    PROVE  PoolInv'
<1>1. /\ UNCHANGED <<pool, queue, recycled, peeked, pc, is_idle, idlers, have_idle_worker>>
      /\ listener = "ready" /\ listener' \notin Popping
  BY DEF ListenerReady, fdVars, workerVars, Popping
<1>2. CASE ptrans' = ptrans
  BY <1>1, <1>2, PoolsStay DEF poolVars, Popping
<1>3. CASE ptrans' # ptrans
  <2>1. ptrans = None /\ ptrans' \in Pool /\ ptrans' \notin PoolsInUse
    BY <1>3 DEF ListenerReady
  <2>2. /\ \A w \in Worker : pool[w] # ptrans'
        /\ \A i \in DOMAIN queue : queue[i].p # ptrans'
        /\ \A i \in DOMAIN recycled : recycled[i] # ptrans'
    BY <2>1 DEF PoolsInUse
  <2>3. have_idle_worker
    BY <1>1 DEF ReservationHeld, Reserved
  <2> USE DEF PoolInv
  <2>4. PoolHeldWhere'
    BY <1>1, <2>3, Zenon DEF PoolHeldWhere, Popping
  <2>5. PoolHeldOnce'
    BY <1>1, <2>2 DEF PoolHeldOnce
  <2>6. Going' = Going
    BY <1>1 DEF Going
  <2>7. PeekedIsTail' /\ RecycledAccount'
    BY <1>1, <2>6 DEF PeekedIsTail, RecycledAccount, Popping
  <2> QED
    BY <2>4, <2>5, <2>7
<1> QED
  BY <1>2, <1>3

\* ap_queue_push moves the pool from the listener to the queue.
LEMMA PushPool ==
    ASSUME TypeInv, PoolInv, ListenerPush
    PROVE  PoolInv'
<1> DEFINE e == [sd |-> csd, p |-> ptrans]
<1>1. /\ e \in [sd : Conn, p : Pool] /\ e.p = ptrans /\ ptrans # None
      /\ queue \in Seq([sd : Conn, p : Pool]) /\ queue' = Append(queue, e)
  BY DEF ListenerPush, ap_queue_push, TypeInv, TypeOK, HoldsWhatItPasses
<1>2. /\ UNCHANGED <<pool, recycled, pc, is_idle, idlers, peeked>> /\ ptrans' = None
      /\ listener = "push" /\ listener' = "top"
  BY DEF ListenerPush, workerVars
<1>3. /\ DOMAIN queue = 1 .. Len(queue) /\ Len(queue) \in Nat
      /\ DOMAIN queue' = 1 .. (Len(queue) + 1)
      /\ \A i \in DOMAIN queue : queue'[i] = queue[i]
      /\ queue'[Len(queue) + 1] = e
  BY <1>1, AppendFacts
<1> HIDE DEF e
<1> USE DEF PoolInv
<1>4. PoolHeldWhere'
  BY <1>2 DEF PoolHeldWhere
<1>5. PoolHeldOnce'
  <2>1. \A i, j \in DOMAIN queue' : queue'[i].p = queue'[j].p => i = j
    BY <1>1, <1>3 DEF PoolHeldOnce
  <2>2. \A w \in Worker : \A i \in DOMAIN queue' : queue'[i].p # pool'[w]
    BY <1>1, <1>2, <1>3 DEF PoolHeldOnce
  <2>3. \A i \in DOMAIN queue' : \A j \in DOMAIN recycled' : queue'[i].p # recycled'[j]
    BY <1>1, <1>2, <1>3 DEF PoolHeldOnce
  <2> QED
    BY <1>2, <2>1, <2>2, <2>3 DEF PoolHeldOnce
<1>6. Going' = Going
  BY <1>2 DEF Going
<1>7. PeekedIsTail' /\ RecycledAccount'
  BY <1>2, <1>6 DEF PeekedIsTail, RecycledAccount
<1> QED
  BY <1>4, <1>5, <1>7

\* A step of the listener keeps every pool in its place but those it takes, creates or pushes.
LEMMA ListenerPools ==
    ASSUME TypeInv, ReservationHeld, PoolInv, ListenerStep
    PROVE  PoolInv'
<1>1. CASE ListenerReserve
  BY <1>1, ReservePool
<1>2. CASE ListenerPeekPool
  BY <1>2, PeekPool
<1>3. CASE ListenerSwapPool
  BY <1>3, SwapTakesFirst
<1>4. CASE ListenerReady
  BY <1>4, CreatePool
<1>5. CASE ListenerPush
  BY <1>5, PushPool
<1>6. CASE ListenerIdlers
  <2>1. ptrans = None
    BY <1>6 DEF ListenerIdlers, ReservationHeld, PoolInv, PoolHeldWhere
  <2> QED
    BY <1>6, <2>1, PoolsStay DEF ListenerIdlers, poolVars, Popping, fdVars, workerVars
<1>7. CASE ListenerTop \/ ListenerBlock \/ ListenerLock \/ ListenerPoll \/ ListenerEnterPoll
           \/ ListenerEnterAccept \/ ListenerUnlock
           \/ ListenerQuit \/ ListenerTerm \/ ListenerInterrupt \/ ListenerKill
  <2>1. UNCHANGED <<pool, recycled, queue, ptrans, peeked, idlers, have_idle_worker, is_idle, pc>>
    BY <1>7 DEF ListenerTop, ListenerBlock, ListenerLock, ListenerPoll, ListenerEnterPoll,
       ListenerEnterAccept, ListenerUnlock,
       ListenerQuit, ListenerTerm, ListenerInterrupt, ListenerKill, fdVars, workerVars
  <2>2. listener \notin Popping /\ listener' \notin Popping
    BY <1>7 DEF ListenerTop, ListenerBlock, ListenerLock, ListenerPoll, ListenerEnterPoll,
       ListenerEnterAccept, ListenerUnlock,
       ListenerQuit, ListenerTerm, ListenerInterrupt, ListenerKill, AfterUnlock, Popping
  <2> QED
    BY <2>1, <2>2, PoolsStay DEF poolVars
<1> QED
  BY <1>1, <1>2, <1>3, <1>4, <1>5, <1>6, <1>7 DEF ListenerStep

\* What comes from outside moves no pool.
LEMMA EventPools ==
    ASSUME PoolInv, ListenerEvent
    PROVE  PoolInv'
<1>1. UNCHANGED <<pool, recycled, queue, ptrans, peeked, idlers, have_idle_worker, is_idle, pc>>
  BY DEF ListenerEvent, ListenerFails, ListenerPolled, ListenerAccept, ListenerLockFails,
     ListenerAcceptFails, ListenerUnlockFails, fdVars, workerVars
<1>2. listener \notin Popping /\ listener' \notin Popping
  BY DEF ListenerEvent, ListenerFails, ListenerPolled, ListenerAccept, ListenerLockFails,
     ListenerAcceptFails, ListenerUnlockFails, AfterUnlock, Popping
<1> QED
  BY <1>1, <1>2, PoolsStay DEF poolVars

\* A worker without a pool goes idle; the others leave the idle ones as they are.
LEMMA LoopPool ==
    ASSUME TypeInv, WorkersCountOnce, PoolInv, NEW w \in Worker, WorkerLoop(w)
    PROVE  PoolInv'
<1>1. UNCHANGED <<pool, recycled, queue, ptrans, peeked, idlers, have_idle_worker, is_idle, listener>>
  BY DEF WorkerLoop, fdVars, listenerVars
<1>2. /\ pc[w] = "loop" /\ DOMAIN pc = Worker
      /\ pc' = [pc EXCEPT ![w] = IF workers_may_exit THEN "exited"
                                  ELSE IF pool[w] = None THEN "idle" ELSE "recycle"]
  BY DEF WorkerLoop, Goto, TypeInv, TypeOK
<1>3. Cardinality(Going') \in Nat /\ Cardinality(Going) <= Cardinality(Going')
  <2>1. Going \subseteq Going' /\ Going' \subseteq Worker
    BY <1>2 DEF Going
  <2>2. IsFiniteSet(Going')
    BY <2>1, ChildAssumption, FS_Subset
  <2> QED
    BY <2>1, <2>2, FS_Subset, FS_CardinalityType
<1> USE DEF PoolInv
<1>4. PoolHeldWhere'
  BY <1>1, <1>2 DEF PoolHeldWhere
<1>5. PoolHeldOnce' /\ PeekedIsTail'
  BY <1>1 DEF PoolHeldOnce, PeekedIsTail
<1>6. RecycledAccount'
  BY <1>1, <1>3, GoingIsFinite DEF RecycledAccount, TypeInv, TypeOK
<1> QED
  BY <1>4, <1>5, <1>6

\* An element is added in front.
LEMMA ConsFacts ==
    ASSUME NEW S, NEW q \in Seq(S), NEW e \in S
    PROVE  /\ <<e>> \o q \in Seq(S) /\ Len(q) \in Nat /\ DOMAIN q = 1 .. Len(q)
           /\ Len(<<e>> \o q) = Len(q) + 1 /\ DOMAIN (<<e>> \o q) = 1 .. (Len(q) + 1)
           /\ (<<e>> \o q)[1] = e
           /\ \A i \in 1 .. Len(q) : (<<e>> \o q)[i + 1] = q[i]
OBVIOUS

\* ap_queue_info_set_idle puts the worker's pool in front of the list.
LEMMA RecycleFirst ==
    ASSUME TypeInv, WorkersCountOnce, PoolInv, NEW w \in Worker, WorkerRecycle(w)
    PROVE  PoolInv'
<1> DEFINE p == pool[w]
           n == Len(recycled)
<1>1. /\ UNCHANGED <<queue, ptrans, peeked, idlers, have_idle_worker, is_idle, listener>>
      /\ pc[w] = "recycle" /\ pc' = [pc EXCEPT ![w] = "idle"]
      /\ pool' = [pool EXCEPT ![w] = None] /\ recycled' = <<p>> \o recycled
  BY DEF WorkerRecycle, RecyclePool, Goto, listenerVars
<1>2. p \in Pool /\ p # None /\ recycled \in Seq(Pool) /\ DOMAIN pool = Worker /\ DOMAIN pc = Worker
  BY <1>1 DEF TypeInv, TypeOK, HoldsWhatItPasses
<1>3. /\ n \in Nat /\ DOMAIN recycled = 1 .. n
      /\ Len(recycled') = n + 1 /\ DOMAIN recycled' = 1 .. (n + 1)
      /\ recycled'[1] = p /\ \A i \in 1 .. n : recycled'[i + 1] = recycled[i]
  BY <1>1, <1>2, ConsFacts
<1>4. /\ pool'[w] = None /\ \A v \in Worker : v # w => pool'[v] = pool[v]
      /\ pc'[w] = "idle" /\ \A v \in Worker : v # w => pc'[v] = pc[v]
  BY <1>1, <1>2
<1> USE DEF PoolInv
<1>5. /\ \A v \in Worker : v # w => pool[v] # p
      /\ \A i \in DOMAIN queue : queue[i].p # p
      /\ \A i \in DOMAIN recycled : recycled[i] # p
      /\ ptrans # p
  BY <1>2 DEF PoolHeldOnce
<1>6. \A i \in DOMAIN recycled' :
         \/ i = 1 /\ recycled'[i] = p
         \/ i - 1 \in DOMAIN recycled /\ recycled'[i] = recycled[i - 1]
  <2> SUFFICES ASSUME NEW i \in 1 .. (n + 1), i # 1
               PROVE  i - 1 \in 1 .. n /\ recycled'[i] = recycled[i - 1]
    BY <1>3
  <2>1. i - 1 \in 1 .. n /\ (i - 1) + 1 = i
    BY <1>3
  <2> QED
    BY <1>3, <2>1
<1> HIDE DEF p
<1>7. PoolHeldWhere'
  BY <1>1, <1>4 DEF PoolHeldWhere
<1>8. PoolHeldOnce'
  <2>1. \A i, j \in DOMAIN recycled' : recycled'[i] = recycled'[j] => i = j
    <3> SUFFICES ASSUME NEW i \in 1 .. (n + 1), NEW j \in 1 .. (n + 1), recycled'[i] = recycled'[j]
                 PROVE  i = j
      BY <1>3
    <3>1. CASE i = 1 \/ j = 1
      BY <1>3, <1>5, <1>6, <3>1
    <3>2. CASE i # 1 /\ j # 1
      <4>1. i - 1 \in DOMAIN recycled /\ j - 1 \in DOMAIN recycled
            /\ recycled[i - 1] = recycled[j - 1]
        BY <1>3, <1>6, <3>2
      <4>2. i - 1 = j - 1
        BY <4>1 DEF PoolHeldOnce
      <4> QED
        BY <4>2
    <3> QED
      BY <3>1, <3>2
  <2>2. \A v \in Worker : \A i \in DOMAIN recycled' : recycled'[i] # pool'[v]
    <3>1. \A i \in DOMAIN recycled' : recycled'[i] # None
      BY <1>2, <1>3, <1>6, ElementOfSeq, ChildAssumption
    <3> QED
      BY <1>4, <1>5, <1>6, <3>1 DEF PoolHeldOnce
  <2>3. \A i \in DOMAIN queue' : \A j \in DOMAIN recycled' : queue'[i].p # recycled'[j]
    BY <1>1, <1>5, <1>6 DEF PoolHeldOnce
  <2>4. \A i \in DOMAIN queue' : \A v \in Worker : queue'[i].p # pool'[v]
    BY <1>1, <1>4, QueueElements, ChildAssumption DEF PoolHeldOnce
  <2>5. \A u, v \in Worker : pool'[u] = pool'[v] /\ pool'[u] # None => u = v
    BY <1>4 DEF PoolHeldOnce
  <2>6. ptrans' # None => /\ \A v \in Worker : pool'[v] # ptrans'
                          /\ \A i \in DOMAIN queue' : queue'[i].p # ptrans'
                          /\ \A i \in DOMAIN recycled' : recycled'[i] # ptrans'
    BY <1>1, <1>4, <1>5, <1>6 DEF PoolHeldOnce
  <2> QED
    BY <1>1, <2>1, <2>2, <2>3, <2>4, <2>5, <2>6 DEF PoolHeldOnce
<1>9. PeekedIsTail'
  <2> SUFFICES ASSUME listener = "swap"
               PROVE  /\ Len(peeked) <= n + 1
                      /\ \A i \in 1 .. Len(peeked) : recycled'[n + 1 - Len(peeked) + i] = peeked[i]
    BY <1>1, <1>3 DEF PeekedIsTail
  <2> DEFINE m == Len(peeked)
  <2>1. m \in Nat /\ m <= n /\ \A i \in 1 .. m : recycled[n - m + i] = peeked[i]
    BY DEF PeekedIsTail, TypeInv, TypeOK
  <2> HIDE DEF m, n
  <2>2. \A i \in 1 .. m : n - m + i \in 1 .. n /\ (n - m + i) + 1 = n + 1 - m + i
    BY <1>3, <2>1
  <2>3. \A i \in 1 .. m : recycled'[n + 1 - m + i] = peeked[i]
    BY <1>3, <2>1, <2>2
  <2> QED
    BY <1>3, <2>1, <2>3 DEF m, n
<1>10. RecycledAccount'
  <2>1. Going' = Going \cup {w} /\ w \notin Going
    BY <1>1, <1>4 DEF Going
  <2>2. Cardinality(Going') = Cardinality(Going) + 1
    BY <2>1, GoingIsFinite, FS_AddElement
  <2> QED
    BY <1>1, <1>3, <2>2, GoingIsFinite DEF RecycledAccount, TypeInv, TypeOK
<1> QED
  BY <1>7, <1>8, <1>9, <1>10

\* Going idle moves a worker from those about to be idle to those counted.
LEMMA IdlePool ==
    ASSUME TypeInv, WorkersCountOnce, PoolInv, NEW w \in Worker, WorkerIdle(w)
    PROVE  PoolInv'
<1>1. /\ UNCHANGED <<pool, recycled, queue, ptrans, peeked, have_idle_worker, listener>>
      /\ idlers' = idlers + 1 /\ idlers \in Nat
      /\ is_idle' = [is_idle EXCEPT ![w] = TRUE]
      /\ pc[w] = "idle" /\ pc' = [pc EXCEPT ![w] = IF idlers = 0 THEN "signal" ELSE "check"]
  BY DEF WorkerIdle, IncIdlers, Goto, listenerVars, TypeInv, TypeOK
<1>2. /\ \A v \in Worker : v # w => (is_idle'[v] <=> is_idle[v])
      /\ pc'[w] # "idle" /\ \A v \in Worker : v # w => pc'[v] = pc[v]
  BY <1>1 DEF TypeInv, TypeOK
<1> USE DEF PoolInv
<1>3. PoolHeldWhere'
  BY <1>1, <1>2, Zenon DEF PoolHeldWhere
<1>4. PoolHeldOnce' /\ PeekedIsTail'
  BY <1>1 DEF PoolHeldOnce, PeekedIsTail
<1>5. RecycledAccount'
  <2>1. Going' = Going \ {w} /\ w \in Going
    BY <1>1, <1>2 DEF Going
  <2>2. Cardinality(Going') = Cardinality(Going) - 1
    BY <2>1, GoingIsFinite, FS_RemoveElement
  <2> QED
    BY <1>1, <2>2, GoingIsFinite DEF RecycledAccount, TypeInv, TypeOK
<1> QED
  BY <1>3, <1>4, <1>5

\* ap_queue_pop moves the last pool from the queue to the worker, who has none.
LEMMA TakePool ==
    ASSUME TypeInv, WorkersCountOnce, PoolInv, NEW w \in Worker, WorkerTake(w)
    PROVE  PoolInv'
<1> DEFINE p == Popped.p
           n == Len(queue)
<1>1. /\ p \in Pool /\ p # None /\ p = queue[n].p
      /\ DOMAIN queue = 1 .. n /\ n \in Nat \ {0}
      /\ DOMAIN queue' = 1 .. (n - 1)
      /\ \A i \in DOMAIN queue' : queue'[i] = queue[i]
  BY PopFacts, ChildAssumption DEF WorkerTake
<1>2. /\ UNCHANGED <<recycled, ptrans, peeked, idlers, have_idle_worker, listener>>
      /\ pool' = [pool EXCEPT ![w] = p] /\ pc' = [pc EXCEPT ![w] = "popped"]
      /\ is_idle' = [is_idle EXCEPT ![w] = FALSE]
      /\ pc[w] \in {"pop", "wait"}
  BY DEF WorkerTake, listenerVars, otherVars, Goto
<1>3. DOMAIN pool = Worker /\ DOMAIN pc = Worker /\ DOMAIN is_idle = Worker
  BY DEF TypeInv, TypeOK
<1> HIDE DEF p, n
<1>4. /\ pool'[w] = p /\ \A v \in Worker : v # w => pool'[v] = pool[v]
      /\ pc'[w] = "popped" /\ \A v \in Worker : v # w => pc'[v] = pc[v]
  BY <1>2, <1>3
<1>5. ~is_idle'[w] /\ \A v \in Worker : v # w => (is_idle'[v] <=> is_idle[v])
  BY <1>2, <1>3
<1> USE DEF PoolInv
<1>6. PoolHeldWhere'
  BY <1>2, <1>4, <1>5, Zenon DEF PoolHeldWhere
<1>7. PoolHeldOnce'
  <2>1. /\ \A v \in Worker : pool[v] # p
        /\ \A i \in DOMAIN recycled : recycled[i] # p
        /\ ptrans # p
        /\ \A i \in DOMAIN queue' : i \in DOMAIN queue /\ queue'[i].p # p
    BY <1>1 DEF PoolHeldOnce
  <2>2. \A u, v \in Worker : pool'[u] = pool'[v] /\ pool'[u] # None => u = v
    BY <1>4, <2>1 DEF PoolHeldOnce
  <2>3. \A i, j \in DOMAIN queue' : queue'[i].p = queue'[j].p => i = j
    BY <1>1, <2>1 DEF PoolHeldOnce
  <2>4. \A v \in Worker : \A i \in DOMAIN queue' : queue'[i].p # pool'[v]
    BY <1>1, <1>4, <2>1 DEF PoolHeldOnce
  <2>5. \A v \in Worker : \A i \in DOMAIN recycled' : recycled'[i] # pool'[v]
    BY <1>2, <1>4, <2>1 DEF PoolHeldOnce
  <2>6. \A i \in DOMAIN queue' : \A j \in DOMAIN recycled' : queue'[i].p # recycled'[j]
    BY <1>1, <1>2, <2>1 DEF PoolHeldOnce
  <2>7. ptrans' # None => /\ \A v \in Worker : pool'[v] # ptrans'
                          /\ \A i \in DOMAIN queue' : queue'[i].p # ptrans'
                          /\ \A i \in DOMAIN recycled' : recycled'[i] # ptrans'
    BY <1>1, <1>2, <1>4, <2>1 DEF PoolHeldOnce
  <2> QED
    BY <1>2, <2>2, <2>3, <2>4, <2>5, <2>6, <2>7 DEF PoolHeldOnce
<1>8. PeekedIsTail' /\ RecycledAccount'
  <2>1. Going' = Going
    BY <1>2, <1>4 DEF Going
  <2> QED
    BY <1>2, <2>1 DEF PeekedIsTail, RecycledAccount
<1> QED
  BY <1>6, <1>7, <1>8

\* A worker moves pools when it gives its own back and when it takes an element.
LEMMA WorkerPools ==
    ASSUME TypeInv, WorkersCountOnce, PoolInv, NEW w \in Worker, WorkerStep(w)
    PROVE  PoolInv'
<1>1. CASE WorkerLoop(w)
  BY <1>1, LoopPool
<1>2. CASE WorkerRecycle(w)
  BY <1>2, RecycleFirst
<1>3. CASE WorkerIdle(w)
  BY <1>3, IdlePool
<1>4. CASE WorkerTake(w)
  BY <1>4, TakePool
<1>5. CASE ~(WorkerLoop(w) \/ WorkerRecycle(w) \/ WorkerIdle(w) \/ WorkerTake(w))
  <2>1. UNCHANGED poolVars /\ UNCHANGED listener
    BY <1>5 DEF WorkerStep, WorkerSignal, WorkerCheck, WorkerBlock, WorkerFindsNothing,
       WorkerPopStatus, WorkerRegister, WorkerServed, WorkerLoad, WorkerStore, poolVars,
       fdVars, listenerVars
  <2>2. \A v \in Worker : pc'[v] = "idle" <=> pc[v] = "idle"
    BY <1>5 DEF WorkerStep, WorkerSignal, WorkerCheck, WorkerBlock, WorkerFindsNothing,
       WorkerPopStatus, WorkerRegister, WorkerServed, WorkerLoad, WorkerStore, Goto, TypeInv,
       TypeOK
  <2> QED
    BY <2>1, <2>2, PoolsStay
<1> QED
  BY <1>1, <1>2, <1>3, <1>4, <1>5

\* The main thread moves no pool.
LEMMA MainPools ==
    ASSUME PoolInv, MainEvent
    PROVE  PoolInv'
<1>1. UNCHANGED <<pool, recycled, queue, ptrans, peeked, idlers, have_idle_worker, is_idle, pc>>
  BY DEF MainEvent, MainStep, MainBlock, MainRead, MainInterrupted, MainSignalThreads,
     MainWorkersMayExit, MainInterruptAll, MainInfoTerm, close_worker_sockets,
     MainWakeListener, MainJoinListener, MainExit, StraySigterm, WakeupListener,
     ap_queue_info_term, fdVars, listenerVars, workerVars
<1>2. listener' = listener \/ (listener \notin Popping /\ listener' \notin Popping)
  BY DEF MainEvent, MainStep, MainBlock, MainRead, MainInterrupted, MainSignalThreads,
     MainWorkersMayExit, MainInterruptAll, MainInfoTerm, close_worker_sockets,
     MainWakeListener, MainJoinListener, MainExit, StraySigterm, WakeupListener,
     listenerVars, Popping
<1> QED
  BY <1>1, <1>2, PoolsStay DEF poolVars

\* No step of any thread puts a pool in two places.
LEMMA PoolStep ==
    ASSUME TypeInv, ReservationHeld, WorkersCountOnce, PoolInv, [Next]_vars
    PROVE  PoolInv'
<1>1. CASE UNCHANGED vars
  BY <1>1, PoolsStay DEF vars, poolVars, fdVars, listenerVars, workerVars
<1>2. CASE StrayStep
  BY <1>2, StrayChanges, PoolsStay DEF poolVars, listenerVars, workerVars
<1> QED
  BY <1>1, <1>2, StepCases, StartPools, ListenerPools, EventPools, WorkerPools, MainPools

\* At the start there is no pool.
LEMMA PoolInit ==
    ASSUME Init
    PROVE  PoolInv
<1> USE DEF Init, FdInit, PoolInv
<1>1. PoolHeldWhere /\ PoolHeldOnce
  BY DEF PoolHeldWhere, PoolHeldOnce
<1>2. PeekedIsTail
  BY DEF PeekedIsTail
<1>3. RecycledAccount
  BY GoingIsFinite DEF RecycledAccount
<1> QED
  BY <1>1, <1>2, <1>3

\* A function has no more values than arguments.
LEMMA ImageSize ==
    ASSUME NEW S, IsFiniteSet(S), NEW f, DOMAIN f = S
    PROVE  /\ IsFiniteSet({f[x] : x \in S})
           /\ Cardinality({f[x] : x \in S}) \in Nat
           /\ Cardinality({f[x] : x \in S}) <= Cardinality(S)
<1> DEFINE T == {f[x] : x \in S}
           g == [x \in S |-> f[x]]
<1>1. g \in Surjection(S, T)
  BY DEF Surjection
<1> QED
  BY <1>1, FS_Surjection, FS_CardinalityType

\* Two finite sets have together no more elements than each for itself.
LEMMA UnionSize ==
    ASSUME NEW S, IsFiniteSet(S), NEW T, IsFiniteSet(T)
    PROVE  /\ IsFiniteSet(S \cup T)
           /\ Cardinality(S \cup T) \in Nat
           /\ Cardinality(S \cup T) <= Cardinality(S) + Cardinality(T)
           /\ S \cap T = {} => Cardinality(S \cup T) = Cardinality(S) + Cardinality(T)
<1>1. IsFiniteSet(S \cap T) /\ Cardinality(S \cap T) \in Nat
  BY FS_Subset, FS_CardinalityType
<1>2. S \cap T = {} => Cardinality(S \cap T) = 0
  BY FS_EmptySet
<1>3. Cardinality(S) \in Nat /\ Cardinality(T) \in Nat
  BY FS_CardinalityType
<1>4. /\ IsFiniteSet(S \cup T)
      /\ Cardinality(S \cup T) = Cardinality(S) + Cardinality(T) - Cardinality(S \cap T)
  BY FS_Union
<1>5. Cardinality(S \cup T) \in Nat
  BY <1>4, FS_CardinalityType
<1> QED
  BY <1>1, <1>2, <1>3, <1>4, <1>5

\* The positions of a sequence of length n.
LEMMA PositionsSize ==
    ASSUME NEW n \in Nat
    PROVE  IsFiniteSet(1 .. n) /\ Cardinality(1 .. n) = n
<1>1. IsFiniteSet(1 .. n) /\ Cardinality(1 .. n) = IF 1 > n THEN 0 ELSE n - 1 + 1
  BY FS_Interval
<1> QED
  BY <1>1

\* The workers that have a pool.
Owners == {w \in Worker : pool[w] # None}

\* A worker has a pool, or is about to be idle, or is idle: never two of them.
LEMMA WorkersApart ==
    ASSUME TypeInv, WorkersCountOnce, PoolInv
    PROVE  Cardinality(Owners) + Cardinality(Going) + Cardinality(Idle) <= Cardinality(Worker)
<1>1. Owners \subseteq Worker /\ Going \subseteq Worker /\ Idle \subseteq Worker
  BY DEF Owners, Going, Idle
<1>2. IsFiniteSet(Owners) /\ IsFiniteSet(Going) /\ IsFiniteSet(Idle)
  BY <1>1, ChildAssumption, FS_Subset
<1>3. Owners \cap Going = {} /\ (Owners \cup Going) \cap Idle = {}
  BY DEF Owners, Going, Idle, PoolInv, PoolHeldWhere, WorkersCountOnce, BusyPlace
<1>4. (Owners \cup Going) \cup Idle \subseteq Worker
  BY <1>1
<1>5. Cardinality((Owners \cup Going) \cup Idle) <= Cardinality(Worker)
  BY <1>4, ChildAssumption, FS_Subset
<1>6. /\ IsFiniteSet(Owners \cup Going)
      /\ Cardinality(Owners \cup Going) = Cardinality(Owners) + Cardinality(Going)
  BY <1>2, <1>3, UnionSize
<1>7. Cardinality((Owners \cup Going) \cup Idle) = Cardinality(Owners \cup Going) + Cardinality(Idle)
  BY <1>2, <1>3, <1>6, UnionSize
<1> QED
  BY <1>5, <1>6, <1>7

\* There is never more than one pool per worker.
LEMMA PoolsBounded ==
    ASSUME TypeInv, AccountInv, PoolInv
    PROVE  Cardinality(PoolsInUse \ {None}) <= bounds
<1> DEFINE L == {ptrans} \ {None}
           B == {pool[w] : w \in Owners}
           R == {recycled[i] : i \in DOMAIN recycled}
           Q == {queue[i].p : i \in DOMAIN queue}
           q == [i \in DOMAIN queue |-> queue[i].p]
<1>1. /\ DOMAIN recycled = 1 .. Len(recycled) /\ Len(recycled) \in Nat
      /\ DOMAIN queue = 1 .. Len(queue) /\ Len(queue) \in Nat /\ idlers \in Nat
  BY DEF TypeInv, TypeOK
<1>2. IsFiniteSet(R) /\ Cardinality(R) \in Nat /\ Cardinality(R) <= Len(recycled)
  <2>1. IsFiniteSet(DOMAIN recycled) /\ Cardinality(DOMAIN recycled) = Len(recycled)
    BY <1>1, PositionsSize
  <2> QED
    BY <1>1, <2>1, ImageSize
<1>3. IsFiniteSet(Q) /\ Cardinality(Q) \in Nat /\ Cardinality(Q) <= Len(queue)
  <2>1. Q = {q[i] : i \in DOMAIN queue}
    OBVIOUS
  <2>2. IsFiniteSet(DOMAIN queue) /\ Cardinality(DOMAIN queue) = Len(queue) /\ DOMAIN q = DOMAIN queue
    BY <1>1, PositionsSize
  <2>3. /\ IsFiniteSet({q[i] : i \in DOMAIN queue})
        /\ Cardinality({q[i] : i \in DOMAIN queue}) \in Nat
        /\ Cardinality({q[i] : i \in DOMAIN queue}) <= Cardinality(DOMAIN queue)
    <3> HIDE DEF q
    <3> QED
      BY <2>2, ImageSize
  <2> QED
    BY <2>1, <2>2, <2>3
<1>4. IsFiniteSet(B) /\ Cardinality(B) \in Nat /\ Cardinality(B) <= Cardinality(Owners)
  <2> DEFINE f == [w \in Owners |-> pool[w]]
  <2>1. B = {f[w] : w \in Owners}
    OBVIOUS
  <2>2. IsFiniteSet(Owners) /\ DOMAIN f = Owners
    BY ChildAssumption, FS_Subset DEF Owners
  <2> HIDE DEF f
  <2> QED
    BY <2>1, <2>2, ImageSize
<1>5. IsFiniteSet(L) /\ Cardinality(L) = IF ptrans = None THEN 0 ELSE 1
  <2>1. L = IF ptrans = None THEN {} ELSE {ptrans}
    OBVIOUS
  <2> HIDE DEF L
  <2> QED
    BY <2>1, FS_EmptySet, FS_Singleton
<1>6. PoolsInUse \ {None} \subseteq ((L \cup B) \cup R) \cup Q
  BY DEF PoolsInUse, Owners
<1> HIDE DEF L, B, R, Q
<1>7. /\ IsFiniteSet(((L \cup B) \cup R) \cup Q)
      /\ Cardinality(((L \cup B) \cup R) \cup Q)
            <= Cardinality(L) + Cardinality(B) + Cardinality(R) + Cardinality(Q)
  <2>1. /\ IsFiniteSet(L \cup B) /\ Cardinality(L \cup B) \in Nat
        /\ Cardinality(L \cup B) <= Cardinality(L) + Cardinality(B)
    BY <1>4, <1>5, UnionSize
  <2>2. /\ IsFiniteSet((L \cup B) \cup R) /\ Cardinality((L \cup B) \cup R) \in Nat
        /\ Cardinality((L \cup B) \cup R) <= Cardinality(L \cup B) + Cardinality(R)
    BY <1>2, <2>1, UnionSize
  <2>3. /\ IsFiniteSet(((L \cup B) \cup R) \cup Q)
        /\ Cardinality(((L \cup B) \cup R) \cup Q) \in Nat
        /\ Cardinality(((L \cup B) \cup R) \cup Q) <= Cardinality((L \cup B) \cup R) + Cardinality(Q)
    BY <1>3, <2>2, UnionSize
  <2> QED
    BY <1>2, <1>3, <1>4, <1>5, <2>1, <2>2, <2>3
<1>8. /\ Cardinality(PoolsInUse \ {None}) \in Nat
      /\ Cardinality(PoolsInUse \ {None}) <= Cardinality(((L \cup B) \cup R) \cup Q)
  BY <1>6, <1>7, FS_Subset, FS_CardinalityType
<1>9. (IF ptrans = None THEN 0 ELSE 1) + (IF listener \in Popping THEN 1 ELSE 0)
         <= IF have_idle_worker THEN 1 ELSE 0
  <2>1. ptrans # None => have_idle_worker /\ listener \notin Popping
    BY DEF PoolInv, PoolHeldWhere, Popping
  <2>2. listener \in Popping => have_idle_worker
    BY DEF AccountInv, ReservationHeld, Reserved, Popping
  <2> QED
    BY <2>1, <2>2
<1>10. Len(recycled) <= idlers + Cardinality(Going) + (IF listener \in Popping THEN 1 ELSE 0)
  BY DEF PoolInv, RecycledAccount, Popping
<1>11. idlers + (IF have_idle_worker THEN 1 ELSE 0) + Len(queue) = Cardinality(Idle)
  BY DEF AccountInv, IdleAccount, Idle
<1>12. Cardinality(Owners) + Cardinality(Going) + Cardinality(Idle) <= Cardinality(Worker)
  BY WorkersApart DEF AccountInv
<1>13. /\ Cardinality(Owners) \in Nat /\ Cardinality(Idle) \in Nat
       /\ Cardinality(Worker) \in Nat /\ Cardinality(Going) \in Nat
  BY ChildAssumption, FS_Subset, FS_CardinalityType, IdleIsFinite, GoingIsFinite DEF Owners
<1>14. Cardinality(PoolsInUse \ {None})
          <= (IF ptrans = None THEN 0 ELSE 1) + Cardinality(Owners) + Len(recycled) + Len(queue)
  <2>1. Cardinality(((L \cup B) \cup R) \cup Q) \in Nat
    BY <1>7, FS_CardinalityType
  <2> QED
    BY <1>1, <1>2, <1>3, <1>4, <1>5, <1>7, <1>8, <1>13, <2>1
<1>15. (IF ptrans = None THEN 0 ELSE 1) + Cardinality(Owners) + Len(recycled) + Len(queue)
          <= Cardinality(Worker)
  BY <1>1, <1>9, <1>10, <1>11, <1>12, <1>13
<1> QED
  BY <1>1, <1>8, <1>13, <1>14, <1>15 DEF bounds

(***************************************************************************)
(* A transaction pool is in one place, and a child never has more pools    *)
(* than workers: the compare-and-swap loops on recycled_pools neither      *)
(* duplicate a pool nor let the listener create one too many.              *)
(***************************************************************************)
THEOREM PoolsStayExclusive == Spec => []PoolsExclusive
<1>1. TypeInv /\ AccountInv /\ PoolInv => PoolsExclusive
  <2> SUFFICES ASSUME TypeInv, AccountInv, PoolInv, NEW p \in Pool
               PROVE  Cardinality({w \in Worker : pool[w] = p})
                        + Cardinality({i \in DOMAIN recycled : recycled[i] = p})
                        + Cardinality({i \in DOMAIN queue : queue[i].p = p})
                        + (IF ptrans = p THEN 1 ELSE 0) <= 1
    BY PoolsBounded DEF PoolsExclusive
  <2> DEFINE W == {w \in Worker : pool[w] = p}
             R == {i \in DOMAIN recycled : recycled[i] = p}
             Q == {i \in DOMAIN queue : queue[i].p = p}
  <2> USE DEF PoolInv
  <2>1. p # None
    BY ChildAssumption
  <2>2. Cardinality(W) = IF W = {} THEN 0 ELSE 1
    <3>1. \A v, w \in W : v = w
      BY <2>1 DEF PoolHeldOnce
    <3> QED
      BY <3>1, AtMostOne
  <2>3. Cardinality(R) = IF R = {} THEN 0 ELSE 1
    <3>1. \A i, j \in R : i = j
      BY DEF PoolHeldOnce
    <3> QED
      BY <3>1, AtMostOne
  <2>4. Cardinality(Q) = IF Q = {} THEN 0 ELSE 1
    <3>1. \A i, j \in Q : i = j
      BY DEF PoolHeldOnce
    <3> QED
      BY <3>1, AtMostOne
  <2>5. /\ W = {} \/ (R = {} /\ Q = {})
        /\ R = {} \/ Q = {}
        /\ ptrans = p => W = {} /\ R = {} /\ Q = {}
    BY <2>1 DEF PoolHeldOnce
  <2> HIDE DEF W, R, Q
  <2>6. Cardinality(W) + Cardinality(R) + Cardinality(Q) + (IF ptrans = p THEN 1 ELSE 0) <= 1
    BY <2>2, <2>3, <2>4, <2>5
  <2> QED
    BY <2>6 DEF W, R, Q
<1> QED
  BY <1>1, InvInductive, PoolInit, PoolStep, PTL DEF Spec, AccountInv

\* What is in use, place by place.
LEMMA InUseWhere ==
    ASSUME NEW p
    PROVE  p \in PoolsInUse <=>
              \/ ptrans = p
              \/ \E w \in Worker : pool[w] = p
              \/ \E i \in DOMAIN recycled : recycled[i] = p
              \/ \E i \in DOMAIN queue : queue[i].p = p
<1> DEFINE P == {pool[w] : w \in Worker}
           R == {recycled[i] : i \in DOMAIN recycled}
           Q == {queue[i].p : i \in DOMAIN queue}
<1>1. p \in P <=> \E w \in Worker : pool[w] = p
  OBVIOUS
<1>2. p \in R <=> \E i \in DOMAIN recycled : recycled[i] = p
  OBVIOUS
<1>3. p \in Q <=> \E i \in DOMAIN queue : queue[i].p = p
  OBVIOUS
<1>4. PoolsInUse = {ptrans} \cup P \cup R \cup Q
  BY DEF PoolsInUse
<1> HIDE DEF P, R, Q
<1>5. p \in PoolsInUse <=> p = ptrans \/ p \in P \/ p \in R \/ p \in Q
  BY <1>4
<1> QED
  BY <1>1, <1>2, <1>3, <1>5

\* Every step finds a place for every pool.
LEMMA PoolsKept ==
    ASSUME TypeInv, ReservationHeld, WorkersCountOnce, PoolInv, Next,
           NEW p \in PoolsInUse, p # None
    PROVE  p \in PoolsInUse'
<1> DEFINE InUseThen == \/ ptrans' = p
                        \/ \E w \in Worker : pool'[w] = p
                        \/ \E i \in DOMAIN recycled' : recycled'[i] = p
                        \/ \E i \in DOMAIN queue' : queue'[i].p = p
<1> SUFFICES InUseThen
  BY DEF PoolsInUse
<1>1. \/ ptrans = p
      \/ \E w \in Worker : pool[w] = p
      \/ \E i \in DOMAIN recycled : recycled[i] = p
      \/ \E i \in DOMAIN queue : queue[i].p = p
  BY InUseWhere
<1>2. ASSUME UNCHANGED <<ptrans, pool, recycled, queue>>
      PROVE  InUseThen
  BY <1>1, <1>2
<1>3. CASE ListenerIdlers
  <2>1. ptrans = None /\ UNCHANGED <<pool, recycled, queue>>
    BY <1>3 DEF ListenerIdlers, ReservationHeld, PoolInv, PoolHeldWhere, fdVars, workerVars
  <2> QED
    BY <1>1, <2>1
<1>4. CASE ListenerReady
  BY <1>1, <1>4 DEF ListenerReady, fdVars, workerVars
<1>5. CASE ListenerSwapPool
  <2>1. ptrans = None /\ UNCHANGED <<pool, queue>>
    BY <1>5 DEF ListenerSwapPool, PoolInv, PoolHeldWhere, workerVars
  <2>2. CASE Head(recycled) # Head(peeked)
    BY <1>2, <1>5, <2>1, <2>2 DEF ListenerSwapPool
  <2>3. CASE Head(recycled) = Head(peeked)
    <3>1. /\ recycled # <<>> /\ recycled' = Tail(recycled) /\ ptrans' = Head(recycled)
          /\ recycled \in Seq(Pool)
      BY <1>5, <2>3, SwapIsExact DEF ListenerSwapPool, SwapPool, TypeInv, TypeOK
    <3> DEFINE n == Len(recycled)
    <3>2. /\ ptrans' = recycled[1] /\ n \in Nat \ {0} /\ DOMAIN recycled = 1 .. n
          /\ DOMAIN recycled' = 1 .. (n - 1)
          /\ \A i \in 1 .. (n - 1) : recycled'[i] = recycled[i + 1]
      BY <3>1, TailFacts
    <3> HIDE DEF n
    <3>3. \A i \in 1 .. n : i = 1 \/ (i - 1 \in 1 .. (n - 1) /\ recycled'[i - 1] = recycled[i])
      <4> SUFFICES ASSUME NEW i \in 1 .. n, i # 1
                   PROVE  i - 1 \in 1 .. (n - 1) /\ recycled'[i - 1] = recycled[i]
        OBVIOUS
      <4>1. i - 1 \in 1 .. (n - 1) /\ (i - 1) + 1 = i
        BY <3>2
      <4> QED
        BY <3>2, <4>1
    <3> QED
      BY <1>1, <2>1, <3>2, <3>3
  <2> QED
    BY <2>2, <2>3
<1>6. CASE ListenerPush
  <2> DEFINE e == [sd |-> csd, p |-> ptrans]
  <2>1. /\ e \in [sd : Conn, p : Pool] /\ e.p = ptrans
        /\ queue \in Seq([sd : Conn, p : Pool]) /\ queue' = Append(queue, e)
        /\ UNCHANGED <<pool, recycled>>
    BY <1>6 DEF ListenerPush, ap_queue_push, TypeInv, TypeOK, HoldsWhatItPasses, workerVars
  <2>2. /\ DOMAIN queue = 1 .. Len(queue) /\ Len(queue) \in Nat
        /\ DOMAIN queue' = 1 .. (Len(queue) + 1)
        /\ \A i \in DOMAIN queue : queue'[i] = queue[i]
        /\ queue'[Len(queue) + 1] = e
    BY <2>1, AppendFacts
  <2> HIDE DEF e
  <2> QED
    BY <1>1, <2>1, <2>2
<1>7. ASSUME NEW w \in Worker, WorkerRecycle(w)
      PROVE  InUseThen
  <2>1. /\ UNCHANGED <<queue, ptrans>> /\ pc[w] = "recycle"
        /\ pool' = [pool EXCEPT ![w] = None] /\ recycled' = <<pool[w]>> \o recycled
    BY <1>7 DEF WorkerRecycle, RecyclePool, listenerVars
  <2>2. pool[w] \in Pool /\ recycled \in Seq(Pool) /\ DOMAIN pool = Worker
    BY <2>1 DEF TypeInv, TypeOK, HoldsWhatItPasses
  <2>3. /\ Len(recycled) \in Nat /\ DOMAIN recycled = 1 .. Len(recycled)
        /\ DOMAIN recycled' = 1 .. (Len(recycled) + 1)
        /\ recycled'[1] = pool[w]
        /\ \A i \in 1 .. Len(recycled) : recycled'[i + 1] = recycled[i]
    BY <2>1, <2>2, ConsFacts
  <2>4. \A v \in Worker : v # w => pool'[v] = pool[v]
    BY <2>1, <2>2
  <2>5. /\ 1 \in DOMAIN recycled'
        /\ \A i \in DOMAIN recycled : i + 1 \in DOMAIN recycled' /\ recycled'[i + 1] = recycled[i]
    BY <2>3
  <2>6. CASE \E i \in DOMAIN recycled : recycled[i] = p
    BY <2>5, <2>6
  <2>7. CASE \E v \in Worker : pool[v] = p
    BY <2>3, <2>4, <2>5, <2>7
  <2> QED
    BY <1>1, <2>1, <2>6, <2>7
<1>8. ASSUME NEW w \in Worker, WorkerTake(w)
      PROVE  InUseThen
  <2>1. /\ Popped = queue[Len(queue)] /\ DOMAIN queue = 1 .. Len(queue)
        /\ Len(queue) \in Nat \ {0} /\ DOMAIN queue' = 1 .. (Len(queue) - 1)
        /\ \A i \in DOMAIN queue' : queue'[i] = queue[i]
    BY <1>8, PopFacts DEF WorkerTake
  <2>2. pool[w] = None
    BY <1>8 DEF WorkerTake, WorkersCountOnce, IdlePlace, PoolInv, PoolHeldWhere
  <2>3. /\ UNCHANGED <<recycled, ptrans>> /\ pool'[w] = Popped.p
        /\ \A v \in Worker : v # w => pool'[v] = pool[v]
    BY <1>8 DEF WorkerTake, listenerVars, TypeInv, TypeOK
  <2>4. \A i \in DOMAIN queue : i = Len(queue) \/ i \in DOMAIN queue'
    BY <2>1
  <2> QED
    BY <1>1, <2>1, <2>2, <2>3, <2>4
<1>9. ASSUME ~(ListenerIdlers \/ ListenerReady \/ ListenerSwapPool \/ ListenerPush), ListenerStep
      PROVE  UNCHANGED <<ptrans, pool, recycled, queue>>
  BY <1>9 DEF ListenerStep, ListenerTop, ListenerBlock, ListenerReserve, ListenerPeekPool,
     ListenerLock, ListenerPoll, ListenerEnterPoll, ListenerEnterAccept, ListenerUnlock,
     ListenerQuit, ListenerTerm,
     ListenerInterrupt, ListenerKill, fdVars, workerVars
<1>10. ASSUME NEW w \in Worker, WorkerStep(w), ~WorkerRecycle(w), ~WorkerTake(w)
       PROVE  UNCHANGED <<ptrans, pool, recycled, queue>>
  BY <1>10 DEF WorkerStep, WorkerLoop, WorkerIdle, WorkerSignal, WorkerCheck, WorkerBlock,
     WorkerFindsNothing, WorkerPopStatus, WorkerRegister, WorkerServed, WorkerLoad,
     WorkerStore, fdVars, listenerVars
<1>11. StartStep \/ ListenerEvent \/ MainEvent \/ StrayStep \/ UNCHANGED vars
          => UNCHANGED <<ptrans, pool, recycled, queue>>
  <2>1. StartStep => UNCHANGED <<ptrans, pool, recycled, queue>>
    BY DEF StartStep, StartWorker, StartListener, StartEnd, StartFails, fdVars,
       listenerVars, workerVars
  <2>2. ListenerEvent => UNCHANGED <<ptrans, pool, recycled, queue>>
    BY DEF ListenerEvent, ListenerFails, ListenerPolled, ListenerAccept, ListenerLockFails,
       ListenerAcceptFails, ListenerUnlockFails, fdVars, workerVars
  <2>3. MainEvent => UNCHANGED <<ptrans, pool, recycled, queue>>
    BY DEF MainEvent, MainStep, MainBlock, MainRead, MainInterrupted, MainSignalThreads,
       MainWorkersMayExit, MainInterruptAll, MainInfoTerm, close_worker_sockets,
       MainWakeListener, MainJoinListener, MainExit, StraySigterm, WakeupListener, fdVars,
       listenerVars, workerVars
  <2>4. StrayStep \/ UNCHANGED vars => UNCHANGED <<ptrans, pool, recycled, queue>>
    BY StrayChanges DEF vars, fdVars, listenerVars, workerVars
  <2> QED
    BY <2>1, <2>2, <2>3, <2>4
<1> HIDE DEF InUseThen
<1> QED
  BY <1>2, <1>3, <1>4, <1>5, <1>6, <1>7, <1>8, <1>9, <1>10, <1>11, StepCases

(***************************************************************************)
(* No pool disappears: what the listener reads of recycled_pools before    *)
(* the swap may be out of date, but then the swap is tried again.          *)
(***************************************************************************)
THEOREM PoolsAreNeverLost == Spec => PoolsNeverLost
<1>1. TypeInv /\ AccountInv /\ PoolInv /\ [Next]_vars =>
        [PoolsInUse \ {None} \subseteq PoolsInUse']_vars
  BY PoolsKept DEF AccountInv
<1> QED
  BY <1>1, InvInductive, PoolInit, PoolStep, PTL DEF Spec, AccountInv, PoolsNeverLost

-----------------------------------------------------------------------------
(* The promise of ConnectionService.                                        *)

\* Attended only depends on these.
attendVars == <<workers_may_exit, created, terminated, queue, pc, notEmpty, stray, overlooked>>

\* Nothing that bears on it changes.
LEMMA AttendedStays ==
    ASSUME Attended, UNCHANGED attendVars
    PROVE  Attended'
BY DEF Attended, Attentive, Woken, attendVars

\* Workers that nobody woke stay where they are, and are not put to sleep again.
LEMMA StrayStays ==
    ASSUME StrayHere, created \subseteq created', stray' \subseteq stray,
           \A v \in stray : pc'[v] = pc[v] /\ (v \in notEmpty' => v \in notEmpty)
    PROVE  StrayHere'
BY DEF StrayHere, Woken

\* A step that moves no worker and lets none fall asleep.
LEMMA StraySleeps ==
    ASSUME StrayHere, UNCHANGED <<created, stray, pc>>, notEmpty' \subseteq notEmpty
    PROVE  StrayHere'
BY DEF StrayHere, Woken

\* The thread that starts the others adds workers that are attentive.
LEMMA StartAttended ==
    ASSUME TypeInv, StopInv, WorkersCountOnce, StartStep
    PROVE  StopInv'
<1> USE DEF StopInv
<1>1. CASE \E w \in Worker : StartWorker(w)
  <2>1. PICK w \in Worker : StartWorker(w)
    BY <1>1
  <2>2. /\ created' = created \cup {w} /\ pc'[w] = "loop"
        /\ UNCHANGED <<main, workers_may_exit, listener, terminated>>
    BY <2>1 DEF StartWorker, TypeInv, TypeOK, mainVars, flagVars, listenerVars, fdVars
  <2>3. w \in created' /\ Attentive(w)'
    BY <2>2 DEF Attentive, Woken
  <2>4. Attended'
    BY <2>3, Zenon DEF Attended
  <2>5. UNCHANGED <<stray, notEmpty>> /\ \A v \in created : pc'[v] = pc[v]
    BY <2>1 DEF StartWorker, fdVars, otherVars, TypeInv, TypeOK
  <2>6. StrayHere'
    BY <2>2, <2>5, StrayStays DEF StrayHere
  <2> QED
    BY <2>2, <2>3, <2>4, <2>6, Zenon
<1>2. CASE StartListener
  BY <1>2, AttendedStays, StraySleeps DEF StartListener, attendVars, startVars, fdVars,
     mainVars, workerVars, flagVars, otherVars
<1>3. CASE StartEnd \/ StartFails
  BY <1>3, AttendedStays, StraySleeps DEF StartEnd, StartFails, attendVars, startVars, fdVars,
     mainVars, workerVars, flagVars, listenerVars, otherVars
<1> QED
  BY <1>1, <1>2, <1>3 DEF StartStep

\* A push wakes at most one worker, and then there is an element for it.
LEMMA PushAttended ==
    ASSUME TypeInv, StopInv, ReservationHeld, ListenerPush
    PROVE  Attended'
<1>0. queue' # <<>>
  <2>1. queue \in Seq([sd : Conn, p : Pool]) /\ [sd |-> csd, p |-> ptrans] \in [sd : Conn, p : Pool]
    BY DEF ListenerPush, TypeInv, TypeOK, HoldsWhatItPasses
  <2>2. Len(queue') = Len(queue) + 1 /\ Len(queue) \in Nat
    BY <2>1 DEF ListenerPush, ap_queue_push
  <2> QED
    BY <2>2
<1>1. /\ UNCHANGED <<workers_may_exit, created, pc, terminated, stray, overlooked>>
      /\ SignalNotEmpty /\ ~terminated
  BY DEF ListenerPush, ap_queue_push, flagVars, startVars, workerVars, otherVars,
     ReservationHeld
<1> SUFFICES ASSUME ~workers_may_exit, created # {}, stray = {}, ~overlooked
             PROVE  (\E w \in created : Attentive(w)') \/ (\E w \in created : Woken(w)')
  BY <1>0, <1>1, Zenon DEF Attended
<1>2. (\E w \in created : Attentive(w)) \/ (\E w \in created : Woken(w))
  BY <1>1, Zenon DEF StopInv, Attended
<1>3. notEmpty' \subseteq notEmpty
  BY <1>1 DEF SignalNotEmpty
<1>4. \A w \in created : Woken(w) => Woken(w)'
  BY <1>1, <1>3 DEF Woken
<1>5. \A w \in created : Attentive(w) => Attentive(w)' \/ Woken(w)'
  BY <1>1 DEF Attentive, Woken
<1> QED
  BY <1>2, <1>4, <1>5

\* When the listener wakes everyone, what is left in the queue is there for them.
LEMMA InterruptAttended ==
    ASSUME TypeInv, StopInv, UNCHANGED <<workers_may_exit, created, pc, terminated, queue>>,
           UNCHANGED <<stray, overlooked>>,
           ap_queue_interrupt_all, terminated \/ workers_may_exit
    PROVE  Attended'
<1> SUFFICES ASSUME ~workers_may_exit, created # {}, queue # <<>>, stray = {}, ~overlooked
             PROVE  (\E w \in created : Attentive(w)') \/ (\E w \in created : Woken(w)')
  BY Zenon DEF Attended
<1>1. (\E w \in created : Attentive(w)) \/ (\E w \in created : Woken(w))
  BY Zenon DEF StopInv, Attended
<1>2. \A w \in created : Woken(w) => Woken(w)'
  BY DEF Woken, ap_queue_interrupt_all
<1>3. \A w \in created : Attentive(w) => Attentive(w)' \/ Woken(w)'
  BY DEF Attentive, Woken, ap_queue_interrupt_all
<1> QED
  BY <1>1, <1>2, <1>3

\* What the listener does leaves some worker to look at the queue.
LEMMA ListenerAttended ==
    ASSUME TypeInv, StopInv, ReservationHeld, ListenerStep
    PROVE  StopInv'
<1>1. UNCHANGED <<created, workers_may_exit>> /\ listener # "unborn"
      /\ (main' = main \/ main' = "eintr")
  BY DEF ListenerStep, ListenerTop, ListenerIdlers, ListenerBlock, ListenerReserve,
     ListenerPeekPool, ListenerSwapPool, ListenerLock, ListenerPoll, ListenerEnterPoll,
     ListenerReady, ListenerEnterAccept,
     ListenerUnlock, ListenerPush, ListenerQuit, ListenerTerm, ListenerInterrupt,
     ListenerKill, InterruptMain, SignalGraceful, mainVars, startVars, flagVars
<1>2. ASSUME ListenerPush PROVE Attended'
  BY <1>2, PushAttended
<1>3. ASSUME ListenerInterrupt PROVE Attended'
  <2>1. /\ terminated /\ ap_queue_interrupt_all
        /\ UNCHANGED <<workers_may_exit, created, pc, terminated, queue, stray, overlooked>>
    BY <1>3 DEF ListenerInterrupt, StopInv, flagVars, startVars, workerVars, otherVars
  <2> QED
    BY <2>1, InterruptAttended
<1>4. ASSUME ListenerTerm PROVE Attended'
  <2>1. /\ UNCHANGED <<workers_may_exit, created, queue, pc, notEmpty, stray, overlooked>>
        /\ ~terminated
    BY <1>4 DEF ListenerTerm, ReservationHeld, flagVars, startVars, workerVars, otherVars
  <2> SUFFICES ASSUME ~workers_may_exit, created # {}, queue # <<>>, stray = {}, ~overlooked
               PROVE  (\E w \in created : Attentive(w)') \/ (\E w \in created : Woken(w)')
    BY <1>4, <2>1, Zenon DEF Attended, ListenerTerm, SetTerminated
  <2>2. (\E w \in created : Attentive(w)) \/ (\E w \in created : Woken(w))
    BY Zenon DEF StopInv, Attended
  <2> QED
    BY <2>1, <2>2 DEF Attentive, Woken
<1>5. ASSUME ~(ListenerPush \/ ListenerInterrupt \/ ListenerTerm) PROVE Attended'
  <2>1. UNCHANGED attendVars
    BY <1>1, <1>5 DEF ListenerStep, ListenerTop, ListenerIdlers, ListenerBlock, BlockForIdler,
       ListenerReserve, ListenerPeekPool, ListenerSwapPool, ListenerLock, ListenerPoll,
       ListenerEnterPoll, ListenerReady, ListenerEnterAccept, ListenerUnlock, ListenerQuit,
       ListenerKill, attendVars, fdVars, workerVars, otherVars
  <2> QED
    BY <2>1, AttendedStays DEF StopInv
<1>6. Attended'
  BY <1>2, <1>3, <1>4, <1>5
<1>7. listener' \in {"interrupt", "kill", "exited"} => terminated'
  BY DEF ListenerStep, ListenerTop, ListenerIdlers, ListenerBlock, ListenerReserve,
     ListenerPeekPool, AfterWaitForIdler, ListenerSwapPool, ListenerLock, ListenerPoll,
     ListenerEnterPoll, ListenerReady, ListenerEnterAccept,
     ListenerUnlock, AfterUnlock, ListenerPush, ListenerQuit, ListenerTerm, SetTerminated,
     ListenerInterrupt, ListenerKill, StopInv, fdVars
<1>8. created' # {}
  BY <1>1 DEF StopInv
<1>9. main' \in {"interruptAll", "infoTerm", "closeSockets"} => workers_may_exit'
  BY <1>1 DEF StopInv
<1>10. UNCHANGED <<stray, pc>> /\ notEmpty' \subseteq notEmpty
  BY DEF ListenerStep, ListenerTop, ListenerIdlers, ListenerBlock, ListenerReserve,
     ListenerPeekPool, ListenerSwapPool, ListenerLock, ListenerPoll, ListenerEnterPoll,
     ListenerReady, ListenerEnterAccept, ListenerUnlock, ListenerPush, ap_queue_push,
     SignalNotEmpty, ListenerQuit, ListenerTerm, ListenerInterrupt, ap_queue_interrupt_all,
     ListenerKill, fdVars, workerVars, otherVars
<1>11. StrayHere'
  BY <1>1, <1>10, StraySleeps DEF StopInv
<1> QED
  BY <1>6, <1>7, <1>8, <1>9, <1>11 DEF StopInv

\* What comes from outside leaves queue and workers alone.
LEMMA EventAttended ==
    ASSUME StopInv, ListenerEvent
    PROVE  StopInv'
<1>1. UNCHANGED attendVars /\ main' = main
  BY DEF ListenerEvent, ListenerFails, ListenerPolled, ListenerAccept, ListenerLockFails,
     ListenerAcceptFails, ListenerUnlockFails, SignalGraceful, attendVars, fdVars, mainVars,
     startVars, workerVars, flagVars, otherVars
<1>2. listener # "unborn" /\ listener' \notin {"interrupt", "kill", "exited"}
  BY DEF ListenerEvent, ListenerFails, ListenerPolled, ListenerAccept, ListenerLockFails,
     ListenerAcceptFails, ListenerUnlockFails, AfterUnlock
<1>3. created' # {} /\ (main' \in {"interruptAll", "infoTerm", "closeSockets"} => workers_may_exit')
  BY <1>1, <1>2, Zenon DEF StopInv, attendVars
<1>4. StrayHere'
  BY <1>1, StraySleeps DEF StopInv, attendVars
<1> QED
  BY <1>1, <1>2, <1>3, <1>4, AttendedStays DEF StopInv

\* A worker that finds nothing leaves another that is attentive; the one that takes an
\* element, or looks again, is so itself; one that nobody woke is seen to leave.
LEMMA WorkerAttended ==
    ASSUME TypeInv, StopInv, WorkersCountOnce, NEW w \in Worker, WorkerStep(w)
    PROVE  StopInv'
<1>1. UNCHANGED <<workers_may_exit, created, terminated, main, listener>>
  BY DEF WorkerStep, WorkerLoop, WorkerRecycle, WorkerIdle, WorkerSignal, WorkerCheck,
     WorkerTake, WorkerBlock, WorkerFindsNothing, WorkerPopStatus, WorkerRegister,
     WorkerServed, WorkerLoad, WorkerStore, fdVars, mainVars, startVars, listenerVars, flagVars
<1>2. w \in created
  BY DEF WorkersCountOnce, WorkerStep, WorkerLoop, WorkerRecycle, WorkerIdle, WorkerSignal,
     WorkerCheck, WorkerTake, WorkerBlock, WorkerFindsNothing, WorkerPopStatus,
     WorkerRegister, WorkerServed, WorkerLoad, WorkerStore
<1>3. DOMAIN pc = Worker /\ created \subseteq Worker
  BY DEF TypeInv, TypeOK
<1>4. ASSUME ~WorkerFindsNothing(w), ~WorkerPopStatus(w), ~workers_may_exit
      PROVE  Attentive(w)'
  BY <1>3, <1>4 DEF WorkerStep, WorkerLoop, WorkerRecycle, WorkerIdle, WorkerSignal,
     WorkerCheck, WorkerTake, WorkerBlock, BlockForElem, WorkerRegister, WorkerServed,
     WorkerLoad, WorkerStore, Goto, Attentive, Woken
<1>5. ASSUME WorkerFindsNothing(w) PROVE Attended'
  <2>1. /\ UNCHANGED <<queue, notEmpty, stray, overlooked>> /\ queue = <<>>
        /\ pc[w] \in {"pop", "wait"} /\ (pc[w] = "pop" => terminated)
        /\ (pc[w] = "wait" => Woken(w)) /\ pc' = [pc EXCEPT ![w] = "unlocked"]
    BY <1>5 DEF WorkerFindsNothing, ap_queue_empty, Goto, fdVars, otherVars, Woken
  <2> SUFFICES ASSUME ~workers_may_exit, created # {}, ~terminated, stray = {}, ~overlooked
               PROVE  \E v \in created : Attentive(v)'
    BY <1>1, <2>1, Zenon DEF Attended
  <2>2. PICK v \in created : Attentive(v)
    BY <2>1, Zenon DEF StopInv, Attended
  <2>3. v # w
    BY <2>1, <2>2 DEF Attentive
  <2> QED
    BY <1>3, <2>1, <2>2, <2>3 DEF Attentive, Woken
<1>6. ASSUME WorkerPopStatus(w) PROVE Attended'
  <2>1. /\ UNCHANGED <<queue, notEmpty>> /\ pc[w] = "unlocked"
        /\ pc' = [pc EXCEPT ![w] = IF terminated THEN "exited" ELSE "check"]
        /\ stray' = stray \ {w} /\ (overlooked => overlooked')
        /\ w \in stray /\ terminated /\ queue # <<>> => overlooked'
    BY <1>6 DEF WorkerPopStatus, PopStatus, ap_queue_empty, Goto, fdVars
  <2>2. \A v \in created : v # w => pc'[v] = pc[v]
    BY <1>3, <2>1
  <2>3. \A v \in created : (Attentive(v) => Attentive(v)') /\ (Woken(v) => Woken(v)')
    BY <2>1, <2>2 DEF Attentive, Woken
  <2>4. w \notin stray => stray' = stray
    BY <2>1
  <2>5. CASE terminated
    <3>1. CASE w \in stray
      BY <1>1, <2>1, <2>5, <3>1, Zenon DEF Attended
    <3>2. CASE w \notin stray
      BY <1>1, <2>1, <2>3, <2>4, <3>2, Zenon DEF StopInv, Attended
    <3> QED
      BY <3>1, <3>2
  <2>6. CASE ~terminated
    <3>1. w \in created' /\ Attentive(w)'
      BY <1>1, <1>2, <1>3, <2>1, <2>6 DEF Attentive, Woken
    <3> QED
      BY <3>1, Zenon DEF Attended
  <2> QED
    BY <2>5, <2>6
<1>7. Attended'
  <2>1. CASE workers_may_exit
    BY <1>1, <2>1, Zenon DEF Attended
  <2>2. CASE ~workers_may_exit /\ ~WorkerFindsNothing(w) /\ ~WorkerPopStatus(w)
    <3>1. w \in created' /\ Attentive(w)'
      BY <1>1, <1>2, <1>4, <2>2
    <3> QED
      BY <3>1, Zenon DEF Attended
  <2> QED
    BY <1>5, <1>6, <2>1, <2>2
<1>8. /\ created' = {} => listener' = "unborn"
      /\ listener' \in {"interrupt", "kill", "exited"} => terminated'
      /\ main' \in {"interruptAll", "infoTerm", "closeSockets"} => workers_may_exit'
  BY <1>1, Zenon DEF StopInv
<1>9. StrayHere'
  <2>1. \A v \in Worker : v # w => pc'[v] = pc[v] /\ (v \in notEmpty' => v \in notEmpty)
    BY <1>3 DEF WorkerStep, WorkerLoop, WorkerRecycle, WorkerIdle, WorkerSignal, WorkerCheck,
       WorkerTake, WorkerBlock, BlockForElem, WorkerFindsNothing, WorkerPopStatus,
       WorkerRegister, WorkerServed, WorkerLoad, WorkerStore, Goto, fdVars
  <2>2. stray' = stray \/ stray' = stray \ {w}
    BY DEF WorkerStep, WorkerLoop, WorkerRecycle, WorkerIdle, WorkerSignal, WorkerCheck,
       WorkerTake, WorkerBlock, WorkerFindsNothing, WorkerPopStatus, WorkerRegister,
       WorkerServed, WorkerLoad, WorkerStore, otherVars
  <2>3. stray \subseteq Worker
    BY DEF TypeInv, TypeOK
  <2>4. CASE w \notin stray'
    <3>1. \A v \in stray' : v \in stray /\ v # w
      BY <2>2, <2>4
    <3>2. \A v \in stray' : v \in created /\ (pc[v] = "unlocked" \/ Woken(v))
      BY <3>1 DEF StopInv, StrayHere
    <3> QED
      BY <1>1, <2>1, <2>3, <3>1, <3>2 DEF StrayHere, Woken
  <2>5. CASE w \in stray'
    <3>1. w \in stray /\ (pc[w] = "unlocked" \/ Woken(w)) /\ stray' = stray
      BY <2>2, <2>5 DEF StopInv, StrayHere
    <3>2. WorkerFindsNothing(w)
      BY <3>1 DEF Woken, WorkerStep, WorkerLoop, WorkerRecycle, WorkerIdle, WorkerSignal,
         WorkerCheck, WorkerTake, WorkerBlock, WorkerPopStatus, WorkerRegister, WorkerServed,
         WorkerLoad, WorkerStore
    <3>3. pc'[w] = "unlocked"
      BY <1>3, <3>2 DEF WorkerFindsNothing, Goto
    <3>4. \A v \in stray : v \in created /\ (v # w => pc[v] = "unlocked" \/ Woken(v))
      BY DEF StopInv, StrayHere
    <3> QED
      BY <1>1, <2>1, <2>3, <3>1, <3>3, <3>4 DEF StrayHere, Woken
  <2> QED
    BY <2>4, <2>5
<1> QED
  BY <1>7, <1>8, <1>9 DEF StopInv

\* The main thread wakes the workers only after it has allowed them to exit.
LEMMA MainAttended ==
    ASSUME TypeInv, StopInv, MainEvent
    PROVE  StopInv'
<1>1. UNCHANGED <<created, queue, pc, terminated, stray, overlooked>>
  BY DEF MainEvent, MainStep, MainBlock, MainRead, MainInterrupted, MainSignalThreads,
     MainWorkersMayExit, MainInterruptAll, MainInfoTerm, close_worker_sockets,
     MainWakeListener, MainJoinListener, MainExit, StraySigterm, fdVars, startVars, workerVars,
     otherVars
<1>2. listener' = listener \/ (listener # "unborn" /\ listener' \in {"poll", "unlock"})
  BY DEF MainEvent, MainStep, MainBlock, MainRead, MainInterrupted, MainSignalThreads,
     MainWorkersMayExit, MainInterruptAll, MainInfoTerm, close_worker_sockets,
     MainWakeListener, MainJoinListener, MainExit, StraySigterm, WakeupListener, listenerVars
<1>3. StrayHere'
  <2>1. notEmpty' \subseteq notEmpty
    BY DEF MainEvent, MainStep, MainBlock, MainRead, MainInterrupted, MainSignalThreads,
       MainWorkersMayExit, MainInterruptAll, ap_queue_interrupt_all, MainInfoTerm,
       close_worker_sockets, MainWakeListener, MainJoinListener, MainExit, StraySigterm, fdVars
  <2> QED
    BY <1>1, <2>1, StraySleeps DEF StopInv
<1>4. CASE MainWorkersMayExit
  <2>1. workers_may_exit' = TRUE
    BY <1>4 DEF MainWorkersMayExit
  <2>2. Attended'
    BY <2>1, Zenon DEF Attended
  <2> QED
    BY <1>1, <1>2, <1>3, <2>1, <2>2 DEF StopInv
<1>5. CASE MainInterruptAll
  <2>1. workers_may_exit /\ workers_may_exit' = workers_may_exit /\ ap_queue_interrupt_all
    BY <1>5 DEF MainInterruptAll, StopInv, flagVars
  <2>2. Attended'
    BY <2>1, Zenon DEF Attended
  <2> QED
    BY <1>1, <1>2, <1>3, <2>1, <2>2 DEF StopInv
<1>6. CASE ~MainWorkersMayExit /\ ~MainInterruptAll
  <2>1. UNCHANGED <<workers_may_exit, notEmpty>>
    BY <1>6 DEF MainEvent, MainStep, MainBlock, MainRead, MainInterrupted, MainSignalThreads,
       MainInfoTerm, close_worker_sockets, MainWakeListener, MainJoinListener, MainExit,
       StraySigterm, fdVars, flagVars
  <2>2. main' \in {"interruptAll", "infoTerm", "closeSockets"}
          => main \in {"interruptAll", "infoTerm"}
    BY <1>6 DEF MainEvent, MainStep, MainBlock, MainRead, JoinStartThread, MainInterrupted,
       MainSignalThreads, MainInfoTerm, close_worker_sockets, MainWakeListener,
       MainJoinListener, MainExit, StraySigterm, InterruptMain, mainVars, StopInv
  <2>3. Attended'
    BY <1>1, <2>1, AttendedStays DEF StopInv, attendVars
  <2> QED
    BY <1>1, <1>2, <1>3, <2>1, <2>2, <2>3 DEF StopInv
<1> QED
  BY <1>4, <1>5, <1>6

\* A spurious wakeup of a worker is noted; one of the listener is no matter.
LEMMA StrayAttended ==
    ASSUME StopInv, WorkersCountOnce, StrayStep
    PROVE  StopInv'
<1>1. /\ UNCHANGED <<queue, terminated, created, pc, listener, main, workers_may_exit>>
      /\ UNCHANGED overlooked
  BY StrayChanges DEF mainVars, startVars, listenerVars, workerVars, flagVars
<1>2. CASE ListenerStray
  <2>1. UNCHANGED <<notEmpty, stray>>
    BY <1>2 DEF ListenerStray, otherVars
  <2>2. Attended'
    BY <1>1, <2>1, AttendedStays DEF StopInv, attendVars
  <2>3. StrayHere'
    BY <1>1, <2>1, StraySleeps DEF StopInv
  <2> QED
    BY <1>1, <2>2, <2>3, Zenon DEF StopInv
<1>3. CASE \E w \in Worker : WorkerStray(w)
  <2>1. PICK w \in Worker : WorkerStray(w)
    BY <1>3
  <2>2. /\ pc[w] = "wait" /\ notEmpty' = notEmpty \ {w} /\ stray' = stray \cup {w}
        /\ w \in created
    BY <2>1 DEF WorkerStray, StrayNotEmpty, WorkersCountOnce
  <2>3. Attended'
    <3>1. stray' # {}
      BY <2>2
    <3> QED
      BY <3>1, Zenon DEF Attended
  <2>4. StrayHere'
    BY <1>1, <2>2 DEF StopInv, StrayHere, Woken
  <2> QED
    BY <1>1, <2>3, <2>4, Zenon DEF StopInv
<1> QED
  BY <1>2, <1>3 DEF StrayStep

\* A child that stops has somebody to look at the queue until it is empty.
LEMMA StopStep ==
    ASSUME TypeInv, ReservationHeld, WorkersCountOnce, StopInv, [Next]_vars
    PROVE  StopInv'
<1>1. CASE UNCHANGED vars
  <2>1. UNCHANGED attendVars /\ UNCHANGED <<main, listener>>
    BY <1>1 DEF vars, attendVars, fdVars, mainVars, startVars, listenerVars, workerVars,
       flagVars, otherVars
  <2>2. Attended' /\ StrayHere'
    BY <2>1, AttendedStays, StraySleeps DEF StopInv, attendVars
  <2> QED
    BY <2>1, <2>2, Zenon DEF StopInv, attendVars
<1> QED
  BY <1>1, StepCases, StartAttended, ListenerAttended, EventAttended, WorkerAttended,
     MainAttended, StrayAttended

\* Nothing runs at the start.
LEMMA StopInit ==
    ASSUME Init
    PROVE  StopInv
<1>1. created = {} /\ listener = "unborn" /\ main = "read" /\ stray = {}
  BY DEF Init
<1> QED
  BY <1>1 DEF StopInv, Attended, StrayHere

\* signal_threads, called by the listener, only ever tells it to exit.
LEMMA GracefulOrders ==
    ASSUME terminate_mode # "INIT" => listener_may_exit, SignalGraceful
    PROVE  listener_may_exit'
<1>1. terminate_mode = "GRACEFUL" => listener_may_exit
  OBVIOUS
<1>2. listener_may_exit' = (terminate_mode # "GRACEFUL" \/ listener_may_exit)
  BY DEF SignalGraceful
<1> QED
  BY <1>1, <1>2, Zenon

\* Steps that leave the flags and the main thread alone, and do not send the listener off.
LEMMA OrderedStays ==
    ASSUME Ordered, UNCHANGED <<flagVars, rv, infoTerminated>>,
           main' = main \/ main' \in {"read", "reading", "eintr"},
           listener' = listener \/ listener' \notin {"quit"} \cup Leaving \/ listener_may_exit
    PROVE  Ordered'
<1>1. UNCHANGED <<terminate_mode, listener_may_exit, rv, infoTerminated>>
  BY DEF flagVars
<1>2. main' = "joinStart" => rv' # "INIT"
  BY <1>1 DEF Ordered
<1>3. main' \notin {"read", "reading", "eintr", "joinStart"} => listener_may_exit'
  BY <1>1 DEF Ordered
<1>4. listener' \in {"quit"} \cup Leaving => listener_may_exit'
  BY <1>1 DEF Ordered
<1>5. (terminate_mode # "INIT" \/ infoTerminated => listener_may_exit)
         => (terminate_mode' # "INIT" \/ infoTerminated' => listener_may_exit')
  BY <1>1
<1> QED
  BY <1>2, <1>3, <1>4, <1>5, Zenon DEF Ordered

\* The listener leaves its loop only when it has been told to, or has told itself.
LEMMA ListenerOrders ==
    ASSUME Ordered, ListenerStep \/ ListenerEvent
    PROVE  Ordered'
<1>1. UNCHANGED <<rv, infoTerminated>> /\ (main' = main \/ main' = "eintr")
  BY DEF ListenerStep, ListenerTop, ListenerIdlers, ListenerBlock, ListenerReserve,
     ListenerPeekPool, ListenerSwapPool, ListenerLock, ListenerPoll, ListenerEnterPoll,
     ListenerReady, ListenerEnterAccept, ListenerUnlock, ListenerPush, ListenerQuit,
     ListenerTerm, ListenerInterrupt, ListenerKill, InterruptMain, ListenerEvent,
     ListenerFails, ListenerPolled, ListenerAccept, ListenerLockFails, ListenerAcceptFails,
     ListenerUnlockFails, fdVars, mainVars
<1>2. CASE SignalGraceful
  <2>1. listener_may_exit'
    BY <1>2, GracefulOrders DEF Ordered
  <2>2. main' = "joinStart" => rv' # "INIT"
    BY <1>1 DEF Ordered
  <2> QED
    BY <2>1, <2>2, Zenon DEF Ordered
<1>3. CASE ~SignalGraceful
  <2>1. UNCHANGED flagVars
    BY <1>3 DEF ListenerStep, ListenerTop, ListenerIdlers, ListenerBlock, ListenerReserve,
       ListenerPeekPool, ListenerSwapPool, ListenerLock, ListenerPoll, ListenerEnterPoll,
       ListenerReady, ListenerEnterAccept, ListenerUnlock, ListenerPush, ListenerQuit,
       ListenerTerm, ListenerInterrupt, ListenerKill, ListenerEvent, ListenerFails,
       ListenerPolled, ListenerAccept, ListenerLockFails, ListenerAcceptFails,
       ListenerUnlockFails
  <2>2. listener' \notin {"quit"} \cup Leaving \/ listener_may_exit
    <3> USE DEF Leaving
    <3>1. CASE ListenerTop
      BY <2>1, <3>1 DEF ListenerTop, flagVars
    <3>2. CASE ListenerPeekPool \/ ListenerSwapPool
      BY <3>2 DEF ListenerPeekPool, ListenerSwapPool, AfterWaitForIdler, Ordered
    <3>3. CASE ListenerReady
      BY <3>3 DEF ListenerReady
    <3>4. CASE ListenerQuit \/ ListenerTerm \/ ListenerInterrupt \/ ListenerKill
      BY <3>4 DEF ListenerQuit, ListenerTerm, ListenerInterrupt, ListenerKill, Ordered
    <3>5. CASE ListenerLockFails \/ ListenerUnlockFails
      BY <1>3, <3>5 DEF ListenerLockFails, ListenerUnlockFails
    <3>6. CASE ListenerPolled \/ ListenerAccept \/ ListenerAcceptFails
      BY <3>6 DEF ListenerPolled, ListenerAccept, ListenerAcceptFails
    <3>7. CASE ListenerIdlers \/ ListenerBlock \/ ListenerReserve \/ ListenerLock
               \/ ListenerPoll \/ ListenerEnterPoll \/ ListenerEnterAccept
               \/ ListenerUnlock \/ ListenerPush
      BY <3>7 DEF ListenerIdlers, ListenerBlock, ListenerReserve, ListenerLock, ListenerPoll,
         ListenerEnterPoll, ListenerEnterAccept, ListenerUnlock, AfterUnlock, ListenerPush
    <3> QED
      BY <3>1, <3>2, <3>3, <3>4, <3>5, <3>6, <3>7 DEF ListenerStep, ListenerEvent, ListenerFails
  <2> QED
    BY <1>1, <2>1, <2>2, OrderedStays
<1> QED
  BY <1>2, <1>3

\* The main thread goes on only with a mode to stop in, and after it has told the listener.
LEMMA MainOrders ==
    ASSUME Ordered, MainEvent
    PROVE  Ordered'
<1> USE DEF fdVars, listenerVars
<1>1. CASE MainBlock \/ StraySigterm
  BY <1>1, OrderedStays DEF MainBlock, StraySigterm, InterruptMain
<1>2. CASE (\E m \in {"GRACEFUL", "UNGRACEFUL"} : MainRead(m)) \/ MainInterrupted
  <2>1. UNCHANGED <<terminate_mode, listener_may_exit, listener, infoTerminated>>
    BY <1>2 DEF MainRead, MainInterrupted
  <2>2. main' = "read" \/ (main' = "joinStart" /\ rv' # "INIT")
    BY <1>2 DEF MainRead, MainInterrupted, JoinStartThread
  <2> QED
    BY <2>1, <2>2, Zenon DEF Ordered
<1>3. CASE MainSignalThreads
  <2>1. main = "joinStart" /\ main' # "joinStart" /\ rv # "INIT"
    BY <1>3 DEF MainSignalThreads, Ordered
  <2>2. listener_may_exit'
    <3>1. CASE terminate_mode = rv
      BY <1>3, <2>1, <3>1, Zenon DEF MainSignalThreads, Ordered
    <3>2. CASE terminate_mode # rv
      BY <1>3, <3>2, Zenon DEF MainSignalThreads, WakeupListener
    <3> QED
      BY <3>1, <3>2
  <2> QED
    BY <2>1, <2>2, Zenon DEF Ordered
<1>4. CASE MainWakeListener
  <2>1. main' = main /\ main # "joinStart" /\ listener_may_exit' = TRUE
    BY <1>4 DEF MainWakeListener, WakeupListener
  <2> QED
    BY <2>1, Zenon DEF Ordered
<1>5. CASE \/ MainWorkersMayExit \/ MainInterruptAll \/ MainInfoTerm
           \/ close_worker_sockets \/ MainJoinListener \/ MainExit
  <2>1. /\ main \notin {"read", "reading", "eintr", "joinStart"} /\ main' # "joinStart"
        /\ UNCHANGED listener_may_exit
    BY <1>5 DEF MainWorkersMayExit, MainInterruptAll, MainInfoTerm, close_worker_sockets,
       MainJoinListener, MainExit, flagVars, mainVars
  <2> QED
    BY <2>1, Zenon DEF Ordered
<1> QED
  BY <1>1, <1>2, <1>3, <1>4, <1>5 DEF MainEvent, MainStep

\* No step of any thread gets ahead of the order to stop.
LEMMA OrderStep ==
    ASSUME Ordered, [Next]_vars
    PROVE  Ordered'
<1>1. CASE StartStep
  <2>1. /\ UNCHANGED <<flagVars, mainVars, infoTerminated>>
        /\ listener' = listener \/ listener' = "top"
    BY <1>1 DEF StartStep, StartWorker, StartListener, StartEnd, StartFails, fdVars,
       listenerVars
  <2> QED
    BY <2>1, OrderedStays DEF mainVars, Leaving
<1>2. CASE \E w \in Worker : WorkerStep(w)
  <2>1. UNCHANGED <<flagVars, mainVars, infoTerminated, listener>>
    BY <1>2 DEF WorkerStep, WorkerLoop, WorkerRecycle, WorkerIdle, WorkerSignal, WorkerCheck,
       WorkerTake, WorkerBlock, WorkerFindsNothing, WorkerPopStatus, WorkerRegister,
       WorkerServed, WorkerLoad, WorkerStore, fdVars, listenerVars
  <2> QED
    BY <2>1, OrderedStays DEF mainVars
<1>3. CASE StrayStep
  BY <1>3, StrayChanges, OrderedStays DEF mainVars, listenerVars
<1>4. CASE UNCHANGED vars
  BY <1>4, OrderedStays DEF vars, fdVars, mainVars, listenerVars
<1> QED
  BY <1>1, <1>2, <1>3, <1>4, ListenerOrders, MainOrders, StepCases

\* Nobody is told anything at the start.
LEMMA OrderInit ==
    ASSUME Init
    PROVE  Ordered
<1>1. terminate_mode = "INIT" /\ listener = "unborn" /\ main = "read"
  BY DEF Init
<1>2. infoTerminated = FALSE
  BY Zenon DEF Init, FdInit
<1> QED
  BY <1>1, <1>2 DEF Ordered, Leaving

serviceState == <<outcome, listener_may_exit, workers_may_exit, overlooked, exit>>

\* When a child that was not forced has seen all its workers out, and none that overlooked a
\* socket, nothing accepted is left.
LEMMA NothingLeft ==
    ASSUME TypeInv, AccountInv, SocketInv, StopInv, ~workers_may_exit, ~overlooked,
           \A w \in created : pc[w] = "exited"
    PROVE  \A c \in Conn : outcome[c] # "accepted"
<1>1. \A w \in Worker : pc[w] \in {"unborn", "exited"}
  BY DEF AccountInv, WorkersCountOnce
<1>2. \A w \in created : ~Attentive(w) /\ ~Woken(w)
  BY DEF Attentive, Woken
<1>3. queue = <<>> /\ (created # {} => terminated)
  <2>1. CASE created # {}
    <3>1. stray = {}
      BY <1>2 DEF StopInv, StrayHere
    <3> QED
      BY <1>2, <2>1, <3>1, Zenon DEF StopInv, Attended
  <2>2. CASE created = {}
    <3>1. listener = "unborn" /\ ~have_idle_worker
      BY <2>2, Zenon DEF StopInv, AccountInv, ReservationHeld
    <3>2. Idle = {}
      BY <2>2 DEF AccountInv, WorkersCountOnce, BusyPlace, Idle
    <3>3. Cardinality(Idle) = 0
      BY <3>2, FS_EmptySet
    <3>4. idlers \in Nat /\ Len(queue) \in Nat /\ queue \in Seq([sd : Conn, p : Pool])
      BY DEF TypeInv, TypeOK
    <3>5. Len(queue) = 0
      BY <3>1, <3>3, <3>4 DEF AccountInv, IdleAccount, Idle
    <3>6. queue = <<>>
      BY <3>4, <3>5, EmptySeq
    <3> QED
      BY <2>2, <3>6
  <2> QED
    BY <2>1, <2>2
<1>4. listener \notin Passing
  <2>1. CASE created # {}
    BY <1>3, <2>1 DEF AccountInv, ReservationHeld, Passing
  <2>2. CASE created = {}
    BY <2>2 DEF StopInv, Passing
  <2> QED
    BY <2>1, <2>2
<1> SUFFICES ASSUME NEW c \in Conn, outcome[c] = "accepted"
             PROVE  FALSE
  OBVIOUS
<1> USE DEF SocketInv
<1>5. csd # c
  BY <1>4, ChildAssumption DEF HeldAsTold
<1>6. ~ \E w \in Worker : sd[w] = c
  BY <1>1, ChildAssumption DEF HeldWhere
<1>7. ~ \E i \in DOMAIN queue : queue[i].sd = c
  BY <1>3
<1> QED
  BY <1>5, <1>6, <1>7 DEF HeldAsTold

\* Only the listener drops a socket, and it does so once.
LEMMA DropsOnce ==
    ASSUME TypeInv, SocketInv, ListenerUnlockFails
    PROVE  \A d \in Conn : outcome[d] # "dropped"
<1>1. listener = "unlock"
  BY DEF ListenerUnlockFails
<1> SUFFICES ASSUME NEW d \in Conn, outcome[d] = "dropped"
             PROVE  FALSE
  OBVIOUS
<1> QED
  BY <1>1, ChildAssumption DEF SocketInv, HeldAsTold, Passing

\* A step of the listener is an accept, a drop, an order or none of the service's business.
LEMMA ListenerServes ==
    ASSUME TypeInv, SocketInv, Ordered, ListenerStep \/ ListenerEvent
    PROVE  \/ \E c \in Conn : Service!Accept(c) \/ Service!Drop(c)
           \/ Service!Order
           \/ UNCHANGED serviceState
<1>1. outcome \in [Conn -> {"new", "accepted", "served", "killed", "dropped"}]
  BY DEF TypeInv, TypeOK
<1>2. ASSUME UNCHANGED flagVars \/ SignalGraceful, UNCHANGED <<outcome, overlooked, exit>>
      PROVE  Service!Order \/ UNCHANGED serviceState
  <2>1. UNCHANGED flagVars => UNCHANGED serviceState
    BY <1>2 DEF flagVars, serviceState
  <2>2. ASSUME SignalGraceful PROVE Service!Order
    <3>1. listener_may_exit' = TRUE
      <4>1. listener_may_exit'
        BY <2>2, GracefulOrders DEF Ordered
      <4>2. listener_may_exit' \in BOOLEAN
        BY <2>2, Zenon DEF SignalGraceful
      <4> QED
        BY <4>1, <4>2, Zenon
    <3>2. UNCHANGED workers_may_exit
      BY <2>2 DEF SignalGraceful
    <3> QED
      BY <1>2, <3>1, <3>2, Zenon DEF Service!Order
  <2> QED
    BY <1>2, <2>1, <2>2
<1>3. CASE ListenerAccept
  <2>1. PICK c \in Conn : outcome[c] = "new" /\ outcome' = [outcome EXCEPT ![c] = "accepted"]
    BY <1>3 DEF ListenerAccept
  <2>2. Service!Accept(c)
    BY <1>3, <2>1 DEF Service!Accept, Service!Becomes, ListenerAccept, flagVars
  <2> QED
    BY <2>2
<1>4. CASE ListenerUnlockFails /\ listener_may_exit /\ csd # None
  <2>1. csd \in Conn /\ outcome[csd] = "accepted"
    BY <1>4 DEF ListenerUnlockFails, SocketInv, HeldAsTold, Passing, TypeInv, TypeOK
  <2>2. Service!Drop(csd)
    BY <1>4, <2>1, DropsOnce DEF Service!Drop, Service!Becomes, ListenerUnlockFails, flagVars
  <2> QED
    BY <2>1, <2>2
<1>5. CASE ListenerUnlockFails /\ ~(listener_may_exit /\ csd # None)
  BY <1>2, <1>5 DEF ListenerUnlockFails
<1>6. CASE ListenerStep
  BY <1>2, <1>6 DEF ListenerStep, ListenerTop, ListenerIdlers, ListenerBlock, ListenerReserve,
     ListenerPeekPool, ListenerSwapPool, ListenerLock, ListenerPoll, ListenerEnterPoll,
     ListenerReady, ListenerEnterAccept, ListenerUnlock, ListenerPush, ListenerQuit,
     ListenerTerm, ListenerInterrupt, ListenerKill, otherVars
<1>7. CASE ListenerPolled \/ ListenerLockFails \/ ListenerAcceptFails
  BY <1>2, <1>7 DEF ListenerPolled, ListenerLockFails, ListenerAcceptFails, otherVars
<1> QED
  BY <1>3, <1>4, <1>5, <1>6, <1>7 DEF ListenerEvent, ListenerFails

\* What a worker that was woken by nobody leaves behind when it exits by APR_EOF.
LEMMA StatusServes ==
    ASSUME TypeInv, ReservationHeld, SocketInv, Ordered, NEW w \in Worker, WorkerPopStatus(w)
    PROVE  Service!Overlook \/ UNCHANGED serviceState
<1>1. UNCHANGED <<outcome, listener_may_exit, workers_may_exit, exit>>
  BY DEF WorkerPopStatus, flagVars
<1>2. CASE w \in stray /\ terminated /\ queue # <<>>
  <2>1. overlooked' = TRUE
    <3>1. overlooked' = (overlooked \/ (w \in stray /\ PopStatus = "EOF" /\ ~ap_queue_empty))
      BY DEF WorkerPopStatus
    <3>2. PopStatus = "EOF" /\ ~ap_queue_empty
      BY <1>2 DEF PopStatus, ap_queue_empty
    <3> QED
      BY <1>2, <3>1, <3>2, Zenon
  <2>2. listener_may_exit
    <3>1. listener \in Leaving
      BY <1>2 DEF ReservationHeld, Leaving
    <3> QED
      BY <3>1 DEF Ordered
  <2>3. Service!Waiting # {}
    <3>1. 1 \in DOMAIN queue /\ queue[1] \in [sd : Conn, p : Pool]
      <4>1. queue \in Seq([sd : Conn, p : Pool]) /\ Len(queue) \in Nat
        BY DEF TypeInv, TypeOK
      <4>2. Len(queue) # 0
        BY <1>2, <4>1, EmptySeq
      <4>3. 1 \in 1 .. Len(queue)
        BY <4>1, <4>2
      <4>4. queue[1] \in [sd : Conn, p : Pool]
        BY <4>1, <4>3, ElementOfSeq
      <4>5. DOMAIN queue = 1 .. Len(queue)
        BY <4>1
      <4> QED
        BY <4>3, <4>4, <4>5
    <3>2. outcome[queue[1].sd] = "accepted" /\ queue[1].sd \in Conn
      BY <3>1 DEF SocketInv, HeldAsTold
    <3> QED
      BY <3>2 DEF Service!Waiting
  <2> QED
    BY <1>1, <2>1, <2>2, <2>3, Zenon DEF Service!Overlook
<1>3. CASE ~(w \in stray /\ terminated /\ queue # <<>>)
  <2>1. overlooked' = (overlooked \/ (w \in stray /\ PopStatus = "EOF" /\ ~ap_queue_empty))
    BY DEF WorkerPopStatus
  <2>2. ~(w \in stray /\ PopStatus = "EOF" /\ ~ap_queue_empty)
    BY <1>3 DEF PopStatus, ap_queue_empty
  <2>3. overlooked \in BOOLEAN
    BY DEF TypeInv, TypeOK
  <2>4. overlooked' = overlooked
    BY <2>1, <2>2, <2>3, Zenon
  <2> QED
    BY <1>1, <2>4 DEF serviceState
<1> QED
  BY <1>2, <1>3

\* A step of a worker serves the socket it holds, unless that was killed, overlooks one that
\* is queued, or nothing.
LEMMA WorkerServes ==
    ASSUME TypeInv, ReservationHeld, SocketInv, Ordered, NEW w \in Worker, WorkerStep(w)
    PROVE  (\E c \in Conn : Service!Serve(c)) \/ Service!Overlook \/ UNCHANGED serviceState
<1>1. outcome \in [Conn -> {"new", "accepted", "served", "killed", "dropped"}]
  BY DEF TypeInv, TypeOK
<1>2. CASE WorkerServed(w)
  <2>1. sd[w] \in Conn /\ outcome[sd[w]] \in {"accepted", "killed"}
    BY <1>2 DEF WorkerServed, SocketInv, HeldWhere, HeldAsTold, TypeInv, TypeOK
  <2>2. UNCHANGED <<listener_may_exit, workers_may_exit, overlooked, exit>>
    BY <1>2 DEF WorkerServed, flagVars
  <2>3. CASE outcome[sd[w]] = "accepted"
    <3>1. Service!Serve(sd[w])
      BY <1>2, <2>2, <2>3 DEF Service!Serve, Service!Becomes, WorkerServed
    <3> QED
      BY <2>1, <3>1
  <2>4. CASE outcome[sd[w]] = "killed"
    <3>1. outcome' = outcome
      BY <1>1, <1>2, <2>4 DEF WorkerServed
    <3> QED
      BY <2>2, <3>1 DEF serviceState
  <2> QED
    BY <2>1, <2>3, <2>4
<1>3. CASE WorkerPopStatus(w)
  BY <1>3, StatusServes
<1>4. CASE ~WorkerServed(w) /\ ~WorkerPopStatus(w)
  BY <1>4 DEF WorkerStep, WorkerLoop, WorkerRecycle, WorkerIdle, WorkerSignal, WorkerCheck,
     WorkerTake, WorkerBlock, WorkerFindsNothing, WorkerRegister, WorkerLoad, WorkerStore,
     flagVars, otherVars, serviceState
<1> QED
  BY <1>2, <1>3, <1>4

\* The main thread orders, forces, kills what was forced, and stops.
LEMMA MainServes ==
    ASSUME TypeInv, AccountInv, SocketInv, StopInv, Ordered, MainEvent
    PROVE  \/ Service!Order \/ Service!Force \/ Service!Kill \/ Service!Stop
           \/ UNCHANGED serviceState
<1>1. outcome \in [Conn -> {"new", "accepted", "served", "killed", "dropped"}]
  BY DEF TypeInv, TypeOK
<1>2. CASE MainWorkersMayExit
  <2>1. main = "mayExit" /\ workers_may_exit' = TRUE
        /\ UNCHANGED <<outcome, listener_may_exit, overlooked, exit>>
    BY <1>2 DEF MainWorkersMayExit, otherVars
  <2>2. listener_may_exit
    BY <2>1 DEF Ordered
  <2> QED
    BY <2>1, <2>2, Zenon DEF Service!Force
<1>3. CASE close_worker_sockets
  <2> DEFINE K == {c \in Conn : outcome[c] = "accepted" /\ \E w \in Worker : worker_sockets[w] = c}
  <2>1. /\ workers_may_exit
        /\ UNCHANGED <<listener_may_exit, workers_may_exit, overlooked, exit>>
    BY <1>3 DEF close_worker_sockets, StopInv, flagVars
  <2>2. \A c \in Conn : (\E w \in Worker : worker_sockets[w] = c)
          => outcome[c] \in {"accepted", "killed"}
    BY ChildAssumption DEF SocketInv, HeldWhere, HeldAsTold
  <2>3. outcome' = [c \in Conn |-> IF c \in K THEN "killed" ELSE outcome[c]]
    BY <1>3, <2>2 DEF close_worker_sockets
  <2>4. K \in SUBSET {c \in Conn : outcome[c] = "accepted"}
    OBVIOUS
  <2> HIDE DEF K
  <2>5. Service!Kill
    BY <2>1, <2>3, <2>4, Zenon DEF Service!Kill, Service!Waiting
  <2> QED
    BY <2>5
<1>4. CASE MainExit
  <2>1. workers_may_exit \/ overlooked \/ \A c \in Conn : outcome[c] # "accepted"
    BY <1>4, NothingLeft DEF MainExit
  <2>2. exit' = "done" /\ UNCHANGED <<outcome, listener_may_exit, workers_may_exit, overlooked>>
    BY <1>4 DEF MainExit, flagVars
  <2>3. listener_may_exit
    BY <1>4 DEF MainExit, Ordered
  <2>4. (\A c \in Conn : outcome[c] # "accepted") => Service!Waiting = {}
    BY DEF Service!Waiting
  <2> QED
    BY <2>1, <2>2, <2>3, <2>4, Zenon DEF Service!Stop
<1>5. CASE MainSignalThreads \/ MainWakeListener
  <2>1. UNCHANGED <<outcome, workers_may_exit, overlooked, exit>>
    BY <1>5 DEF MainSignalThreads, MainWakeListener, otherVars
  <2>2. listener_may_exit' = TRUE \/ UNCHANGED listener_may_exit
    BY <1>5, Zenon DEF MainSignalThreads, MainWakeListener, WakeupListener
  <2> QED
    BY <2>1, <2>2 DEF Service!Order, serviceState
<1>6. CASE ~(\/ MainWorkersMayExit \/ close_worker_sockets \/ MainExit
             \/ MainSignalThreads \/ MainWakeListener)
  BY <1>6 DEF MainEvent, MainStep, MainBlock, MainRead, MainInterrupted, MainInterruptAll,
     MainInfoTerm, MainJoinListener, StraySigterm, flagVars, otherVars, serviceState
<1> QED
  BY <1>2, <1>3, <1>4, <1>5, <1>6

(***************************************************************************)
(* The child keeps the promise of ConnectionService.  Every step of a      *)
(* thread is a step of the service or leaves it as it is.  A child drops a *)
(* socket only when it is told to stop, and one at most.  One that stops   *)
(* without having been forced has nothing accepted left, although single   *)
(* workers may leave while there still is (fdqueue.c:355), unless one of   *)
(* these was woken by nobody (GracefulServesAll is false).                 *)
(***************************************************************************)
THEOREM KeepsThePromise == Spec => ImplementsService
<1>1. Init => Service!Init
  BY Zenon DEF Init, Service!Init
<1>2. TypeInv /\ AccountInv /\ SocketInv /\ StopInv /\ Ordered /\ [Next]_vars
        => [Service!Next]_(Service!serviceVars)
  <2> SUFFICES ASSUME TypeInv, AccountInv, SocketInv, StopInv, Ordered, Next
               PROVE  Service!Next \/ UNCHANGED serviceState
    BY DEF vars, serviceState, Service!serviceVars, flagVars, otherVars
  <2>1. CASE exit # "no"
    BY <2>1 DEF Next, Exited, vars, serviceState, flagVars, otherVars
  <2>2. CASE exit = "no"
    <3>1. CASE StartStep
      <4>1. StartFails => Service!Abort
        BY DEF StartFails, Service!Abort, flagVars
      <4>2. ~StartFails => UNCHANGED serviceState
        BY <3>1 DEF StartStep, StartWorker, StartListener, StartEnd, flagVars, otherVars,
           serviceState
      <4> QED
        BY <2>2, <4>1, <4>2 DEF Service!Next
    <3>2. CASE ListenerStep \/ ListenerEvent
      BY <2>2, <3>2, ListenerServes DEF Service!Next
    <3>3. CASE \E w \in Worker : WorkerStep(w)
      BY <2>2, <3>3, WorkerServes DEF Service!Next, AccountInv
    <3>4. CASE MainEvent
      BY <2>2, <3>4, MainServes DEF Service!Next
    <3>5. CASE StrayStep \/ UNCHANGED vars
      BY <3>5, StrayChanges DEF vars, serviceState, flagVars, otherVars
    <3> QED
      BY <3>1, <3>2, <3>3, <3>4, <3>5, StepCases
  <2> QED
    BY <2>1, <2>2
<1> QED
  BY <1>1, <1>2, InvInductive, SocketInit, SocketStep, StopInit, StopStep, OrderInit,
     OrderStep, PTL
     DEF Spec, AccountInv, ImplementsService, Service!Spec

=============================================================================
