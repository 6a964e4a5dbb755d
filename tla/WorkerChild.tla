----------------------------- MODULE WorkerChild -----------------------------
(***************************************************************************)
(* A child process of the worker MPM of httpd (server/mpm/worker/worker.c, *)
(* child_main): its main thread, the thread that starts the others, the    *)
(* listener and the workers, over the queue of FdQueue.                    *)
(*                                                                         *)
(* An action is what one thread does up to its next access to data that    *)
(* other threads change.  The environment: sockets to accept, the parent's *)
(* pipe of death, the accept mutex shared with other children, failures.   *)
(***************************************************************************)
EXTENDS FdQueue

CONSTANTS
    MaxRequestsPerChild,    \* 0: no limit
    Poll,                   \* more than one listening socket: poll before accept
    WakeTries               \* 10 in join_workers

ASSUME ChildAssumption ==
    /\ IsFiniteSet(Worker) /\ Worker # {}
    /\ None \notin Conn \cup Pool
    /\ MaxRequestsPerChild \in Nat
    /\ Poll \in BOOLEAN
    /\ WakeTries \in Nat
    /\ INT_MAX \in Nat

VARIABLES
    main, rv, iter,             \* child_main: where it is, the mode to stop in, join_workers' iter
    start, created,             \* start_threads: running or over, workers created
    listener, have_idle_worker, ptrans, peeked, csd,    \* listener_thread
    pc, is_idle, sd, pool, count,                       \* worker_thread, for each worker
    worker_sockets,
    terminate_mode, listener_may_exit, workers_may_exit, start_thread_may_exit,
    requests_this_child,
    outcome,                    \* what has become of each socket
    stray,                      \* history: woken by nobody, and not back at the queue since
    overlooked,                 \* history: one of these has left while a socket was queued
    exit                        \* the process: "no", "done" or "aborted"

mainVars == <<main, rv, iter>>
startVars == <<start, created>>
listenerVars == <<listener, have_idle_worker, ptrans, peeked, csd>>
workerVars == <<pc, is_idle, sd, pool, count, worker_sockets>>
flagVars == <<terminate_mode, listener_may_exit, workers_may_exit, start_thread_may_exit>>
otherVars == <<requests_this_child, outcome, stray, overlooked, exit>>

vars == <<fdVars, mainVars, startVars, listenerVars, workerVars, flagVars, otherVars>>

Modes == {"INIT", "GRACEFUL", "UNGRACEFUL"}

Init ==
    /\ FdInit
    /\ main = "read" /\ rv = "INIT" /\ iter = 0
    /\ start = "running" /\ created = {}
    /\ listener = "unborn" /\ have_idle_worker = FALSE
    /\ ptrans = None /\ peeked = <<>> /\ csd = None
    /\ pc = [w \in Worker |-> "unborn"]
    /\ is_idle = [w \in Worker |-> FALSE]
    /\ sd = [w \in Worker |-> None]
    /\ pool = [w \in Worker |-> None]
    /\ count = [w \in Worker |-> 0]
    /\ worker_sockets = [w \in Worker |-> None]
    /\ terminate_mode = "INIT"
    /\ listener_may_exit = FALSE
    /\ workers_may_exit = FALSE
    /\ start_thread_may_exit = FALSE
    /\ requests_this_child =
         IF MaxRequestsPerChild = 0 THEN INT_MAX ELSE MaxRequestsPerChild
    /\ outcome = [c \in Conn |-> "new"]
    /\ stray = {} /\ overlooked = FALSE
    /\ exit = "no"

-----------------------------------------------------------------------------
(* start_threads.  A slot of the scoreboard is taken over when the thread  *)
(* of the previous generation has left it, which may be never.             *)

StartWorker(w) ==
    /\ start = "running"
    /\ w \notin created
    /\ created' = created \cup {w}
    /\ pc' = [pc EXCEPT ![w] = "loop"]
    /\ UNCHANGED <<start, fdVars, mainVars, listenerVars, is_idle, sd, pool, count,
                   worker_sockets, flagVars, otherVars>>

StartListener ==
    /\ start = "running"
    /\ listener = "unborn"
    /\ created # {}
    /\ listener' = "top"
    /\ UNCHANGED <<startVars, fdVars, mainVars, have_idle_worker, ptrans, peeked, csd,
                   workerVars, flagVars, otherVars>>

StartEnd ==
    /\ start = "running"
    /\ created # {} => listener # "unborn"
    /\ start_thread_may_exit \/ created = Worker
    /\ start' = "over"
    /\ UNCHANGED <<created, fdVars, mainVars, listenerVars, workerVars, flagVars, otherVars>>

\* apr_thread_create fails: the process exits, whatever its threads are doing.
StartFails ==
    /\ start = "running"
    /\ created # Worker \/ listener = "unborn"
    /\ exit' = "aborted"
    /\ UNCHANGED <<fdVars, mainVars, startVars, listenerVars, workerVars, flagVars,
                   requests_this_child, outcome, stray, overlooked>>

-----------------------------------------------------------------------------
(* signal_threads(ST_GRACEFUL), called by the listener itself.             *)

SignalGraceful ==
    /\ terminate_mode' = "GRACEFUL"
    /\ listener_may_exit' = (terminate_mode # "GRACEFUL" \/ listener_may_exit)
    /\ UNCHANGED <<workers_may_exit, start_thread_may_exit>>

\* The head of the listener's loop, check_infinite_requests included.
ListenerTop ==
    /\ listener = "top"
    /\ IF requests_this_child <= 0 /\ MaxRequestsPerChild # 0
       THEN SignalGraceful /\ UNCHANGED requests_this_child
       ELSE /\ requests_this_child' = IF requests_this_child <= 0 THEN INT_MAX
                                      ELSE requests_this_child
            /\ UNCHANGED flagVars
    /\ listener' = IF listener_may_exit' THEN "term"
                   ELSE IF have_idle_worker THEN "lock" ELSE "idlers"
    /\ UNCHANGED <<fdVars, mainVars, startVars, have_idle_worker, ptrans, peeked, csd,
                   workerVars, outcome, stray, overlooked, exit>>

\* The unprotected test of idlers.
ListenerIdlers ==
    /\ listener = "idlers"
    /\ ptrans' = None
    /\ listener' = IF idlers = 0 THEN "block" ELSE "reserve"
    /\ UNCHANGED <<fdVars, mainVars, startVars, have_idle_worker, peeked, csd, workerVars,
                   flagVars, otherVars>>

\* The while loop under idlers_mutex; waking up is to come back to its test.
ListenerBlock ==
    /\ listener = "block"
    /\ ~idlerWait
    /\ \/ BlockForIdler /\ UNCHANGED listener
       \/ idlers # 0 /\ listener' = "reserve" /\ UNCHANGED idlerWait
    /\ UNCHANGED <<queue, notEmpty, terminated, idlers, infoTerminated, recycled, mainVars,
                   startVars, have_idle_worker, ptrans, peeked, csd, workerVars, flagVars,
                   otherVars>>

\* A seeded fault: the count is not decremented.
ListenerReserveNoDec ==
    /\ listener = "reserve"
    /\ have_idle_worker' = TRUE
    /\ listener' = "peek"
    /\ UNCHANGED <<fdVars, mainVars, startVars, ptrans, peeked, csd, workerVars, flagVars,
                   otherVars>>

\* The worker is reserved from here on, though have_idle_worker is set at the return.
ListenerReserve ==
    /\ listener = "reserve"
    /\ DecIdlers
    /\ have_idle_worker' = TRUE
    /\ listener' = "peek"
    /\ UNCHANGED <<queue, notEmpty, terminated, idlerWait, infoTerminated, recycled, mainVars,
                   startVars, ptrans, peeked, csd, workerVars, flagVars, otherVars>>

\* The end of ap_queue_info_wait_for_idler: APR_EOF or APR_SUCCESS.
AfterWaitForIdler == IF infoTerminated THEN "term" ELSE "lock"

ListenerPeekPool ==
    /\ listener = "peek"
    /\ peeked' = recycled
    /\ listener' = IF recycled = <<>> THEN AfterWaitForIdler ELSE "swap"
    /\ UNCHANGED <<fdVars, mainVars, startVars, have_idle_worker, ptrans, csd, workerVars,
                   flagVars, otherVars>>

\* A seeded fault: the list is overwritten though another thread has changed it.
ListenerSwapPoolBlind ==
    /\ listener = "swap"
    /\ recycled' = Tail(peeked)
    /\ ptrans' = Head(peeked)
    /\ listener' = AfterWaitForIdler
    /\ peeked' = <<>>
    /\ UNCHANGED <<queue, notEmpty, terminated, idlers, idlerWait, infoTerminated, mainVars,
                   startVars, have_idle_worker, csd, workerVars, flagVars, otherVars>>

ListenerSwapPool ==
    /\ listener = "swap"
    /\ IF Head(recycled) = Head(peeked)
       THEN /\ SwapPool(Head(peeked), Tail(peeked))
            /\ ptrans' = Head(peeked)
            /\ listener' = AfterWaitForIdler
       ELSE /\ listener' = "peek"
            /\ UNCHANGED <<recycled, ptrans>>
    /\ peeked' = <<>>
    /\ UNCHANGED <<queue, notEmpty, terminated, idlers, idlerWait, infoTerminated, mainVars,
                   startVars, have_idle_worker, csd, workerVars, flagVars, otherVars>>

\* apr_proc_mutex_lock(accept_mutex) returns, when the other children let it.
ListenerLock ==
    /\ listener = "lock"
    /\ listener' = IF Poll THEN "poll" ELSE "ready"
    /\ UNCHANGED <<fdVars, mainVars, startVars, have_idle_worker, ptrans, peeked, csd,
                   workerVars, flagVars, otherVars>>

ListenerLockFails ==
    /\ listener = "lock"
    /\ IF listener_may_exit THEN UNCHANGED flagVars ELSE SignalGraceful
    /\ listener' = "term"
    /\ UNCHANGED <<fdVars, mainVars, startVars, have_idle_worker, ptrans, peeked, csd,
                   workerVars, otherVars>>

\* The test of the while loop; the call of apr_pollset_poll is a step of its own.
ListenerPoll ==
    /\ listener = "poll"
    /\ listener' = IF listener_may_exit THEN "ready" ELSE "enterPoll"
    /\ UNCHANGED <<fdVars, mainVars, startVars, have_idle_worker, ptrans, peeked, csd,
                   workerVars, flagVars, otherVars>>

ListenerEnterPoll ==
    /\ listener = "enterPoll"
    /\ listener' = "polling"
    /\ UNCHANGED <<fdVars, mainVars, startVars, have_idle_worker, ptrans, peeked, csd,
                   workerVars, flagVars, otherVars>>

\* apr_pollset_poll returns a descriptor, or fails for good.
ListenerPolled ==
    /\ listener = "polling"
    /\ UNCHANGED flagVars \/ SignalGraceful
    /\ listener' = "ready"
    /\ UNCHANGED <<fdVars, mainVars, startVars, have_idle_worker, ptrans, peeked, csd,
                   workerVars, otherVars>>

PoolsInUse ==
    {ptrans} \cup {pool[w] : w \in Worker} \cup {recycled[i] : i \in DOMAIN recycled}
             \cup {queue[i].p : i \in DOMAIN queue}

\* A seeded fault: no pool is created when none was recycled.
ListenerReadyNoPool ==
    /\ listener = "ready"
    /\ listener' = IF listener_may_exit THEN "quit" ELSE "enterAccept"
    /\ UNCHANGED <<fdVars, mainVars, startVars, have_idle_worker, ptrans, peeked, csd,
                   workerVars, flagVars, otherVars>>

\* The last look at listener_may_exit before accept; a pool is created if none is left over.
ListenerReady ==
    /\ listener = "ready"
    /\ IF listener_may_exit
       THEN listener' = "quit" /\ UNCHANGED ptrans
       ELSE /\ listener' = "enterAccept"
            /\ \E p \in Pool : p \notin PoolsInUse      \* memory is not what is modelled
            /\ ptrans' = IF ptrans = None THEN CHOOSE p \in Pool : p \notin PoolsInUse
                                          ELSE ptrans
    /\ UNCHANGED <<fdVars, mainVars, startVars, have_idle_worker, peeked, csd, workerVars,
                   flagVars, otherVars>>

ListenerEnterAccept ==
    /\ listener = "enterAccept"
    /\ listener' = "accepting"
    /\ UNCHANGED <<fdVars, mainVars, startVars, have_idle_worker, ptrans, peeked, csd,
                   workerVars, flagVars, otherVars>>

\* A client connects: accept returns a socket not seen before.
ListenerAccept ==
    /\ listener = "accepting"
    /\ \E c \in Conn : outcome[c] = "new"
    /\ csd' = CHOOSE c \in Conn : outcome[c] = "new"
    /\ outcome' = [outcome EXCEPT ![csd'] = "accepted"]
    /\ listener' = "unlock"
    /\ UNCHANGED <<fdVars, mainVars, startVars, have_idle_worker, ptrans, peeked, workerVars,
                   flagVars, requests_this_child, stray, overlooked, exit>>

\* accept fails; with APR_EGENERAL (no more descriptors or memory) the child stops.
ListenerAcceptFails ==
    /\ listener = "accepting"
    /\ UNCHANGED flagVars \/ SignalGraceful
    /\ listener' = "unlock"
    /\ UNCHANGED <<fdVars, mainVars, startVars, have_idle_worker, ptrans, peeked, csd,
                   workerVars, otherVars>>

AfterUnlock == IF csd = None THEN "top" ELSE "push"

ListenerUnlock ==
    /\ listener = "unlock"
    /\ listener' = AfterUnlock
    /\ UNCHANGED <<fdVars, mainVars, startVars, have_idle_worker, ptrans, peeked, csd,
                   workerVars, flagVars, otherVars>>

\* A listener that may exit leaves at once, with the socket it has accepted.
ListenerUnlockFails ==
    /\ listener = "unlock"
    /\ IF listener_may_exit
       THEN /\ listener' = "term"
            /\ outcome' = IF csd = None THEN outcome ELSE [outcome EXCEPT ![csd] = "dropped"]
            /\ UNCHANGED flagVars
       ELSE /\ SignalGraceful
            /\ listener' = AfterUnlock
            /\ UNCHANGED outcome
    /\ UNCHANGED <<fdVars, mainVars, startVars, have_idle_worker, ptrans, peeked, csd,
                   workerVars, requests_this_child, stray, overlooked, exit>>

\* A seeded fault: the reservation is used again for the next socket.
ListenerPushKeepsReservation ==
    /\ listener = "push"
    /\ ap_queue_push(csd, ptrans)
    /\ csd' = None
    /\ ptrans' = None
    /\ listener' = "top"
    /\ UNCHANGED <<terminated, idlers, idlerWait, infoTerminated, recycled, mainVars, startVars,
                   have_idle_worker, peeked, workerVars, flagVars, otherVars>>

ListenerPush ==
    /\ listener = "push"
    /\ ap_queue_push(csd, ptrans)
    /\ have_idle_worker' = FALSE
    /\ csd' = None
    /\ ptrans' = None
    /\ listener' = "top"
    /\ UNCHANGED <<terminated, idlers, idlerWait, infoTerminated, recycled, mainVars, startVars,
                   peeked, workerVars, flagVars, otherVars>>

\* The unlock before the last break; that it fails changes only the mode.
ListenerQuit ==
    /\ listener = "quit"
    /\ UNCHANGED flagVars \/ SignalGraceful
    /\ listener' = "term"
    /\ UNCHANGED <<fdVars, mainVars, startVars, have_idle_worker, ptrans, peeked, csd,
                   workerVars, otherVars>>

\* ap_close_listeners, and the first half of ap_queue_term.
ListenerTerm ==
    /\ listener = "term"
    /\ SetTerminated
    /\ listener' = "interrupt"
    /\ UNCHANGED <<queue, notEmpty, idlers, idlerWait, infoTerminated, recycled, mainVars,
                   startVars, have_idle_worker, ptrans, peeked, csd, workerVars, flagVars,
                   otherVars>>

ListenerInterrupt ==
    /\ listener = "interrupt"
    /\ ap_queue_interrupt_all
    /\ listener' = "kill"
    /\ UNCHANGED <<queue, terminated, idlers, idlerWait, infoTerminated, recycled, mainVars,
                   startVars, have_idle_worker, ptrans, peeked, csd, workerVars, flagVars,
                   otherVars>>

\* SIGTERM has an effect on the main thread only while it is in read().
InterruptMain == main' = IF main = "reading" THEN "eintr" ELSE main

ListenerKill ==
    /\ listener = "kill"
    /\ InterruptMain
    /\ listener' = "exited"
    /\ UNCHANGED <<fdVars, rv, iter, startVars, have_idle_worker, ptrans, peeked, csd,
                   workerVars, flagVars, otherVars>>

ListenerStep ==
    \/ ListenerTop \/ ListenerIdlers \/ ListenerBlock \/ ListenerReserve
    \/ ListenerPeekPool \/ ListenerSwapPool \/ ListenerLock \/ ListenerPoll
    \/ ListenerEnterPoll \/ ListenerReady \/ ListenerEnterAccept \/ ListenerUnlock
    \/ ListenerPush \/ ListenerQuit \/ ListenerTerm \/ ListenerInterrupt \/ ListenerKill

ListenerFails ==
    ListenerLockFails \/ ListenerAcceptFails \/ ListenerUnlockFails

-----------------------------------------------------------------------------
(* worker_thread.                                                          *)

Goto(w, place) == pc' = [pc EXCEPT ![w] = place]

WorkerLoop(w) ==
    /\ pc[w] = "loop"
    /\ Goto(w, IF workers_may_exit THEN "exited"
               ELSE IF pool[w] = None THEN "idle" ELSE "recycle")
    /\ UNCHANGED <<fdVars, mainVars, startVars, listenerVars, is_idle, sd, pool, count,
                   worker_sockets, flagVars, otherVars>>

WorkerRecycle(w) ==
    /\ pc[w] = "recycle"
    /\ RecyclePool(pool[w])
    /\ pool' = [pool EXCEPT ![w] = None]
    /\ Goto(w, "idle")
    /\ UNCHANGED <<queue, notEmpty, terminated, idlers, idlerWait, infoTerminated, mainVars,
                   startVars, listenerVars, is_idle, sd, count, worker_sockets, flagVars,
                   otherVars>>

WorkerIdle(w) ==
    /\ pc[w] = "idle"
    /\ IncIdlers
    /\ is_idle' = [is_idle EXCEPT ![w] = TRUE]
    /\ Goto(w, IF idlers = 0 THEN "signal" ELSE "check")
    /\ UNCHANGED <<queue, notEmpty, terminated, idlerWait, infoTerminated, recycled, mainVars,
                   startVars, listenerVars, sd, pool, count, worker_sockets, flagVars,
                   otherVars>>

WorkerSignal(w) ==
    /\ pc[w] = "signal"
    /\ SignalIdler
    /\ Goto(w, "check")
    /\ UNCHANGED <<queue, notEmpty, terminated, idlers, infoTerminated, recycled, mainVars,
                   startVars, listenerVars, is_idle, sd, pool, count, worker_sockets, flagVars,
                   otherVars>>

\* A seeded fault: the worker leaves as soon as the queue is terminated.
WorkerCheckTerminated(w) ==
    /\ pc[w] = "check"
    /\ Goto(w, IF workers_may_exit \/ terminated THEN "exited" ELSE "pop")
    /\ UNCHANGED <<fdVars, mainVars, startVars, listenerVars, is_idle, sd, pool, count,
                   worker_sockets, flagVars, otherVars>>

\* The label worker_pop.
WorkerCheck(w) ==
    /\ pc[w] = "check"
    /\ Goto(w, IF workers_may_exit THEN "exited" ELSE "pop")
    /\ UNCHANGED <<fdVars, mainVars, startVars, listenerVars, is_idle, sd, pool, count,
                   worker_sockets, flagVars, otherVars>>

\* ap_queue_pop, from the lock ("pop") or from the return of cond_wait ("wait").
WorkerTake(w) ==
    /\ pc[w] = "pop" \/ (pc[w] = "wait" /\ w \notin notEmpty)
    /\ PopElem
    /\ sd' = [sd EXCEPT ![w] = Popped.sd]
    /\ pool' = [pool EXCEPT ![w] = Popped.p]
    /\ is_idle' = [is_idle EXCEPT ![w] = FALSE]
    /\ Goto(w, "popped")
    /\ stray' = stray \ {w}
    /\ UNCHANGED <<notEmpty, terminated, idlers, idlerWait, infoTerminated, recycled, mainVars,
                   startVars, listenerVars, count, worker_sockets, flagVars,
                   requests_this_child, outcome, overlooked, exit>>

WorkerBlock(w) ==
    /\ pc[w] = "pop"
    /\ BlockForElem(w)
    /\ Goto(w, "wait")
    /\ UNCHANGED <<queue, terminated, idlers, idlerWait, infoTerminated, recycled, mainVars,
                   startVars, listenerVars, is_idle, sd, pool, count, worker_sockets, flagVars,
                   otherVars>>

WorkerFindsNothing(w) ==
    /\ ap_queue_empty
    /\ \/ pc[w] = "pop" /\ terminated
       \/ pc[w] = "wait" /\ w \notin notEmpty
    /\ Goto(w, "unlocked")
    /\ UNCHANGED <<fdVars, mainVars, startVars, listenerVars, is_idle, sd, pool, count,
                   worker_sockets, flagVars, otherVars>>

WorkerPopStatus(w) ==
    /\ pc[w] = "unlocked"
    /\ Goto(w, IF PopStatus = "EOF" THEN "exited" ELSE "check")
    /\ stray' = stray \ {w}
    /\ overlooked' = (overlooked \/ (w \in stray /\ PopStatus = "EOF" /\ ~ap_queue_empty))
    /\ UNCHANGED <<fdVars, mainVars, startVars, listenerVars, is_idle, sd, pool, count,
                   worker_sockets, flagVars, requests_this_child, outcome, exit>>

WorkerRegister(w) ==
    /\ pc[w] = "popped"
    /\ worker_sockets' = [worker_sockets EXCEPT ![w] = sd[w]]
    /\ Goto(w, "serving")
    /\ UNCHANGED <<fdVars, mainVars, startVars, listenerVars, is_idle, sd, pool, count,
                   flagVars, otherVars>>

\* process_socket returns.
WorkerServed(w) ==
    /\ pc[w] = "serving"
    /\ outcome' = [outcome EXCEPT ![sd[w]] = IF @ = "killed" THEN @ ELSE "served"]
    /\ sd' = [sd EXCEPT ![w] = None]
    /\ worker_sockets' = [worker_sockets EXCEPT ![w] = None]
    /\ Goto(w, "load")
    /\ UNCHANGED <<fdVars, mainVars, startVars, listenerVars, is_idle, pool, count, flagVars,
                   requests_this_child, stray, overlooked, exit>>

\* requests_this_child-- is a load and a store.
WorkerLoad(w) ==
    /\ pc[w] = "load"
    /\ count' = [count EXCEPT ![w] = requests_this_child]
    /\ Goto(w, "store")
    /\ UNCHANGED <<fdVars, mainVars, startVars, listenerVars, is_idle, sd, pool,
                   worker_sockets, flagVars, otherVars>>

WorkerStore(w) ==
    /\ pc[w] = "store"
    /\ requests_this_child' = count[w] - 1
    /\ count' = [count EXCEPT ![w] = 0]
    /\ Goto(w, "loop")
    /\ UNCHANGED <<fdVars, mainVars, startVars, listenerVars, is_idle, sd, pool,
                   worker_sockets, flagVars, outcome, stray, overlooked, exit>>

WorkerStep(w) ==
    \/ WorkerLoop(w) \/ WorkerRecycle(w) \/ WorkerIdle(w) \/ WorkerSignal(w)
    \/ WorkerCheck(w) \/ WorkerTake(w) \/ WorkerBlock(w) \/ WorkerFindsNothing(w)
    \/ WorkerPopStatus(w) \/ WorkerRegister(w) \/ WorkerServed(w) \/ WorkerLoad(w)
    \/ WorkerStore(w)

-----------------------------------------------------------------------------
(* Spurious wakeups.                                                       *)

WorkerStray(w) ==
    /\ pc[w] = "wait"
    /\ StrayNotEmpty(w)
    /\ stray' = stray \cup {w}
    /\ UNCHANGED <<queue, terminated, idlers, idlerWait, infoTerminated, recycled, mainVars,
                   startVars, listenerVars, workerVars, flagVars, requests_this_child, outcome,
                   overlooked, exit>>

ListenerStray ==
    /\ StrayIdler
    /\ UNCHANGED <<queue, notEmpty, terminated, idlers, infoTerminated, recycled, mainVars,
                   startVars, listenerVars, workerVars, flagVars, otherVars>>

-----------------------------------------------------------------------------
(* child_main, from the loop on the pipe of death.                         *)

\* A SIGTERM from outside the process.
StraySigterm ==
    /\ main = "reading"
    /\ InterruptMain
    /\ UNCHANGED <<fdVars, rv, iter, startVars, listenerVars, workerVars, flagVars, otherVars>>

MainBlock ==
    /\ main = "read"
    /\ main' = "reading"
    /\ UNCHANGED <<fdVars, rv, iter, startVars, listenerVars, workerVars, flagVars, otherVars>>

\* join_start_thread, up to the join.
JoinStartThread(mode) ==
    /\ main' = "joinStart"
    /\ rv' = mode
    /\ start_thread_may_exit' = TRUE

\* The parent has written a byte: read() returns it, whether it had blocked or not.
MainRead(m) ==
    /\ main \in {"read", "reading"}
    /\ JoinStartThread(m)
    /\ UNCHANGED <<fdVars, iter, startVars, listenerVars, workerVars, terminate_mode,
                   listener_may_exit, workers_may_exit, otherVars>>

MainInterrupted ==
    /\ main = "eintr"
    /\ IF terminate_mode = "INIT"
       THEN main' = "read" /\ UNCHANGED <<rv, start_thread_may_exit>>
       ELSE JoinStartThread(terminate_mode)
    /\ UNCHANGED <<fdVars, iter, startVars, listenerVars, workerVars, terminate_mode,
                   listener_may_exit, workers_may_exit, otherVars>>

\* pthread_kill interrupts the listener in poll or accept.  It is lost anywhere else, just
\* before these calls too.
WakeupListener ==
    /\ listener_may_exit' = TRUE
    /\ listener' = CASE listener = "polling" -> "poll"
                     [] listener = "accepting" -> "unlock"
                     [] OTHER -> listener
    /\ UNCHANGED <<have_idle_worker, ptrans, peeked, csd>>

\* signal_threads, up to wakeup_listener.
MainSignalThreads ==
    /\ main = "joinStart"
    /\ start = "over"
    /\ IF terminate_mode = rv
       THEN main' = "joinListener" /\ UNCHANGED <<terminate_mode, listener_may_exit, listenerVars>>
       ELSE /\ terminate_mode' = rv
            /\ WakeupListener
            /\ main' = IF rv = "UNGRACEFUL" THEN "mayExit" ELSE "joinListener"
    /\ UNCHANGED <<fdVars, rv, iter, startVars, workerVars, workers_may_exit,
                   start_thread_may_exit, otherVars>>

MainWorkersMayExit ==
    /\ main = "mayExit"
    /\ workers_may_exit' = TRUE
    /\ main' = "interruptAll"
    /\ UNCHANGED <<fdVars, rv, iter, startVars, listenerVars, workerVars, terminate_mode,
                   listener_may_exit, start_thread_may_exit, otherVars>>

MainInterruptAll ==
    /\ main = "interruptAll"
    /\ ap_queue_interrupt_all
    /\ main' = "infoTerm"
    /\ UNCHANGED <<queue, terminated, idlers, idlerWait, infoTerminated, recycled, rv, iter,
                   startVars, listenerVars, workerVars, flagVars, otherVars>>

MainInfoTerm ==
    /\ main = "infoTerm"
    /\ ap_queue_info_term
    /\ main' = "closeSockets"
    /\ UNCHANGED <<queue, notEmpty, terminated, idlers, recycled, rv, iter, startVars,
                   listenerVars, workerVars, flagVars, otherVars>>

close_worker_sockets ==
    /\ main = "closeSockets"
    /\ outcome' = [c \in Conn |-> IF \E w \in Worker : worker_sockets[w] = c THEN "killed"
                                  ELSE outcome[c]]
    /\ worker_sockets' = [w \in Worker |-> None]
    /\ main' = "joinListener"
    /\ UNCHANGED <<fdVars, rv, iter, startVars, listenerVars, pc, is_idle, sd, pool, count,
                   flagVars, requests_this_child, stray, overlooked, exit>>

\* After half a second a listener that can run has come to a call that blocks.
ListenerBlocked == listener \in {"lock", "polling", "accepting", "block"}

\* A seeded fault: the flag is set again, but the signal is not sent.
MainWakeListenerSilent ==
    /\ main = "joinListener"
    /\ ListenerBlocked
    /\ iter < WakeTries
    /\ iter' = iter + 1
    /\ listener_may_exit' = TRUE
    /\ UNCHANGED <<fdVars, main, rv, startVars, listenerVars, workerVars, terminate_mode,
                   workers_may_exit, start_thread_may_exit, otherVars>>

MainWakeListener ==
    /\ main = "joinListener"
    /\ ListenerBlocked
    /\ iter < WakeTries
    /\ iter' = iter + 1
    /\ WakeupListener
    /\ UNCHANGED <<fdVars, main, rv, startVars, workerVars, terminate_mode, workers_may_exit,
                   start_thread_may_exit, otherVars>>

\* The listener never was, has been joined, or is given up.
MainJoinListener ==
    /\ main = "joinListener"
    /\ listener \in {"unborn", "exited"} \/ iter = WakeTries
    /\ main' = "joinWorkers"
    /\ UNCHANGED <<fdVars, rv, iter, startVars, listenerVars, workerVars, flagVars, otherVars>>

MainExit ==
    /\ main = "joinWorkers"
    /\ \A w \in created : pc[w] = "exited"
    /\ exit' = "done"
    /\ UNCHANGED <<fdVars, mainVars, startVars, listenerVars, workerVars, flagVars,
                   requests_this_child, outcome, stray, overlooked>>

MainStep ==
    \/ MainBlock \/ MainInterrupted \/ MainSignalThreads \/ MainWorkersMayExit
    \/ MainInterruptAll \/ MainInfoTerm \/ close_worker_sockets \/ MainWakeListener
    \/ MainJoinListener \/ MainExit

-----------------------------------------------------------------------------
Exited == exit # "no" /\ UNCHANGED vars

Next ==
    \/ /\ exit = "no"
       /\ \/ \E w \in Worker : StartWorker(w) \/ WorkerStep(w)
          \/ StartListener \/ StartEnd \/ StartFails
          \/ ListenerStep \/ ListenerPolled \/ ListenerAccept \/ ListenerFails
          \/ \E m \in {"GRACEFUL", "UNGRACEFUL"} : MainRead(m)
          \/ StraySigterm \/ ListenerStray \/ \E w \in Worker : WorkerStray(w)
          \/ MainStep
    \/ Exited

Spec == Init /\ [][Next]_vars

(***************************************************************************)
(* Threads are scheduled; the accept mutex comes round; a request ends.    *)
(* Nothing is asked of clients, of the parent, of the previous generation. *)
(***************************************************************************)
Running(A) == exit = "no" /\ A

Fairness ==
    /\ \A w \in Worker : WF_vars(Running(WorkerStep(w)))
    /\ WF_vars(Running(StartListener)) /\ WF_vars(Running(StartEnd))
    /\ WF_vars(Running(ListenerStep))
    /\ WF_vars(Running(MainStep))

FairSpec == Spec /\ Fairness

-----------------------------------------------------------------------------
(* Properties.                                                             *)

FlagsOK ==
    /\ terminated \in BOOLEAN /\ infoTerminated \in BOOLEAN /\ idlerWait \in BOOLEAN
    /\ have_idle_worker \in BOOLEAN
    /\ listener_may_exit \in BOOLEAN /\ workers_may_exit \in BOOLEAN
    /\ start_thread_may_exit \in BOOLEAN

\* Every variable of the process holds a value of its type; pools and sockets are never mixed.
TypeOK ==
    /\ FlagsOK
    /\ queue \in Seq([sd : Conn, p : Pool])
    /\ notEmpty \subseteq Worker
    /\ idlers \in Nat
    /\ recycled \in Seq(Pool) /\ peeked \in Seq(Pool)
    /\ main \in {"read", "reading", "eintr", "joinStart", "mayExit", "interruptAll", "infoTerm",
                 "closeSockets", "joinListener", "joinWorkers"}
    /\ rv \in Modes /\ terminate_mode \in Modes
    /\ iter \in 0 .. WakeTries
    /\ start \in {"running", "over"} /\ created \subseteq Worker
    /\ listener \in {"unborn", "top", "idlers", "block", "reserve", "peek", "swap", "lock", "poll",
                     "enterPoll", "polling", "ready", "enterAccept", "accepting", "unlock",
                     "push", "quit", "term", "interrupt", "kill", "exited"}
    /\ ptrans \in Pool \cup {None} /\ csd \in Conn \cup {None}
    /\ pc \in [Worker -> {"unborn", "loop", "recycle", "idle", "signal", "check", "pop", "wait",
                          "unlocked", "popped", "serving", "load", "store", "exited"}]
    /\ is_idle \in [Worker -> BOOLEAN]
    /\ sd \in [Worker -> Conn \cup {None}]
    /\ pool \in [Worker -> Pool \cup {None}]
    /\ count \in [Worker -> Int] /\ requests_this_child \in Int
    /\ worker_sockets \in [Worker -> Conn \cup {None}]
    /\ outcome \in [Conn -> {"new", "accepted", "served", "killed", "dropped"}]
    /\ stray \subseteq Worker /\ overlooked \in BOOLEAN
    /\ exit \in {"no", "done", "aborted"}

(***************************************************************************)
(* The account that replaces a test for room in ap_queue_push: the workers *)
(* that wait for a socket are as many as are counted idle, reserved by the *)
(* listener, or owed an element of the queue.                              *)
(***************************************************************************)
IdleAccount ==
    idlers + (IF have_idle_worker THEN 1 ELSE 0) + Len(queue)
        = Cardinality({w \in Worker : is_idle[w]})

\* The two assertions of ap_queue_push hold whenever the listener calls it.
PushIsSafe == listener = "push" => ~terminated /\ ~ap_queue_full

(***************************************************************************)
(* A transaction pool is with the listener, with one worker, in one        *)
(* element of the queue or once in the recycled list; since a worker gives *)
(* its pool back before it counts itself idle, there is never more than    *)
(* one pool per worker.                                                    *)
(***************************************************************************)
PoolsExclusive ==
    /\ \A p \in Pool :
          Cardinality({w \in Worker : pool[w] = p})
            + Cardinality({i \in DOMAIN recycled : recycled[i] = p})
            + Cardinality({i \in DOMAIN queue : queue[i].p = p})
            + (IF ptrans = p THEN 1 ELSE 0) <= 1
    /\ Cardinality(PoolsInUse \ {None}) <= bounds

\* No interleaving of the compare-and-swap loops makes a pool disappear.
PoolsNeverLost == [][PoolsInUse \ {None} \subseteq PoolsInUse']_vars

(***************************************************************************)
(* An accepted socket that is not yet served is in one place only: with    *)
(* the listener, in the queue, or with one worker.                         *)
(***************************************************************************)
SocketsExclusive ==
    \A c \in Conn :
        LET places == Cardinality({w \in Worker : sd[w] = c})
                        + Cardinality({i \in DOMAIN queue : queue[i].sd = c})
                        + (IF csd = c THEN 1 ELSE 0)
        IN  /\ outcome[c] \in {"new", "served"} => places = 0
            /\ outcome[c] \in {"accepted", "dropped"} => places = 1
            /\ outcome[c] = "killed" => places <= 1

Service == INSTANCE ConnectionService
             WITH stopping <- listener_may_exit, forced <- workers_may_exit

(***************************************************************************)
(* The threads together keep the promise of ConnectionService: only a      *)
(* worker that a spurious wakeup brought to ap_queue_pop can make a        *)
(* graceful stop leave a socket, and only a listener that is told to stop  *)
(* drops one.                                                              *)
(***************************************************************************)
ImplementsService == Service!Spec

(***************************************************************************)
(* No accepted socket stays behind: when the clients (finitely many) have   *)
(* all been accepted, all are served in the end, or the process ends, or a  *)
(* spurious wakeup has cost it its last worker.                             *)
(***************************************************************************)
Pending == {c \in Conn : outcome[c] = "accepted"}

NobodyLeft == overlooked /\ \A w \in created : pc[w] = "exited"

AcceptedIsServed == Pending # {} ~> (Pending = {} \/ exit # "no" \/ NobodyLeft)

\* A child whose main thread has read the order to stop ends, whatever its threads are doing.
StopsWhenTold == main = "joinStart" ~> exit # "no"

(***************************************************************************)
(* A graceful stop tells the workers to exit "once all the connections      *)
(* accepted by this server process have been handled" (worker.c:864-866).   *)
(***************************************************************************)
GracefulServesAll == exit = "done" /\ ~workers_may_exit => Pending = {}

(***************************************************************************)
(* worker.c:1249-1252: a thread that needs to take the process down "will  *)
(* send us SIGTERM".                                                       *)
(***************************************************************************)
SigtermTakesDown == listener = "exited" ~> exit # "no"

=============================================================================
