------------------------------- MODULE FdQueue -------------------------------
(***************************************************************************)
(* server/mpm/worker/fdqueue.c of httpd: the stack of accepted sockets     *)
(* that the listener thread hands to the worker threads, and the account   *)
(* of idle workers and of recycled transaction pools.                      *)
(*                                                                         *)
(* What a thread does between lock and unlock of one_big_mutex, or between *)
(* lock and cond_wait, is one step: the data of the queue is only touched  *)
(* with the mutex held.  The exception is kept: ap_queue_pop reads         *)
(* terminated after the unlock (PopStatus).  A compare-and-swap loop is    *)
(* one step, at the swap that succeeds; the loop that pops a recycled pool *)
(* is two (PeekPool, SwapPool), because it reads next before the swap.     *)
(* A cond_wait may return though nobody has signalled: "Spurious wakeups   *)
(* may occur" (srclib/apr/include/apr_thread_cond.h:73).                   *)
(***************************************************************************)
EXTENDS Integers, Sequences, FiniteSets

CONSTANTS
    Worker,         \* the worker threads; ap_threads_per_child of them
    Conn,           \* sockets that accept may return
    Pool,           \* transaction pools
    None,           \* the null pointer
    INT_MAX         \* larger than any count of an instance

VARIABLES
    queue,          \* data[0 .. nelts-1], records of a socket and its pool
    notEmpty,       \* workers waiting on not_empty
    terminated,     \* fd_queue_t.terminated
    idlers,         \* count of idle workers
    idlerWait,      \* the listener is waiting on wait_for_idler
    infoTerminated, \* fd_queue_info_t.terminated
    recycled        \* the list recycled_pools, first element first

fdVars == <<queue, notEmpty, terminated, idlers, idlerWait, infoTerminated, recycled>>

bounds == Cardinality(Worker)

ap_queue_full == Len(queue) = bounds

ap_queue_empty == queue = <<>>

FdInit ==
    /\ queue = <<>>
    /\ notEmpty = {}
    /\ terminated = FALSE
    /\ idlers = 0
    /\ idlerWait = FALSE
    /\ infoTerminated = FALSE
    /\ recycled = <<>>

-----------------------------------------------------------------------------
(* ap_queue_info_set_idle, called by a worker.                             *)

RecyclePool(p) == recycled' = <<p>> \o recycled

\* The value before the increment, prev_idlers, is the caller's to look at.
IncIdlers == idlers' = idlers + 1

SignalIdler == idlerWait' = FALSE

\* The cond_wait of the listener returns for nothing.
StrayIdler == idlerWait /\ idlerWait' = FALSE

(* ap_queue_info_wait_for_idler, called by the listener.  The test of the  *)
(* while loop and the cond_wait are one step.                              *)

BlockForIdler ==
    /\ idlers = 0
    /\ idlerWait' = TRUE

\* apr_uint32_t: below zero it wraps.
DecIdlers == idlers' = IF idlers = 0 THEN 2 * INT_MAX + 1 ELSE idlers - 1

\* A seeded fault: the pool stays in the list.
SwapPoolKeeps(first, next) ==
    /\ recycled # <<>> /\ Head(recycled) = first
    /\ recycled' = recycled

\* Sets recycled to the chain that followed the first pool when it was read.
SwapPool(first, next) ==
    /\ recycled # <<>> /\ Head(recycled) = first
    /\ recycled' = next

ap_queue_info_term ==
    /\ infoTerminated' = TRUE
    /\ idlerWait' = FALSE

-----------------------------------------------------------------------------
(* ap_queue_push, ap_queue_pop, ap_queue_interrupt_all, ap_queue_term.      *)

SignalNotEmpty ==
    \/ notEmpty = {} /\ UNCHANGED notEmpty
    \/ \E w \in notEmpty : notEmpty' = notEmpty \ {w}

\* A seeded fault: no worker is woken.
ap_queue_pushSilent(sd, p) ==
    /\ queue' = Append(queue, [sd |-> sd, p |-> p])
    /\ UNCHANGED notEmpty

ap_queue_push(sd, p) ==
    /\ queue' = Append(queue, [sd |-> sd, p |-> p])
    /\ SignalNotEmpty

\* The element ap_queue_pop takes: the one pushed last.
Popped == queue[Len(queue)]

\* A seeded fault: the element stays in the queue.
PopElemKeeps ==
    /\ ~ap_queue_empty
    /\ queue' = queue

PopElem ==
    /\ ~ap_queue_empty
    /\ queue' = SubSeq(queue, 1, Len(queue) - 1)

BlockForElem(w) ==
    /\ ap_queue_empty
    /\ ~terminated
    /\ notEmpty' = notEmpty \cup {w}

\* The cond_wait of w returns for nothing.
StrayNotEmpty(w) ==
    /\ w \in notEmpty
    /\ notEmpty' = notEmpty \ {w}

\* What a pop that found nothing returns: terminated is read after the unlock.
PopStatus == IF terminated THEN "EOF" ELSE "EINTR"

ap_queue_interrupt_all == notEmpty' = {}

SetTerminated == terminated' = TRUE

=============================================================================
