# pipair and two concurrent parts of httpd: a verification project

The repository holds **pipair**, a program that finds likely bugs from a call graph: two
functions that most callers call together are believed to belong together, and a caller that
calls one of them without the other is reported. It exists in several versions (parts A, C
and D of a course project), each a single Java file that reads the output of
`opt -print-callgraph` from a pipe, together with a shell harness that runs the versions on
test programs and compares their output with gold files. The bulk of the repository by size
is `httpd-2.2.21`, the program that pipair (and Coverity) are run *on*; two of its parts, in
which several threads share state, are modelled too.

This directory models these programs in TLA+, checks the models with TLC and proves with
TLAPS every safety property that the passing runs check.

## 1. Inventory

| Component | Source | State | Operations | Status |
|---|---|---|---|---|
| opt and the pipe | `Group63/pi/partA/pipair`, used at `partA/pipair_java.java:37-62` | nodes not yet printed, node being printed | print a line, stop | environment (`CallGraphText`) |
| Part A | `Group63/pi/partA/pipair_java.java` | `location`, `nearByCallees`, current caller; three iterators of `printBug` | read a line, end of input; a loop step | modelled (`ScanCallGraph`, `PrintBug`, `PipairA`) |
| Part C, solution 1 | `Group63/pi/partC/pipair_java.java` | stack, visited set, level map, iterators of `reachReducedBug` | one per loop step | the search modelled (`ReachReducedBug`) |
| Part C, solution 2 | `Group63/pi/partC/pipair_java2.java` | `callerCallee`, the list `result` and the activations of `getCalleeExtend`, `callerCalleeExtend`, `location` | reading, `initInterLocation`, recursion, report | modelled (`PipairC2`) |
| Part D | `Group63/pi/partD/pipair_java.java` | `location` with ordered keys, `nearByCallees` as a list, `visit` | as part A, lines with two pairs | modelled (`PipairD`) |
| First version | `qi/partA/pipair_java.java` | `location`, and `map` from a callee to its neighbours | as part A | not modelled (section 7) |
| `timeout.sh` | `qi/partA/timeout.sh` | main shell, timer subshell, sleep, job, signals on their way | commands, traps, waits, exits | modelled (`TimeoutSh`) |
| `verify.sh` | `qi/partA/verify.sh` | counters, verdicts, output and gold file of a test | prepare, run and judge a test | modelled (`VerifySh`) |
| Child of the worker MPM | `qi/partB/httpd-2.2.21/server/mpm/worker/worker.c`, `fdqueue.c` | queue of sockets, idle count, recycled pools, stop flags, where each thread is | every step of main, starter, listener and worker threads | modelled (`FdQueue`, `WorkerChild`) |
| `mod_mem_cache` | `modules/cache/mod_mem_cache.c`, `cache_cache.c`; callers in `mod_cache.c`, `cache_storage.c` | hash table, priority queue, size, objects with reference counts; where each request is | open, create, store, recall, remove, cleanup | partly (`MemCache`) |
| Makefiles, wrappers, `clean.sh` | `qi/partA/*` | none of their own | | the pipe only |
| `pipair.c` | `qi/partA/c/pipair.c` | none: prints a fixed text | | not modelled |
| rest of httpd, Coverity output, reports | `qi/partB`, `proj/...` | | | not modelled: third-party code and data |

`proj/qi/partA/pipair_java.java` and `proj/qii/partB/sa_output/pipair_java.java` are the same
program as part A, `proj/qi/partC/pipair_C2.java` the same as solution 1,
`pipair_C1_2.java` the same as solution 2, and `src/proj/qi/partB/httpd-2.2.21` the same tree
as `src/qi/partB/httpd-2.2.21`; what is said of one holds for the others.

**Interaction.** `verify.sh` runs `timeout.sh 120 make`, which runs the wrapper `pipair`:
`opt ... 2>&1 >/dev/null | java pipair_java`. opt and java are two processes joined by a pipe;
java sees only lines and the end of the pipe. Within java everything is one thread: `main`
fills static maps, then `printBug` reads them; in part C solution 1 calls
`reachReducedBug` for every line that it is about to print, solution 2 expands the map of
callees before it. `timeout.sh` is two shells that stop each other with ALRM, a `sleep`
and the job. In a child of httpd the listener thread hands sockets to the workers over a
queue with a mutex and two condition variables; a worker that serves a request calls
`mod_cache`, whose provider `mod_mem_cache` keeps one table for all workers of the child.

**What is hard.**
* Static state that is reused from one caller, or one search, to the next.
* Iteration over hash maps and hash sets, in an order that no test controls.
* An input that stops anywhere (opt crashes, the pipe ends).
* Cycles in the call graph, and levels that are overwritten while a search still needs them.
* A list from which the first equal name is removed, shared by the branches of a recursion.
* Signals that race with the end of the job, with the installation of a trap, or with a
  `read()` that has not begun.
* Condition variables that wake up for nothing, and signals sent between the last test of a
  flag and the call that is to be interrupted.
* A push without a test for room, safe only because of an account of idle workers that is
  kept under another lock.
* Flags read behind the unlock; compare-and-swap loops on a shared list.
* Reference counts changed with and without the lock, while another request ejects the object.

**What makes each part correct.**
* Readers: after every line, the map holds exactly the callers of each callee and each pair.
* Reports: exactly the bugs of the (expanded, ordered) call graph, each once, whatever the
  order. The expansion ends on recursive call graphs too.
* Search of solution 1: it says true only for a partner within the level, finds what is
  within the level, and ends. Expansion of solution 2: exactly the ends of walks.
* Harness: the status of the job unless its time is over; nothing left running; PASS only for
  an output equal to the gold file.
* Worker child: each accepted socket is served once and by one worker, a graceful stop leaves
  none (with one exception, section 4), and a child that is told to stop ends.
* Cache: no object is freed under a request, none is left behind, table, queue and size agree.

`PROJECT.json` lists the hazards with their lines and the properties that watch over them.

## 2. Modules

```
LikelyPairs        what a bug is, on the call graph itself       (constant operators)
BugReport          abstract specification of a run               (instantiated by PipairA, PipairD)
CallGraphText      opt and the pipe
Location           the map location and its keys
  ScanCallGraph    main's loops, addValueToMap                   (+ CallGraphText)
  PrintBug         printBug of parts A and C
    PipairA        part A; refines BugReport
      MCPipairA    for TLC; test2 of the repository as an ASSUME
      PipairA_proofs
    PipairC2       part C, solution 2                            (+ CallGraphText)
      MCPipairC2, PipairC2_proofs
ReachReducedBug    reachReducedBug of part C, solution 1
  MCReachReducedBug, ReachReducedBug_proofs
OrderedPairs       what a bug is to part D
  PipairD          part D; refines BugReport                     (+ CallGraphText)
    MCPipairD, PipairD_proofs
TimeoutSh          timeout.sh
  VerifySh         verify.sh composed with it
    VerifySh_proofs
FdQueue            fdqueue.c
  WorkerChild      worker.c; refines ConnectionService
    WorkerChild_proofs
ConnectionService  what a child promises its clients
MemCache           mod_mem_cache.c, cache_cache.c
  MCMemCache, MemCache_proofs
SumFacts           lemmas: sums over finite sets, induction       (used by the proofs of
                   MemCache, VerifySh and PipairC2)
```

### Part A

| Model | Code |
|---|---|
| `location[K]` | `location.get(K)`; a key is only ever put with its first caller, so an absent key is the empty set |
| `nearByCallees`, `caller`, `scan` | the static set, `caller_m.group(1)`, the loop `main` is in |
| `unprinted`, `node`, `calls` | opt: what it has still to print, the node it prints, the calls it has printed; `calls` is what the map is compared with |
| `SkipLine`, `EnterCaller` | an iteration of the outer `while` |
| `AddCallee`, `IgnoreLine`, `LeaveCaller` | an iteration of the inner `while` |
| `EndOfInput` | `hasNext()` is false in either loop |
| `print`, `singleKeys`, `pipairKeys`, `locationTemp` | the loop `printBug` is in, and what is left of the three iterators |
| `TakeSingle`, `SkipPair`, `TakePair`, `PrintLine`, `Leave...`, `EndPrintBug` | the loop steps |
| `out`, `lines` | the lines printed, as a set, and their number: a line printed twice shows as the difference |

A line of the input is reduced to what the two regular expressions tell apart: a node line with
a quoted name, the node line of `<<null function>>` without one, a call with a quoted name,
a call of the external node, an empty line. The calls of `<<null function>>` are printed by
opt and must be skipped. opt prints a node once; a node may hold a callee many times. A
bug line keeps its fields; the pair is a set, because the program prints the smaller name
first. The comparison of two doubles is the exact comparison of fractions.

`LikelyPairs!Bugs(g)` is the reference: it is stated on the call graph, without the map. The
ASSUME `Test2Gold` evaluates it on the call graph of `test2/main.c` and finds the lines of
`test2/gold_3_65` and the empty `gold_10_80`, so the reference is that of the repository's
own tests.

### Part C

`ReachReducedBug` (solution 1) has one action per branch of the loops. Its initial states are the
calls that `printBug` can make for some thresholds: any call graph in which some function calls
both functions of the pair, any scope, `singleKey` called in the scope and the
partner not. `callerCallee[f] = {}` stands for an absent key (`main` never puts an empty set).
`level[f] = NoLevel` stands for an absent key of `level`. Each iteration over a `HashSet`
takes any element that is left.

`PipairC2` (solution 2) models the recursion of `getCalleeExtend` call by call: `calling` is the
stack of activations, each with what is left of its loop over the callees, and `result` the list
that all of them share, as the number of copies of each name. `Replaced` is
`result.remove(caller)` (which takes the first equal name, whoever put it there) and
`addAll`. `Expanded(g, c)` is the reference: the functions at the end of a walk from `c` that the
level or a function without callees ends. `StackDepth` is how many activations the stack of the
thread holds; a call that does not fit is not made. The assumption `StackAssumption` says that
there is room for the activations that the level allows; that the recursion never asks for more,
also on a recursive call graph, is what `Terminates` shows: a recursion that hands on its level
without counting runs into the end of the stack.

### Part D

`PipairD` is part A with ordered keys: `nearByCallees` is a list, a callee printed again is
added again, and a call site is remembered with its place in the text, so that
`LocationExact` can say which callers make two calls in this order. `PrintBoth` and `PrintOther`
are the two branches of the innermost loop; `visit` holds the bugs printed with two pairs.
Which of the two pairs is named first depends on hash codes; a line keeps them as a set.

### The harness

`TimeoutSh` has one action per command of the main shell, of `cleanup()` and of `watchit`, and
one for the delivery of each signal, which happens at any time after it was sent. A trap runs
between two commands or when it interrupts a wait (status 128 + the signal). Whether a child
that has ended can still be signalled depends on whether its shell has collected it
(`JobReaped`). Time is abstracted: `sleep` ends at any moment after the main shell has
come to its wait, as 120 seconds are more than three commands. The job ends at any time with
any status, or never. The user presses ^C at most once. `VerifySh` runs tests under it; a file
is the number of copies of each line, as both files are sorted before `diff`. The output is
arbitrary when make succeeds, because a failing opt in the pipe leaves a shorter output.

When the alarm interrupts the wait while the job ends by itself, the status is 142 and `verify.sh`
prints `error.`; `timeout.sh:9` promises 124 (section 4), and `StatusFaithful` states that this is
the only case in which the status is neither that of the job nor 124. Another behaviour that the
model shows is denied by no document: a `watchit` that is alarmed between its trap and its `sleep`
makes the shell wait out the whole time limit before the test ends.

### A child of the worker MPM

An action is what one thread does up to its next access to data that other threads change. What
is done between lock and unlock of `one_big_mutex` is one step, as the queue is only touched
with the mutex held; so is the test under a lock together with the wait on its condition
variable. What the code does *outside* its locks stays outside: `ap_queue_pop` reads
`terminated` after the unlock (`PopStatus`), the listener looks at `idlers` before it locks,
`requests_this_child` is loaded and stored in two steps, a recycled pool is popped in two
(`ListenerPeekPool`, `ListenerSwapPool`), a worker has its socket before `worker_sockets` has
it. `idlers` wraps below zero.

A wakeup may come for nothing: because another worker has taken the element, or because
`apr_thread_cond_wait` returns spuriously, as its header allows (`WorkerStray`, `ListenerStray`).
The listener tests its condition again in a `while`; `ap_queue_pop` does not. The listener tests
`listener_may_exit` in one step and calls `apr_pollset_poll` or `accept` in another
(`enterPoll`, `enterAccept`): the signal of `wakeup_listener` that comes in between interrupts
nothing, and only the retry of `join_workers` gets the listener out of the call.

| Model | Code |
|---|---|
| `queue`, `notEmpty`, `terminated` | `fd_queue_t`; the workers in `not_empty` |
| `idlers`, `idlerWait`, `infoTerminated`, `recycled` | `fd_queue_info_t` |
| `listener`, `have_idle_worker`, `ptrans`, `peeked`, `csd` | `listener_thread` and its locals |
| `pc`, `is_idle`, `sd`, `pool`, `count` | each `worker_thread` and its locals |
| `main`, `rv`, `iter`; `start`, `created` | `child_main`, `join_workers`; `start_threads` |
| `terminate_mode`, `..._may_exit`, `requests_this_child`, `worker_sockets` | the static variables |
| `outcome`, `exit` | what a client sees, and how the process ends |

The environment: clients that connect or not, the parent's pipe of death and SIGTERM, the accept
mutex shared with other children, and the failures of `accept`, poll and the mutex.
`stray` and `overlooked` are history variables, which no step of the code reads: the workers that
nobody woke and that have not yet come back from `ap_queue_pop`, and whether one of them has
left by APR_EOF while a socket was queued.

`ConnectionService` is the promise to the clients: each connection is served once; it is cut short
only after the order to stop at once; at most one is dropped, after an order to stop; the process
ends only when told to (or when a thread cannot be created), and after a graceful stop only with
nothing left, unless a worker has overlooked a connection. `ImplementsService` maps
`listener_may_exit` to its order to stop and `workers_may_exit` to the order to stop at once.

### mod_mem_cache

Everything between lock and unlock of `sconf->lock` is one step. What is done without it is a
step of its own: `decrement_refcount` looks at `complete` and takes an incomplete object out
(`CleanupFirst`), and drops its reference later (`CleanupThen`); `complete` is set behind the
unlock (`OpenForBusiness`).

| Model | Code |
|---|---|
| `ht`, `pq`, `current_size` | `cache_hash`, the elements of `cache_pqueue`, the size in `cache_cache_t` |
| `live`, `key`, `m_len`, `refcount`, `complete` | the allocated `cache_object_t` and their fields |
| `pc`, `url`, `stale`, `handle`, `held`, `dec` | each request: its place, key, `cache->stale_handle`, `cache->handle`, the cleanups registered, the cleanup that is half done |
| `Open`, `OpenDeclined`, `DropStale` | `open_entity`, and what `cache_select` makes of it |
| `Uncacheable`, `PassThrough`, `NotModified`, `Replace` | the ways of a response through `cache_save_filter` and the CACHE_REMOVE_URL filter: `remove_url`, `remove_entity` |
| `CreateDeclined`, `Create` | `create_entity` with `cache_insert` |
| `StoreWhole`, `StoreShorter`, `OpenForBusiness`, `StoreFails` | `store_body` |
| `Serve`, `CleanupFirst`, `CleanupThen`, `RequestEnds` | `recall_body`, `decrement_refcount`, the end of the pool |
| `CleanupCache` | `cleanup_cache_mem` |

The priority queue is abstracted to a set, from which any element may be popped: which one has
the lowest priority is up to the algorithm configured and to the history. Headers, Vary and the
rules of freshness are a choice of `Open`. `remove_url` acts on an object without looking
whether it is still in the cache. With `RemoveUrlRaces = FALSE` the model is restricted to the
behaviours in which it still is; with `TRUE` it is not restricted, and the run
`mem_cache_remove_url` shows what goes wrong. Everything else (ejection while an object is
filled, served, revalidated or replaced; failing responses) is in both.

## 3. Runs

| Run | Instance | Shows |
|---|---|---|
| `pipair_a` | 3 functions, support 2, confidence 65 | `TypeOK`, `LocationExact`, `ReportExact`, `ImplementsReport` |
| `reach_reduced_bug` | 4 functions, at most 7 calls, level 2 | `TypeOK`, `LevelIsWalk`, `Sound`, `FindsDirectCallee`, `Terminates` |
| `reach_reduced_bug_complete` | the same, level 1 (the default) | `Complete` is **violated** |
| `pipair_c2` | 3 functions, at most 5 calls, level 2 | `TypeOK`, `ExtendExact`, `ReportExact`, `Terminates` |
| `pipair_d` | 3 functions, at most 2 calls each, support 1, confidence 30 | `TypeOK`, `LocationExact`, `ReportExact`, `ImplementsReport` |
| `verify_sh` | 2 tests, files of 2 lines in up to 2 copies | `TypeOK`, `StatusFaithful`, `JobNotLeft`, `NoStrayAlarm`, `PassIsEarned`, `TestsEnd` |
| `worker_child` | 2 workers, 3 clients, 3 pools, poll, MaxRequestsPerChild 1 | `TypeOK`, `IdleAccount`, `PushIsSafe`, `PoolsExclusive`, `SocketsExclusive`, `PoolsNeverLost`, `ImplementsService` |
| `worker_child_progress` | 2 workers, 2 clients, 2 pools, poll, MaxRequestsPerChild 1 | `AcceptedIsServed`, `StopsWhenTold` |
| `worker_child_sigterm` | 2 workers, 2 clients | `SigtermTakesDown` is **violated** |
| `worker_child_graceful` | 2 workers, 2 clients | `GracefulServesAll` is **violated** |
| `mem_cache` | 2 requests, 2 keys, 4 objects, at most 2 cached, sizes 1 and 2 of 3 | `TypeOK`, `HeldIsLive`, `RefcountExact`, `NothingLeftBehind`, `SizeExact`, `TableMatchesQueue`, `CompleteIsFinal` |
| `mem_cache_remove_url` | the same with 3 objects and `RemoveUrlRaces` | `HeldIsLive` is **violated** |

**Bounds.**
* `pipair_a` has no bound besides the number of functions: every graph over three
  functions, self-calls included, with repeated, empty and truncated nodes. Three callers are
  the fewest for which a function is called three times and a pair twice (66.67 percent, above
  65, at the support threshold exactly), so lines are printed; two partners of one function,
  both orders of a pair and pairs below the threshold all occur.
* `reach_reduced_bug` bounds the calls of the graph (`MaxCalls`): with seven of them the scope
  can have two neighbours besides the function itself and a function can be revisited on the
  way to the partner. The names of the bug and of its partner are fixed there, since no name
  plays a role in the search.
* `pipair_c2`: with five calls, self-calls, cycles of two and three functions, and two branches
  that meet in one function all fit; level 2 is the first at which a cycle comes back to a name
  that was removed. `StackDepth` is 6, more than level 2 ever asks for.
* `pipair_d`: two calls for each of three functions make A B in one caller, B A in another and A
  alone in a third, which is a bug that both orders tell of, next to bugs of one order only.
  Low thresholds let lines with two pairs come from so small a text. Names are interchangeable.
* `verify_sh`: the second test meets what the first left behind.
* `worker_child`: two workers are the fewest that can take an element from each other; with three
  clients the queue can be full, a worker can be reserved and a third socket wait.
  `MaxRequestsPerChild` 1 lets the child stop by itself as well as by order. `INT_MAX` stands
  for a number larger than every count of the instance; `WakeTries` is 10 in the code and
  1 here, which covers both that the listener is woken and that it is given up.
* `worker_child_progress` has one client less, since liveness costs more: a socket can wait
  while both workers are taken or asleep, and both windows before poll and accept are met. The
  one retry is what gets the listener out of a call whose signal was lost.
* `mem_cache`: two cached objects and one held by each request are the most at once,
  so four objects never run out. Requests, keys and objects are interchangeable (`SYMMETRY`); the
  run states safety properties only.

The theorems of section 5 do away with these bounds for the properties proved.

**Fairness.** It is assumed only where a run has a liveness property. The search and the expansion
of part C are one thread that waits for nothing but its input, so their steps are weakly
fair; opt prints a finite text, so the end of the input is too. Part A and part D state no
liveness: their loops run over finite collections and there is nothing in them to wait for. The
shells are scheduled, signals arrive and `sleep` ends; nothing is assumed of the job or the user.
In the worker child each thread is scheduled, the accept mutex comes round and a request ends;
nothing is assumed of clients, of the parent, of the previous generation that holds slots of the
scoreboard, or of spurious wakeups, which may happen at any time or never. Nothing is assumed
about which element an iteration or an ejection takes. Deadlock is checked in every run; a
program that has ended stutters.

**Mutants.** Next to the definitions are variants with a seeded fault (a missing `clear()`, a
`break` for a `continue`, no signal after a push, a reference that is not taken...), each with a
comment that says so. They belong to no specification; each breaks one property when put in
place of the original.

## 4. Findings

* **`reachReducedBug` overwrites levels** (`Group63/pi/partC/pipair_java.java:220`). It calls
  `level.put(popElem, level.get(pop)+1)` for *every* callee, visited or not. A function that is
  already on the stack, or the popped one itself when it is recursive, loses its smaller level.
  With the default level 1, a neighbour `N` that calls `N` and the partner `P`, in that order of
  iteration, gets level 1, `P` level 2, the search fails and a bug is printed that the expansion
  was there to drop. The comment of the function (line 194) and the part C readme
  (`proj/qi/partC/readme.txt:1-2`) say that the neighbours are expanded down to the level.
  `Complete` states that; `FindsDirectCallee` is the weaker statement that does hold, and
  `Sound` holds as it is.
* **A graceful stop may leave a socket** (`fdqueue.c:347`, `:355`). `ap_queue_pop` waits in an
  `if` and reads `terminated` after the unlock. A worker that was woken for nothing, spuriously or
  because another one took the element, finds the queue empty and unlocks; the listener pushes
  a socket, leaves and terminates the queue; the worker then gets APR_EOF and ends although a socket
  waits, contrary to the comment at `worker.c:864-866`. As a rule another worker serves the socket
  later. When every worker was woken spuriously, none is left, and the process ends with the
  socket unserved. `apr_thread_cond.h:73-75` says that spurious wakeups may occur and that the
  condition is to be tested after every wait; the comment at `fdqueue.c:344` says that the wait
  goes on until the queue is not empty. `GracefulServesAll` is violated. Without a spurious
  wakeup it holds, which is what `ImplementsService` and `AcceptedIsServed` say: with
  `overlooked = FALSE` nothing is left.
* **A lost SIGTERM** (`worker.c:1258`). The signal with which the listener takes the child down only
  interrupts a `read()` that has begun. Sent before, it is swallowed, and a child
  without listener waits for its parent, contrary to the comment at `worker.c:1249-1252`.
* **`remove_url` frees an object in use** (`mod_mem_cache.c:533`). A request opens a stale object and
  waits for the backend; another request creates an object that ejects it, which leaves the
  reference of the first as the only one; the first then calls `remove_url`, which takes off a
  reference that the cache no longer has. The object is freed although the first request still
  holds it and has `decrement_refcount` to call. `remove_entity` and `decrement_refcount` look
  whether the object is still in the cache; `remove_url` does not, contrary to the comments at
  `:452-456` and `:500-503`.

Four more disagreements can be seen in the models and have no run of their own:

* **`timeout.sh` reports 142** (`qi/partA/timeout.sh:53`). When the timer fires after the job has
  ended and before `wait` has returned, the wait is interrupted with status 128 + 14. The trap finds
  no job to kill and does not exit (`:41-42`), so 142 is what `timeout.sh` ends with: neither the
  status of the job nor the 124 of its lines 9 and 22. It is the last disjunct of
  `StatusFaithful`.
* **`verify.sh` swaps missing and extra** (`qi/partA/verify.sh:43-44`, `Verdict`). `diff` is called
  with the output first, so lines with `<` are too many; they are counted as missing.
* **A connection is not killed** (`worker.c:892`, `WorkerRegister`). A worker enters its socket into
  `worker_sockets` some time after the pop. `close_worker_sockets`, called in between, misses it,
  although it is to "forcefully kill all current connections" (`:294`); the child waits for that
  request.
* **A request is not counted** (`worker.c:896`, `WorkerLoad` and `WorkerStore`).
  `requests_this_child--` is done without a lock, as the FIXME there says; two workers at once
  lose a count, and the child accepts more than `MaxRequestsPerChild` requests, after which it
  is to die (`docs/manual/mod/mpm_common.html.en:476-478`).

## 5. Proofs

Every safety invariant, action property and refinement that a passing run checks is also a
theorem, for all values of the constants that satisfy the named assumptions: `FunAssumption`,
`NoNodeAssumption`, `ThresholdAssumption`, `NullNodeAssumption` (part A and C),
`NoNodeIsNoFunction`, `ExpandLevelAssumption` (the level is any integer) and `StackAssumption` (the
stack has room for the level), `MaxCallsAssumption`
(part D; the bound may be any number), `VerifyAssumption` (likewise for the copies of a line and
the number of tests), `ChildAssumption`, `RequestAssumption` and `ConfigAssumption`; for
`MemCache` also `~ RemoveUrlRaces`, see below. A property of a run is seldom inductive; what
follows names for each proof the stronger invariant and why it is needed.

### pipair

**`PipairA_proofs`**: `TypeCorrect`, `LocationIsExact`, `ReportIsExact`, `Refinement`.
* `LocationExact` is not inductive: a line tells its callee, not its caller. `CallerInv` adds that
  in the inner loop the program is in the node that opt is printing, that `nearByCallees` holds
  the callees of that node, that in the outer loop opt is in no node of a named function, and that
  a node still to be printed has no calls. `AddValueExact` is the heart: adding the new callee to
  its own key and to its pairs with `nearByCallees` keeps the map exact.
* For `printBug`, `Pending(a, b, c)` says that the iterators have still to come to a triple;
  `OutInv` says that the lines printed are those of the bugs that are not pending, and `LoopInv`
  where the iterators are. `BugExact` shows that the test of `printBug` on the sizes of the sets
  is the definition of a bug; it also shows the tests `supportKey>=support` and `confidencePair<1`
  to be implied by the others.
* `Refinement` maps the loops to the phases of `BugReport`. That no line is printed twice rests on
  `LineInjective`: a line determines its bug, its pair and its scope.

**`ReachReducedBug_proofs`**: `TypeCorrect`, `LevelsAreWalks`, `SearchIsSound`,
`DirectCalleeIsFound`.
* `SearchInv`: the root is a neighbour, every visited function has a level, the popped one was
  visited. With `LongerWalk` every level that is put is the length of a walk, which gives
  soundness in spite of the overwriting.
* `DirectInv`: a search rooted in a neighbour that calls the partner and not itself stays at its
  first pop, at level 0, until it comes to the partner. That the root does not call itself is
  exactly what keeps its level at 0, and where `Complete` fails.

**`PipairC2_proofs`**: `TypeCorrect`, `ExtendIsExact`, `ReportIsExact`.
* The hard part is the one list that all activations of `getCalleeExtend` share, and from which
  `result.remove(caller)` takes the first equal name, whoever put it there. `IsExpansion` says
  what the list is in the middle of the recursion: it has each function at least once for every
  active loop that has still to come to it (`TokensIn`), more than that only if the function is
  the end of a walk, and every end of a walk that the list does not show yet lies below
  (`EndsBelow`) a function that some loop has still to come to. So the name that is removed is
  always one that the caller may take, and its going loses no end. `ExpandInv` states it of the
  current root, `FillInv` of the rows of `callerCalleeExtend` already made, `PhaseInv` ties the
  phases to the stack.
* `Expanded(g, c)` is a recursive function from the last call backwards, the program recurses from
  the first one forwards. `WalkBack` is the definition; `WalkFront`, that a walk may as well be
  lengthened at its start, is proved from it by induction over the length.
* `printBug` is the argument of part A on `ExpandedGraph(calls)` in place of the calls; `CountInv`
  says that as many lines were printed as there are different ones.

**`PipairD_proofs`**: `TypeCorrect`, `LocationIsExact`, `ReportIsExact`, `Refinement`.
* `CallerInv`, as in part A, with places: the i-th element of `nearByCallees` is the i-th call of
  the node. `AddValueExact` shows that pairing the new callee with every earlier element, a
  repeated one included, adds the caller to exactly the ordered keys that the new call completes.
* `OutInv` and `LoopInv` are those of part A with `Pending` over ordered keys; `VisitInv` adds
  that `visit` holds passed bugs only and, of each passed bug that both orders tell of, the order
  that came first. `ReverseTellsExact` shows that the test on the reverse pair is the definition
  of a bug of the other order; with `LineInjective` a bug that both orders tell is in one line,
  whichever order the hash map brings first.

### The harness

**`VerifySh_proofs`**: `TypeCorrect`, `StatusIsFaithful`, `JobIsNotLeft`, `NoAlarmStrays`,
`PassesAreEarned`.
* `ShInv` has six parts. `Flags` and `Places` are the types; `TimerInv` ties `sleep` to the
  command that `watchit` is at; `AlarmInv` tells who sent the alarm that the main shell handles
  (`watchit` as its last command, or else the user); `JobInv` when the job may still run; and
  `StatusInv` that the status to be returned is the one of the job, or that of a wait which an
  alarm interrupted when the time was over. `StatusFaithful` needs `AlarmInv`: that the main shell
  may be alarmed is harmless only as long as every such alarm means the end of the time. The proof
  goes by actor (main shell, its traps, `cleanup`, job, `watchit`).
* `VerifyInv` relates the counters to the list of verdicts and each PASS to its comparison. `diff`
  of two sorted files is a sum of differences over the lines; it is zero exactly when the copies
  of each line agree (`PassesMeansSame`).

### httpd

**`WorkerChild_proofs`**: `TypeCorrect`, `AccountIsExact`, `PushAlwaysSafe`,
`SocketsStayExclusive`, `PoolsStayExclusive`, `PoolsAreNeverLost`, `KeepsThePromise`, for any
number of workers, sockets and pools.
* `IdleAccount` counts: idle workers, the listener's reservation and the elements of the queue are
  together as many as the workers that wait for a socket. It is not inductive, because the step
  that decrements `idlers` is safe only where the count is positive, and the steps that use a
  reservation only where there is one. `ReservationHeld` ties `have_idle_worker`, the count and
  `terminated` to where the listener is; `WorkersCountOnce` ties `is_idle` to where each worker
  is. Together they are `AccountInv`, and lemmas by thread show that each step keeps the account.
* `PushIsSafe` follows: at the push there is a reservation, so fewer than all workers' worth of
  elements are in the queue, and `terminated` is set only after the listener's last push.
* `SocketInv`: a thread holds a socket at certain places only (`HeldWhere`); a socket is held by a
  thread or in the queue exactly while it is accepted, or dropped and not yet given up, and not
  finished (`HeldAsTold`); and it is held once (`HeldOnce`).
* `PoolInv`: the same for transaction pools, and two facts about the list without a lock.
  `PeekedIsTail`: the list that the listener has read is still the tail of `recycled`, because
  workers only add in front and nobody but the listener takes away; as no pool is in the list
  twice, a head that is the one read means that nothing was added, and the compare-and-swap is
  exact. `RecycledAccount`: the list is no longer than idle workers, workers about to be idle and
  the reservation, so there is room for each pool that comes back. `PoolsNeverLost` is an action
  property proved from it.
* `ImplementsService` needs `StopInv`, `Ordered` and `DropsOnce`. `StopInv` is about what a graceful
  stop leaves: `Attended` says that as long as a socket may be pushed or is in the queue, some
  worker has still to look at the queue before it leaves, or was woken for what is in it, or else a
  worker that nobody woke is on its way or has overlooked a socket; `StrayHere` says where such
  workers are, so that none is on its way when all have ended. A single worker may read
  `terminated` and leave past a socket (`fdqueue.c:355`); that all do takes a spurious
  wakeup. `Ordered` says that whatever ends the child has told the listener first, so that the
  process stops, drops or kills nothing before the order; `DropsOnce`, that the one socket that
  may be dropped is dropped by a listener that accepts no more.

**`MemCache_proofs`**: `TypeCorrect`, `HeldStaysLive`, `RefcountStaysExact`, `NothingStaysBehind`,
`TableAndQueueAgree`, `CompleteStays`, `SizeStaysExact`, for any number of requests, keys and
objects and any ejections, assuming `~ RemoveUrlRaces`.
* None of them is inductive alone: an object may be freed exactly when its count drops to zero, so
  that it is safe depends on the count being that of its holders, which depends on table and queue
  agreeing when an object is removed by its key. `Inv` is their conjunction with `ControlInv`
  (what a request holds at each point: its stale object while it waits, the object it fills) and
  `FillInv` (the object that is filled is incomplete and held by nobody else; after the first half
  of `decrement_refcount` the object is complete or out of the queue).
* The lemmas `Uncached`, `Referenced`, `Dereferenced`, `Inserted`, `Created`, `PutBack` and
  `CacheCleaned` say once what the operations on the cache preserve; one lemma per action follows.
  `Holders...` count the requests that hold an object.
* `RemoveUrlInv` is the place where the assumption is used: without it the object that is removed
  need not be in the queue, and the proof stops where the finding begins.
* `SizeInv`: the queue is finite, every length is within the limit, and `current_size` is the sum
  of the lengths. The lengths change as well: `store_body` corrects that of a body which turns out
  shorter, and `SizeShrink` says that the size follows. `FreeInv` (an object that is not allocated
  has no references) and the bounds on the count give `TypeOK`.

**`SumFacts`**: the community modules define a sum over a set by a recursive function that takes
the elements in an order left to CHOOSE. That the function exists, that a sum over a set is the
sum over the rest and any one element, that sums of equal numbers are equal, and that a sum of
naturals is zero only if each is, are proved here by induction. The induction theorems of the
library take an operator as a parameter, which the provers at hand cannot instantiate;
`AllNumbers` and `AllSubsets` state induction for a property given as a *set*, and rest on
`LeastNumber`, from the well-foundedness of the natural numbers.

### Only model-checked

* Liveness under fairness is out of the prover's reach: `Terminates` (both
  solutions of part C), `TestsEnd`, `AcceptedIsServed`, `StopsWhenTold`.
* `Test2Gold`, an evaluation of the reference on one graph.
* The properties that the violation runs refute: `Complete`, `GracefulServesAll`,
  `SigtermTakesDown`, and `HeldIsLive` with `RemoveUrlRaces`.

## 6. Plan

1. `PipairC`: the report of solution 1 with the search composed, as a refinement of the safety
   part of `BugReport`: a subset of the report of part A.
2. The headers of a cache object, replaced while others copy them (`mod_mem_cache.c:640`).
3. Diagnostics of opt in the input stream (a quoted name inside a node).

## 7. Not modelled

* Of pipair: the parsing of arguments (constants), the order of the lines (the harness sorts
  them), the wording of the lines, the rounding of doubles beyond 160 callers
  (`FormatPercent`), memory limits of the JVM, what opt writes to stderr besides the call graph.
* The first version (`qi/partA/pipair_java.java`): it computes the report of part A with one map
  more, and is superseded by it. The reader and report of solution 1 repeat those of part A; the
  search changes no state that they read.
* Of the worker child: failures of the thread mutexes, the scoreboard, the parent process. A SIGTERM
  before `worker.c:1254-1255` has installed the handler ends the process at once and is
  left out. `close_worker_sockets` is one step, though it closes one socket after the other:
  what it misses in the model (section 4) it misses in the code as well.
  Of the cache: the order of the priority queue, headers, freshness, file-backed objects other than
  as complete at once, several cache providers.
* The rest of httpd (over 600,000 lines in two copies: parsers, filters, regular expressions, APR,
  other modules and MPMs) is third-party code, the subject that pipair and Coverity are run on.
  The two parts modelled are the ones where threads share state in the process that serves
  requests; a share of the lines that would say something about the rest is out of a project's
  reach.
* Makefiles, `clean.sh`, `pipair.c`, Coverity's output and the reports: no state to model.
