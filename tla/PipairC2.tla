------------------------------ MODULE PipairC2 -------------------------------
(***************************************************************************)
(* The second solution of part C: before pairs are counted, the callees of *)
(* every function are replaced by their own callees, ExpandLevel times.    *)
(*                                                                         *)
(* main() reads the callees of each function; initInterLocation() expands  *)
(* them with the recursive getCalleeExtend() and fills location from the   *)
(* result; printBug() is that of part A.                                   *)
(***************************************************************************)
EXTENDS PrintBug, CallGraphText, SequencesExt

CONSTANTS
  ExpandLevel,  \* expandLevel (args[3], default 1)
  StackDepth    \* bound: how many active calls of getCalleeExtend the stack holds

ASSUME ExpandLevelAssumption == ExpandLevel \in Int
ASSUME StackAssumption == StackDepth \in Nat /\ StackDepth > ExpandLevel + 1

VARIABLES
  scan,                \* main: "outer" loop, "inner" loop or "closed"
  caller,              \* main: caller_m.group(1)
  callees,             \* main: the callees of the caller read so far
  callerCallee,        \* the callees of each function; {} for an absent key
  init,                \* initInterLocation: "idle", "extend", "fill" or "done"
  callers,             \* what is left of its current loop over the callers
  root,                \* the caller that is expanded (NoNode between two)
  calling,             \* the active calls of getCalleeExtend, outermost first:
                       \* what is left of the loop over the callees in each
  result,              \* the list that the calls share: how often a name is in it
  callerCalleeExtend   \* the expanded callees of each function

scanVars == <<scan, caller, callees, callerCallee>>
initVars == <<init, callers, root, calling, result, callerCalleeExtend, location>>
vars == <<optVars, scanVars, initVars, printVars>>

Empty == [f \in Fun |-> 0]

Init ==
  /\ OptInit
  /\ scan = "outer" /\ caller = NoNode /\ callees = {}
  /\ callerCallee = [f \in Fun |-> {}]
  /\ init = "idle" /\ callers = {} /\ root = NoNode
  /\ calling = <<>> /\ result = Empty
  /\ callerCalleeExtend = [f \in Fun |-> {}]
  /\ location = [K \in Keys |-> {}]
  /\ PrintInit

keysOf(map) == {f \in Fun : map[f] # {}}

-----------------------------------------------------------------------------
(* main: reading the call graph. *)

OptPrints(l) == OptText(l, l.name)

SkipLine(l) ==
  /\ scan = "outer"
  /\ OptPrints(l)
  /\ ~ MatchesCaller(l)
  /\ UNCHANGED scanVars

EnterCaller(l) ==
  /\ scan = "outer"
  /\ OptPrints(l)
  /\ MatchesCaller(l)
  /\ scan' = "inner"
  /\ caller' = l.name
  /\ callees' = {}
  /\ UNCHANGED callerCallee

AddCallee(l) ==
  /\ scan = "inner"
  /\ OptPrints(l)
  /\ MatchesCallee(l)
  /\ callees' = callees \cup {l.name}
  /\ UNCHANGED <<scan, caller, callerCallee>>

IgnoreLine(l) ==
  /\ scan = "inner"
  /\ OptPrints(l)
  /\ l.kind # "blank"
  /\ ~ MatchesCallee(l)
  /\ UNCHANGED scanVars

(* Behind the inner loop.                                                  *)
PutCallees == callerCallee' = IF callees = {} THEN callerCallee
                              ELSE [callerCallee EXCEPT ![caller] = callees]

LeaveCaller(l) ==
  /\ scan = "inner"
  /\ OptPrints(l)
  /\ l.kind = "blank"
  /\ scan' = "outer"
  /\ PutCallees
  /\ UNCHANGED <<caller, callees>>

EndOfInput ==
  /\ scan # "closed"
  /\ scan' = "closed"
  /\ IF scan = "inner" THEN PutCallees ELSE UNCHANGED callerCallee
  /\ UNCHANGED <<optVars, caller, callees>>

Scan ==
  /\ \/ \E l \in Line :
          SkipLine(l) \/ EnterCaller(l) \/ AddCallee(l) \/ IgnoreLine(l) \/ LeaveCaller(l)
     \/ EndOfInput
  /\ UNCHANGED <<initVars, printVars>>

-----------------------------------------------------------------------------
(* initInterLocation. *)

StartExtend ==
  /\ scan = "closed"
  /\ init = "idle"
  /\ init' = "extend"
  /\ callers' = keysOf(callerCallee)
  /\ UNCHANGED <<root, calling, result, callerCalleeExtend, location>>

(***************************************************************************)
(* getCalleeExtend(result, f, level) up to its loop over the callees: f,   *)
(* if it has callees and the level allows it, makes place for them in the  *)
(* list.  list is the list it is given and stack the calls that are active *)
(* then.                                                                   *)
(***************************************************************************)
Expands(f, level) == level <= ExpandLevel /\ callerCallee[f] # {}

(* Seeded fault: no result.remove(caller).                                 *)
ReplacedNoRemove(list, f) ==
  [g \in Fun |-> list[g] + (IF g \in callerCallee[f] THEN 1 ELSE 0)]

(* Seeded fault: the list is thought to hold the caller always.            *)
ReplacedBlind(list, f) ==
  [g \in Fun |-> list[g] - (IF g = f THEN 1 ELSE 0)
                         + (IF g \in callerCallee[f] THEN 1 ELSE 0)]

Replaced(list, f) ==
  [g \in Fun |-> list[g] - (IF g = f /\ list[f] > 0 THEN 1 ELSE 0)
                         + (IF g \in callerCallee[f] THEN 1 ELSE 0)]

getCalleeExtend(list, stack, f, level) ==
  IF Expands(f, level)
  THEN /\ result' = Replaced(list, f)
       /\ calling' = Append(stack, callerCallee[f])
  ELSE /\ result' = list
       /\ calling' = stack

ExtendCaller(c) ==
  /\ init = "extend"
  /\ root = NoNode
  /\ c \in callers
  /\ callers' = callers \ {c}
  /\ root' = c
  /\ getCalleeExtend(Empty, <<>>, c, 0)
  /\ UNCHANGED <<init, callerCalleeExtend, location>>

(* Seeded fault: the level is handed on as it is, not levelCount+1.        *)
ExtendCalleeSameLevel(f) ==
  /\ calling # <<>>
  /\ Len(calling) < StackDepth
  /\ f \in Last(calling)
  /\ getCalleeExtend(result, Front(calling) \o <<Last(calling) \ {f}>>, f, 0)
  /\ UNCHANGED <<init, callers, root, callerCalleeExtend, location>>

(* The next callee of the innermost loop; the level is the depth.  On a    *)
(* stack without room for one more call the thread would get no further.   *)
ExtendCallee(f) ==
  /\ calling # <<>>
  /\ Len(calling) < StackDepth
  /\ f \in Last(calling)
  /\ getCalleeExtend(result, Front(calling) \o <<Last(calling) \ {f}>>, f, Len(calling))
  /\ UNCHANGED <<init, callers, root, callerCalleeExtend, location>>

ReturnExtend ==
  /\ calling # <<>>
  /\ Last(calling) = {}
  /\ calling' = Front(calling)
  /\ UNCHANGED <<init, callers, root, result, callerCalleeExtend, location>>

PutExtended ==
  /\ root # NoNode
  /\ calling = <<>>
  /\ callerCalleeExtend' = [callerCalleeExtend EXCEPT ![root] = {f \in Fun : result[f] > 0}]
  /\ root' = NoNode
  /\ result' = Empty
  /\ UNCHANGED <<init, callers, calling, location>>

StartFill ==
  /\ init = "extend"
  /\ root = NoNode
  /\ callers = {}
  /\ init' = "fill"
  /\ location' = [K \in Keys |-> {}]
  /\ callers' = keysOf(callerCallee)
  /\ UNCHANGED <<root, calling, result, callerCalleeExtend>>

(* Seeded fault: the second loop starts behind the first, j=i+1.           *)
FillLocationDistinct(c) ==
  /\ init = "fill"
  /\ c \in callers
  /\ callers' = callers \ {c}
  /\ location' = [K \in Keys |->
       IF \E f, g \in callerCalleeExtend[c] : f # g /\ K = {f, g}
       THEN location[K] \cup {c} ELSE location[K]]
  /\ UNCHANGED <<init, root, calling, result, callerCalleeExtend>>

(* The two loops over the expanded callees of c: with i = j the pair is a  *)
(* single callee.                                                          *)
FillLocation(c) ==
  /\ init = "fill"
  /\ c \in callers
  /\ callers' = callers \ {c}
  /\ location' = [K \in Keys |->
       IF \E f, g \in callerCalleeExtend[c] : K = {f, g}
       THEN location[K] \cup {c} ELSE location[K]]
  /\ UNCHANGED <<init, root, calling, result, callerCalleeExtend>>

EndFill ==
  /\ init = "fill"
  /\ callers = {}
  /\ init' = "done"
  /\ UNCHANGED <<callers, root, calling, result, callerCalleeExtend, location>>

InitInterLocation ==
  /\ \/ StartExtend
     \/ \E f \in Fun : ExtendCaller(f) \/ ExtendCallee(f) \/ FillLocation(f)
     \/ ReturnExtend \/ PutExtended \/ StartFill \/ EndFill
  /\ UNCHANGED <<optVars, scanVars, printVars>>

-----------------------------------------------------------------------------
PrintStep ==
  /\ \/ init = "done" /\ StartPrintBug
     \/ PrintNext
  /\ UNCHANGED <<optVars, scanVars, initVars>>

Ended == print = "done" /\ UNCHANGED vars

Next == Scan \/ InitInterLocation \/ PrintStep \/ Ended

(* One thread that never blocks once its input has ended, and opt prints a *)
(* finite text.                                                            *)
Fairness ==
  /\ WF_vars(EndOfInput /\ UNCHANGED <<initVars, printVars>>)
  /\ WF_vars(InitInterLocation)
  /\ WF_vars(PrintStep)

Spec == Init /\ [][Next]_vars /\ Fairness

-----------------------------------------------------------------------------
TypeOK ==
  /\ scan \in {"outer", "inner", "closed"}
  /\ caller \in Fun \cup {NoNode}
  /\ callees \subseteq Fun
  /\ callerCallee \in [Fun -> SUBSET Fun]
  /\ init \in {"idle", "extend", "fill", "done"}
  /\ callers \subseteq Fun
  /\ root \in Fun \cup {NoNode}
  /\ calling \in Seq(SUBSET Fun)
  /\ result \in [Fun -> Nat]
  /\ callerCalleeExtend \in [Fun -> SUBSET Fun]
  /\ location \in [Keys -> SUBSET Fun]
  /\ PrintTypeOK

(***************************************************************************)
(* What an expansion means, on the call graph g alone: WalkEnds(g, c, n)   *)
(* are the functions at the end of a walk of n calls that starts in c.     *)
(***************************************************************************)
WalkEnds(g, c, n) ==
  LET ends[k \in 0 .. n] ==
        IF k = 0 THEN {c} ELSE {f \in Fun : \E e \in ends[k - 1] : <<e, f>> \in g}
  IN  ends[n]

(* A walk is followed until the level or a function without callees ends it. *)
Expanded(g, c) ==
  {f \in Fun :
     \E n \in 1 .. ExpandLevel + 1 :
       /\ f \in WalkEnds(g, c, n)
       /\ n = ExpandLevel + 1 \/ \A h \in Fun : <<f, h>> \notin g}

ExpandedGraph(g) == {e \in Fun \X Fun : e[2] \in Expanded(g, e[1])}

(***************************************************************************)
(* getCalleeExtend: result.remove(caller) takes away the first equal name, *)
(* which another branch of the recursion may have put there, and a cycle   *)
(* of calls comes back to names that were removed.  Still, whatever the    *)
(* order of the hash sets, the expansion of a caller holds exactly the     *)
(* ends of its walks.                                                      *)
(***************************************************************************)
ExtendExact ==
  init = "extend" =>
    \A c \in Fun \ (callers \cup {root}) :
      callerCalleeExtend[c] = Expanded(calls, c)

(***************************************************************************)
(* printBug reports the bugs of the expanded call graph, each of its       *)
(* lines once: location holds every pair and every single callee of every  *)
(* expanded caller when it starts.                                         *)
(***************************************************************************)
ReportExact ==
  print = "done" =>
    /\ out = Bugs(ExpandedGraph(calls))
    /\ lines = Cardinality(out)

(***************************************************************************)
(* The recursion of getCalleeExtend ends on recursive programs too, and    *)
(* the program stops.                                                      *)
(***************************************************************************)
Terminates == <>(print = "done")
=============================================================================
