--------------------------- MODULE ReachReducedBug ---------------------------
(***************************************************************************)
(* reachReducedBug(singleKey, pipairKey, nearBy) of the part C program:    *)
(* before a bug is printed, the other functions that the scope calls are   *)
(* expanded, in search of the missing function of the pair.  Each of them  *)
(* is the root of a depth-first search of its own, with an explicit stack, *)
(* a set of visited functions and a map of levels.                         *)
(*                                                                         *)
(* The loops over nearBy and popSet iterate over HashSets: any element     *)
(* that is left can be the next.                                           *)
(***************************************************************************)
EXTENDS Integers, Sequences

CONSTANTS
  Fun,          \* the functions of the analysed program
  NoNode,       \* stands for "no function"
  ExpandLevel   \* expandLevel (args[3], default 1)

ASSUME NoNodeIsNoFunction == NoNode \notin Fun
ASSUME ExpandLevelAssumption == ExpandLevel \in Int

VARIABLES
  callerCallee,  \* the callees of each function; {} stands for an absent key
  scope,         \* the caller whose callees are expanded
  singleKey,     \* the function that is called in the scope
  pipairKey,     \* findPair: the function of the pair that is missing there
  dfs,           \* "near", "while" or "for" loop, or the result: "true", "false"
  nearBy,        \* what is left of the loop over nearBy
  nearElem,      \* the root of the current search
  stack,         \* its last element is the top
  visit,
  level,         \* level[f] = NoLevel when the map has no key f
  pop,
  popSet         \* what is left of the loop over popSet

inputs == <<callerCallee, scope, singleKey, pipairKey>>
dfsVars == <<dfs, nearBy, nearElem, stack, visit, level, pop, popSet>>
vars == <<inputs, dfsVars>>

NoLevel == -1

(***************************************************************************)
(* The call printBug makes: the scope calls singleKey and not pipairKey,   *)
(* and the pair is a key of location, as some caller calls both.           *)
(***************************************************************************)
Init ==
  /\ callerCallee \in [Fun -> SUBSET Fun]
  /\ scope \in Fun
  /\ singleKey \in callerCallee[scope]
  /\ pipairKey \in Fun \ callerCallee[scope]
  /\ \E c \in Fun : {singleKey, pipairKey} \subseteq callerCallee[c]
  /\ dfs = "near"
  /\ nearBy = callerCallee[scope]
  /\ nearElem = NoNode
  /\ stack = <<>>
  /\ visit = {}
  /\ level = [f \in Fun |-> NoLevel]
  /\ pop = NoNode
  /\ popSet = {}

-----------------------------------------------------------------------------
(* The loop over nearBy. *)

(* Seeded fault: break instead of continue.                                *)
SkipNearBreak(n) ==
  /\ dfs = "near"
  /\ n \in nearBy
  /\ n = singleKey
  /\ nearBy' = {}
  /\ UNCHANGED <<inputs, dfs, nearElem, stack, visit, level, pop, popSet>>

SkipNear(n) ==
  /\ dfs = "near"
  /\ n \in nearBy
  /\ n = singleKey
  /\ nearBy' = nearBy \ {n}
  /\ UNCHANGED <<inputs, dfs, nearElem, stack, visit, level, pop, popSet>>

(* Seeded fault: visit and level created once, outside the loop.           *)
TakeNearKeep(n) ==
  /\ dfs = "near"
  /\ n \in nearBy
  /\ n # singleKey
  /\ dfs' = "while"
  /\ nearBy' = nearBy \ {n}
  /\ nearElem' = n
  /\ stack' = <<n>>
  /\ visit' = visit \cup {n}
  /\ level' = [level EXCEPT ![n] = 0]
  /\ pop' = NoNode
  /\ popSet' = {}
  /\ UNCHANGED inputs

TakeNear(n) ==
  /\ dfs = "near"
  /\ n \in nearBy
  /\ n # singleKey
  /\ dfs' = "while"
  /\ nearBy' = nearBy \ {n}
  /\ nearElem' = n
  /\ stack' = <<n>>
  /\ visit' = {n}
  /\ level' = [f \in Fun |-> IF f = n THEN 0 ELSE NoLevel]
  /\ pop' = NoNode
  /\ popSet' = {}
  /\ UNCHANGED inputs

ReturnFalse ==
  /\ dfs = "near"
  /\ nearBy = {}
  /\ dfs' = "false"
  /\ UNCHANGED <<inputs, nearBy, nearElem, stack, visit, level, pop, popSet>>

-----------------------------------------------------------------------------
(* The loop on the stack. *)

(* popSet==null: the popped function calls nothing.                        *)
PopLeaf ==
  /\ dfs = "while"
  /\ stack # <<>>
  /\ callerCallee[stack[Len(stack)]] = {}
  /\ pop' = stack[Len(stack)]
  /\ stack' = SubSeq(stack, 1, Len(stack) - 1)
  /\ popSet' = {}
  /\ UNCHANGED <<inputs, dfs, nearBy, nearElem, visit, level>>

(* Seeded fault: peek() instead of pop().                                  *)
PopCallerPeek ==
  /\ dfs = "while"
  /\ stack # <<>>
  /\ callerCallee[stack[Len(stack)]] # {}
  /\ dfs' = "for"
  /\ pop' = stack[Len(stack)]
  /\ popSet' = callerCallee[stack[Len(stack)]]
  /\ UNCHANGED <<inputs, nearBy, nearElem, stack, visit, level>>

PopCaller ==
  /\ dfs = "while"
  /\ stack # <<>>
  /\ callerCallee[stack[Len(stack)]] # {}
  /\ dfs' = "for"
  /\ pop' = stack[Len(stack)]
  /\ stack' = SubSeq(stack, 1, Len(stack) - 1)
  /\ popSet' = callerCallee[stack[Len(stack)]]
  /\ UNCHANGED <<inputs, nearBy, nearElem, visit, level>>

EndWhile ==
  /\ dfs = "while"
  /\ stack = <<>>
  /\ dfs' = "near"
  /\ UNCHANGED <<inputs, nearBy, nearElem, stack, visit, level, pop, popSet>>

-----------------------------------------------------------------------------
(* The loop over popSet.  Every callee gets a level, a visited one too.    *)

(* Seeded fault: no test of the level.                                     *)
ExpandableAnyLevel(e) == e \notin visit

(* !visit.contains(popElem) && level.get(popElem)<=expandLevel             *)
Expandable(e) == e \notin visit /\ level[pop] + 1 <= ExpandLevel

TakeCallee(e) ==
  /\ dfs = "for"
  /\ e \in popSet
  /\ popSet' = popSet \ {e}
  /\ level' = [level EXCEPT ![e] = level[pop] + 1]
  /\ UNCHANGED <<inputs, nearBy, nearElem, pop>>

PassCallee(e) ==
  /\ TakeCallee(e)
  /\ ~ Expandable(e)
  /\ UNCHANGED <<dfs, visit, stack>>

ReturnTrue(e) ==
  /\ TakeCallee(e)
  /\ Expandable(e)
  /\ e = pipairKey
  /\ dfs' = "true"
  /\ UNCHANGED <<visit, stack>>

(* Seeded fault: no visit.add(popElem).                                    *)
PushCalleeUnmarked(e) ==
  /\ TakeCallee(e)
  /\ Expandable(e)
  /\ e # pipairKey
  /\ stack' = Append(stack, e)
  /\ UNCHANGED <<dfs, visit>>

PushCallee(e) ==
  /\ TakeCallee(e)
  /\ Expandable(e)
  /\ e # pipairKey
  /\ visit' = visit \cup {e}
  /\ stack' = Append(stack, e)
  /\ UNCHANGED dfs

EndFor ==
  /\ dfs = "for"
  /\ popSet = {}
  /\ dfs' = "while"
  /\ UNCHANGED <<inputs, nearBy, nearElem, stack, visit, level, pop, popSet>>

-----------------------------------------------------------------------------
Step ==
  \/ \E f \in Fun : \/ SkipNear(f) \/ TakeNear(f)
                    \/ PassCallee(f) \/ ReturnTrue(f) \/ PushCallee(f)
  \/ ReturnFalse \/ PopLeaf \/ PopCaller \/ EndWhile \/ EndFor

Returned == dfs \in {"true", "false"} /\ UNCHANGED vars

Next == Step \/ Returned

(* One thread that never blocks.                                           *)
Spec == Init /\ [][Next]_vars /\ WF_vars(Step)

-----------------------------------------------------------------------------
(* n calls lead from x to y.                                               *)
Walk(x, y, n) ==
  \E p \in [0..n -> Fun] : /\ p[0] = x
                           /\ p[n] = y
                           /\ \A i \in 0..(n - 1) : p[i + 1] \in callerCallee[p[i]]

(* y is called from x within ExpandLevel calls.                            *)
InReach(x, y) == \E n \in 1..ExpandLevel : Walk(x, y, n)

(* The functions that the search is about.                                 *)
Neighbours == callerCallee[scope] \ {singleKey}

(***************************************************************************)
(* The variables have their types, and only visited functions are pushed.  *)
(***************************************************************************)
TypeOK ==
  /\ callerCallee \in [Fun -> SUBSET Fun]
  /\ scope \in Fun
  /\ singleKey \in callerCallee[scope]
  /\ pipairKey \in Fun \ callerCallee[scope]
  /\ dfs \in {"near", "while", "for", "true", "false"}
  /\ nearBy \in SUBSET callerCallee[scope]
  /\ nearElem \in Fun \cup {NoNode}
  /\ visit \in SUBSET Fun
  /\ stack \in Seq(visit)
  /\ level \in [Fun -> Nat \cup {NoLevel}]
  /\ pop \in Fun \cup {NoNode}
  /\ popSet \in SUBSET Fun

(***************************************************************************)
(* The level of a function, overwritten or not, is the length of a chain   *)
(* of calls that leads to it from the root of the current search.          *)
(***************************************************************************)
LevelIsWalk == \A f \in Fun : level[f] # NoLevel => Walk(nearElem, f, level[f])

(***************************************************************************)
(* A bug is suppressed only when some neighbour of the function does reach *)
(* the missing one within expandLevel calls.                               *)
(***************************************************************************)
Sound == dfs = "true" => \E x \in Neighbours : InReach(x, pipairKey)

(***************************************************************************)
(* A neighbour that calls the missing function itself suppresses the bug,  *)
(* whatever the order of the callees and the shape of the graph, unless    *)
(* that neighbour is recursive.                                            *)
(***************************************************************************)
FindsDirectCallee ==
  dfs = "false" /\ ExpandLevel >= 1 =>
    \A x \in Neighbours : x \in callerCallee[x] \/ pipairKey \notin callerCallee[x]

(* The search returns.                                                     *)
Terminates == <>(dfs \in {"true", "false"})

(***************************************************************************)
(* What the comment on reachReducedBug and the readme of part C say:       *)
(* neighbours are expanded, down to expandLevel, in search of the missing  *)
(* function.  A bug is printed only when none of them reaches it.          *)
(***************************************************************************)
Complete == dfs = "false" => \A x \in Neighbours : ~ InReach(x, pipairKey)
=============================================================================
