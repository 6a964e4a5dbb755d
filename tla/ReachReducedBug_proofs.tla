------------------------ MODULE ReachReducedBug_proofs -----------------------
(***************************************************************************)
(* Proofs about the depth-first search of part C, for every call graph and *)
(* every value of expandLevel.                                             *)
(***************************************************************************)
EXTENDS ReachReducedBug, TLAPS

-----------------------------------------------------------------------------
(* Walks in the call graph. *)

(* No call leads from a function to itself.                                *)
LEMMA EmptyWalk ==
  ASSUME NEW x \in Fun
  PROVE  Walk(x, x, 0)
<1> DEFINE p == [i \in 0..0 |-> x]
<1>1. p \in [0..0 -> Fun] /\ p[0] = x
  OBVIOUS
<1>2. \A i \in 0..(0 - 1) : p[i + 1] \in callerCallee[p[i]]
  OBVIOUS
<1>3. QED
  BY <1>1, <1>2 DEF Walk

(* One more call makes a walk longer by one.                               *)
LEMMA LongerWalk ==
  ASSUME NEW x \in Fun, NEW y \in Fun, NEW n \in Nat, Walk(x, y, n),
         NEW z \in Fun, z \in callerCallee[y]
  PROVE  Walk(x, z, n + 1)
<1>1. PICK p \in [0..n -> Fun] : /\ p[0] = x
                                 /\ p[n] = y
                                 /\ \A i \in 0..(n - 1) : p[i + 1] \in callerCallee[p[i]]
  BY DEF Walk
<1> DEFINE q == [i \in 0..(n + 1) |-> IF i = n + 1 THEN z ELSE p[i]]
<1>2. q \in [0..(n + 1) -> Fun] /\ q[0] = x /\ q[n + 1] = z
  BY <1>1
<1>3. ASSUME NEW i \in 0..((n + 1) - 1) PROVE q[i + 1] \in callerCallee[q[i]]
  <2>1. CASE i = n
    BY <1>1, <2>1
  <2>2. CASE i # n
    <3>1. i \in 0..(n - 1) /\ i + 1 \in 0..n
      BY <2>2
    <3>2. q[i + 1] = p[i + 1] /\ q[i] = p[i]
      BY <3>1
    <3>3. QED
      BY <1>1, <3>1, <3>2
  <2>3. QED
    BY <2>1, <2>2
<1> HIDE DEF q
<1>4. QED
  BY <1>2, <1>3 DEF Walk

-----------------------------------------------------------------------------
(* The inductive invariant. *)

(***************************************************************************)
(* The root of a search is a neighbour, the functions on the stack and the *)
(* popped one have a level, and levels are lengths of walks.               *)
(***************************************************************************)
SearchInv ==
  /\ dfs \in {"while", "for"} => nearElem \in Neighbours
  /\ dfs = "for" => pop \in visit /\ popSet \subseteq callerCallee[pop]
  /\ \A f \in visit : level[f] # NoLevel
  /\ dfs = "false" => nearBy = {}

Inv == TypeOK /\ SearchInv /\ LevelIsWalk /\ Sound

(* A step that changes neither the levels nor the root keeps LevelIsWalk.  *)
LEMMA LevelsKept ==
  ASSUME LevelIsWalk, UNCHANGED <<callerCallee, nearElem, level>>
  PROVE  LevelIsWalk'
BY DEF LevelIsWalk, Walk

(* A step that does not return true keeps Sound.                           *)
LEMMA SoundKept ==
  ASSUME Sound, UNCHANGED inputs, dfs' = "true" => dfs = "true"
  PROVE  Sound'
BY DEF Sound, inputs, Neighbours, InReach, Walk

(* The top of the stack was visited, and the rest remains a stack.         *)
LEMMA PopFacts ==
  ASSUME NEW S, NEW s \in Seq(S), s # <<>>
  PROVE  s[Len(s)] \in S /\ SubSeq(s, 1, Len(s) - 1) \in Seq(S)
<1>1. Len(s) \in Nat /\ Len(s) # 0 /\ Len(s) \in 1..Len(s)
  OBVIOUS
<1>2. QED
  BY <1>1

(* The effect of TakeCallee on the levels.                                 *)
LEMMA TakeCalleeStep ==
  ASSUME Inv, NEW e \in Fun, TakeCallee(e)
  PROVE  /\ level' \in [Fun -> Nat \cup {NoLevel}]
         /\ level[pop] \in Nat
         /\ level'[e] = level[pop] + 1
         /\ \A f \in Fun : f # e => level'[f] = level[f]
         /\ \A f \in visit \cup {e} : level'[f] # NoLevel
         /\ LevelIsWalk'
<1>1. /\ pop \in visit /\ pop \in Fun /\ nearElem \in Fun
      /\ e \in callerCallee[pop]
  BY DEF Inv, TypeOK, SearchInv, TakeCallee, Neighbours
<1>2. level[pop] \in Nat /\ level[pop] # NoLevel
  BY <1>1 DEF Inv, TypeOK, SearchInv, NoLevel
<1>3. /\ level' \in [Fun -> Nat \cup {NoLevel}]
      /\ level'[e] = level[pop] + 1
      /\ \A f \in Fun : f # e => level'[f] = level[f]
  BY <1>2 DEF Inv, TypeOK, TakeCallee
<1>4. \A f \in visit \cup {e} : level'[f] # NoLevel
  BY <1>2, <1>3 DEF Inv, TypeOK, SearchInv, NoLevel
<1>5. Walk(nearElem, e, level[pop] + 1)
  BY <1>1, <1>2, LongerWalk DEF Inv, LevelIsWalk
<1>6. ASSUME NEW f \in Fun, level'[f] # NoLevel PROVE Walk(nearElem, f, level'[f])
  BY <1>3, <1>5, <1>6 DEF Inv, LevelIsWalk
<1>7. callerCallee' = callerCallee /\ nearElem' = nearElem
  BY DEF TakeCallee, inputs
<1>8. LevelIsWalk'
  BY <1>6, <1>7 DEF LevelIsWalk, Walk
<1>9. QED
  BY <1>2, <1>3, <1>4, <1>8

(* The invariant holds at the start...                                      *)
LEMMA InitInv == Init => Inv
<1> SUFFICES ASSUME Init PROVE Inv
  OBVIOUS
<1>1. TypeOK
  BY DEF Init, TypeOK, NoLevel
<1>2. SearchInv /\ LevelIsWalk /\ Sound
  BY DEF Init, SearchInv, LevelIsWalk, Sound
<1>3. QED
  BY <1>1, <1>2 DEF Inv

(* ... every step keeps it...                                               *)
LEMMA NextInv == Inv /\ [Next]_vars => Inv'
<1> SUFFICES ASSUME Inv, [Next]_vars PROVE Inv'
  OBVIOUS
<1> USE DEF inputs
<1>0. TypeOK /\ SearchInv /\ LevelIsWalk /\ Sound
  BY DEF Inv
<1>1. ASSUME NEW n \in Fun, SkipNear(n) PROVE Inv'
  <2>1. TypeOK' /\ SearchInv'
    BY <1>0, <1>1 DEF SkipNear, TypeOK, SearchInv, Neighbours
  <2>2. LevelIsWalk' /\ Sound'
    BY <1>0, <1>1, LevelsKept, SoundKept DEF SkipNear
  <2>3. QED
    BY <2>1, <2>2 DEF Inv
<1>2. ASSUME NEW n \in Fun, TakeNear(n) PROVE Inv'
  <2>1. TypeOK'
    <3>1. stack' \in Seq(visit')
      BY <1>2 DEF TakeNear
    <3>2. level' \in [Fun -> Nat \cup {NoLevel}]
      BY <1>2 DEF TakeNear, NoLevel
    <3>3. QED
      BY <1>0, <1>2, <3>1, <3>2 DEF TakeNear, TypeOK
  <2>2. SearchInv'
    BY <1>0, <1>2 DEF TakeNear, TypeOK, SearchInv, Neighbours, NoLevel
  <2>3. LevelIsWalk'
    <3>1. Walk(n, n, 0)
      BY EmptyWalk
    <3>2. nearElem' = n /\ callerCallee' = callerCallee
          /\ \A f \in Fun : level'[f] # NoLevel => f = n /\ level'[f] = 0
      BY <1>2 DEF TakeNear
    <3>3. QED
      BY <3>1, <3>2 DEF LevelIsWalk, Walk
  <2>4. Sound'
    BY <1>0, <1>2, SoundKept DEF TakeNear
  <2>5. QED
    BY <2>1, <2>2, <2>3, <2>4 DEF Inv
<1>3. CASE ReturnFalse
  <2>1. TypeOK' /\ SearchInv'
    BY <1>0, <1>3 DEF ReturnFalse, TypeOK, SearchInv
  <2>2. LevelIsWalk' /\ Sound'
    BY <1>0, <1>3, LevelsKept, SoundKept DEF ReturnFalse
  <2>3. QED
    BY <2>1, <2>2 DEF Inv
<1>4. CASE PopLeaf
  <2>1. stack[Len(stack)] \in visit /\ SubSeq(stack, 1, Len(stack) - 1) \in Seq(visit)
    BY <1>0, <1>4, PopFacts DEF PopLeaf, TypeOK
  <2>2. TypeOK' /\ SearchInv'
    BY <1>0, <1>4, <2>1 DEF PopLeaf, TypeOK, SearchInv, Neighbours
  <2>3. LevelIsWalk' /\ Sound'
    BY <1>0, <1>4, LevelsKept, SoundKept DEF PopLeaf
  <2>4. QED
    BY <2>2, <2>3 DEF Inv
<1>5. CASE PopCaller
  <2>1. stack[Len(stack)] \in visit /\ SubSeq(stack, 1, Len(stack) - 1) \in Seq(visit)
    BY <1>0, <1>5, PopFacts DEF PopCaller, TypeOK
  <2>2. TypeOK' /\ SearchInv'
    BY <1>0, <1>5, <2>1 DEF PopCaller, TypeOK, SearchInv, Neighbours
  <2>3. LevelIsWalk' /\ Sound'
    BY <1>0, <1>5, LevelsKept, SoundKept DEF PopCaller
  <2>4. QED
    BY <2>2, <2>3 DEF Inv
<1>6. CASE EndWhile
  <2>1. TypeOK' /\ SearchInv'
    BY <1>0, <1>6 DEF EndWhile, TypeOK, SearchInv
  <2>2. LevelIsWalk' /\ Sound'
    BY <1>0, <1>6, LevelsKept, SoundKept DEF EndWhile
  <2>3. QED
    BY <2>1, <2>2 DEF Inv
<1>7. ASSUME NEW e \in Fun, PassCallee(e) PROVE Inv'
  <2>1. /\ TakeCallee(e) /\ level' \in [Fun -> Nat \cup {NoLevel}]
        /\ \A f \in visit : level'[f] # NoLevel
        /\ LevelIsWalk'
    BY <1>7, TakeCalleeStep DEF PassCallee
  <2>2. TypeOK' /\ SearchInv'
    BY <1>0, <1>7, <2>1 DEF PassCallee, TakeCallee, TypeOK, SearchInv, Neighbours
  <2>3. Sound'
    BY <1>0, <1>7, SoundKept DEF PassCallee, TakeCallee
  <2>4. QED
    BY <2>1, <2>2, <2>3 DEF Inv
<1>8. ASSUME NEW e \in Fun, ReturnTrue(e) PROVE Inv'
  <2>1. /\ TakeCallee(e) /\ level' \in [Fun -> Nat \cup {NoLevel}]
        /\ level[pop] \in Nat
        /\ level'[e] = level[pop] + 1
        /\ \A f \in visit : level'[f] # NoLevel
        /\ LevelIsWalk'
    BY <1>8, TakeCalleeStep DEF ReturnTrue
  <2>2. TypeOK' /\ SearchInv'
    BY <1>0, <1>8, <2>1 DEF ReturnTrue, TakeCallee, TypeOK, SearchInv
  <2>3. Walk(nearElem, pipairKey, level[pop] + 1)
    <3>1. Walk(nearElem, e, level[e])'
      BY <2>1 DEF LevelIsWalk, NoLevel
    <3>2. callerCallee' = callerCallee /\ nearElem' = nearElem /\ e = pipairKey
      BY <1>8 DEF ReturnTrue, TakeCallee
    <3>3. QED
      BY <2>1, <3>1, <3>2 DEF Walk
  <2>4. level[pop] + 1 \in 1..ExpandLevel
    BY <1>8, <2>1, ExpandLevelAssumption DEF ReturnTrue, Expandable
  <2>5. nearElem \in Neighbours
    BY <1>0, <1>8 DEF ReturnTrue, TakeCallee, SearchInv
  <2>6. \E x \in Neighbours : InReach(x, pipairKey)
    BY <2>3, <2>4, <2>5 DEF InReach
  <2>7. Sound'
    BY <1>8, <2>6 DEF ReturnTrue, TakeCallee, Sound, Neighbours, InReach, Walk
  <2>8. QED
    BY <2>1, <2>2, <2>7 DEF Inv
<1>9. ASSUME NEW e \in Fun, PushCallee(e) PROVE Inv'
  <2>1. /\ TakeCallee(e) /\ level' \in [Fun -> Nat \cup {NoLevel}]
        /\ \A f \in visit \cup {e} : level'[f] # NoLevel
        /\ LevelIsWalk'
    BY <1>9, TakeCalleeStep DEF PushCallee
  <2>2. stack' \in Seq(visit')
    BY <1>0, <1>9 DEF PushCallee, TypeOK
  <2>3. TypeOK' /\ SearchInv'
    BY <1>0, <1>9, <2>1, <2>2 DEF PushCallee, TakeCallee, TypeOK, SearchInv, Neighbours
  <2>4. Sound'
    BY <1>0, <1>9, SoundKept DEF PushCallee, TakeCallee
  <2>5. QED
    BY <2>1, <2>3, <2>4 DEF Inv
<1>10. CASE EndFor
  <2>1. TypeOK' /\ SearchInv'
    BY <1>0, <1>10 DEF EndFor, TypeOK, SearchInv, Neighbours
  <2>2. LevelIsWalk' /\ Sound'
    BY <1>0, <1>10, LevelsKept, SoundKept DEF EndFor
  <2>3. QED
    BY <2>1, <2>2 DEF Inv
<1>11. CASE UNCHANGED vars
  <2>1. TypeOK' /\ SearchInv'
    BY <1>0, <1>11 DEF vars, dfsVars, TypeOK, SearchInv, Neighbours
  <2>2. LevelIsWalk' /\ Sound'
    BY <1>0, <1>11, LevelsKept, SoundKept DEF vars, dfsVars
  <2>3. QED
    BY <2>1, <2>2 DEF Inv
<1>12. QED
  BY <1>1, <1>2, <1>3, <1>4, <1>5, <1>6, <1>7, <1>8, <1>9, <1>10, <1>11
  DEF Next, Step, Returned

(* ... so it always holds.                                                  *)
LEMMA Invariance == Spec => []Inv
BY InitInv, NextInv, PTL DEF Spec

-----------------------------------------------------------------------------
(* Neighbours that call the missing function themselves. *)

Direct(x) ==
  x \in Neighbours /\ x \notin callerCallee[x] /\ pipairKey \in callerCallee[x]

(***************************************************************************)
(* Such a neighbour is still to come, or it is the root of a search that   *)
(* has popped nothing but the root, at level 0, and has yet to come to the *)
(* missing function; its search can end in no other way than by finding    *)
(* it.  That the root does not call itself is what keeps its level at 0.   *)
(***************************************************************************)
DirectInv ==
  ExpandLevel >= 1 =>
    /\ \A x \in Fun :
         Direct(x) => \/ x \in nearBy
                      \/ dfs = "true"
                      \/ x = nearElem /\ dfs \in {"while", "for"}
    /\ Direct(nearElem) /\ dfs = "while" =>
         stack = <<nearElem>> /\ visit = {nearElem} /\ level[nearElem] = 0
    /\ Direct(nearElem) /\ dfs = "for" =>
         /\ pop = nearElem
         /\ level[nearElem] = 0
         /\ pipairKey \in popSet \ visit

(* A search from a direct caller of the partner stays at its first pop.     *)
LEMMA DirectStep ==
  ASSUME Inv, DirectInv, [Next]_vars
  PROVE  DirectInv'
<1> SUFFICES ASSUME ExpandLevel >= 1 PROVE DirectInv'
  BY DEF DirectInv
<1> USE DEF inputs
<1>0. /\ TypeOK /\ SearchInv /\ DirectInv
      /\ UNCHANGED <<callerCallee, scope, singleKey, pipairKey>>
  BY DEF Inv, vars, Next, Step, Returned, SkipNear, TakeNear, ReturnFalse, PopLeaf,
         PopCaller, EndWhile, PassCallee, ReturnTrue, PushCallee, TakeCallee, EndFor
<1>1. \A x : Direct(x)' <=> Direct(x)
  BY <1>0 DEF Direct, Neighbours
<1>2. \A x : Direct(x) => x \in Fun /\ x # pipairKey /\ callerCallee[x] # {}
  BY <1>0 DEF Direct, Neighbours, TypeOK
<1>3. ASSUME NEW n \in Fun, SkipNear(n) PROVE DirectInv'
  BY <1>0, <1>1, <1>3 DEF SkipNear, DirectInv, Direct, Neighbours
<1>4. ASSUME NEW n \in Fun, TakeNear(n) PROVE DirectInv'
  BY <1>0, <1>1, <1>4 DEF TakeNear, DirectInv
<1>5. CASE ReturnFalse
  BY <1>0, <1>1, <1>5 DEF ReturnFalse, DirectInv
<1>6. CASE PopLeaf
  <2>1. Direct(nearElem) => stack[Len(stack)] = nearElem
    BY <1>0, <1>6 DEF PopLeaf, DirectInv
  <2>2. ~ Direct(nearElem)
    BY <1>2, <1>6, <2>1 DEF PopLeaf
  <2>3. QED
    BY <1>0, <1>1, <1>6, <2>2 DEF PopLeaf, DirectInv
<1>7. CASE PopCaller
  <2>1. Direct(nearElem) => /\ stack[Len(stack)] = nearElem
                            /\ level[nearElem] = 0
                            /\ pipairKey \in callerCallee[nearElem]
                            /\ pipairKey \notin visit
    BY <1>0, <1>2, <1>7 DEF PopCaller, DirectInv, Direct
  <2>2. QED
    BY <1>0, <1>1, <1>7, <2>1 DEF PopCaller, DirectInv
<1>8. CASE EndWhile
  <2>1. ~ Direct(nearElem)
    BY <1>0, <1>8 DEF EndWhile, DirectInv
  <2>2. QED
    BY <1>0, <1>1, <1>8, <2>1 DEF EndWhile, DirectInv
<1>9. ASSUME NEW e \in Fun, PassCallee(e) \/ PushCallee(e) PROVE DirectInv'
  <2>1. TakeCallee(e) /\ dfs' = dfs /\ dfs = "for"
    BY <1>9 DEF PassCallee, PushCallee, TakeCallee
  <2>2. ASSUME Direct(nearElem)
        PROVE  e # nearElem /\ e # pipairKey
    <3>1. pop = nearElem /\ level[pop] = 0 /\ pipairKey \in popSet \ visit
      BY <1>0, <2>1, <2>2 DEF DirectInv
    <3>2. e # nearElem
      BY <1>0, <2>1, <2>2, <3>1 DEF TakeCallee, SearchInv, Direct
    <3>3. e # pipairKey
      BY <1>9, <3>1, ExpandLevelAssumption DEF PassCallee, PushCallee, Expandable
    <3>4. QED
      BY <3>2, <3>3
  <2>3. ASSUME Direct(nearElem)
        PROVE  /\ pop' = nearElem
               /\ level'[nearElem] = 0
               /\ pipairKey \in popSet' \ visit'
    <3>1. pop = nearElem /\ level[nearElem] = 0 /\ pipairKey \in popSet \ visit
      BY <1>0, <2>1, <2>3 DEF DirectInv
    <3>2. level'[nearElem] = level[nearElem]
      BY <1>0, <1>2, <2>1, <2>2, <2>3 DEF TakeCallee, TypeOK
    <3>3. QED
      BY <1>9, <2>1, <2>2, <2>3, <3>1, <3>2 DEF TakeCallee, PassCallee, PushCallee
  <2>4. nearElem' = nearElem /\ nearBy' = nearBy
    BY <2>1 DEF TakeCallee
  <2>5. QED
    BY <1>0, <1>1, <2>1, <2>3, <2>4 DEF DirectInv
<1>10. ASSUME NEW e \in Fun, ReturnTrue(e) PROVE DirectInv'
  BY <1>10 DEF ReturnTrue, DirectInv
<1>11. CASE EndFor
  <2>1. ~ Direct(nearElem)
    BY <1>0, <1>11 DEF EndFor, DirectInv
  <2>2. QED
    BY <1>0, <1>1, <1>11, <2>1 DEF EndFor, DirectInv
<1>12. CASE UNCHANGED vars
  BY <1>0, <1>1, <1>12 DEF vars, dfsVars, DirectInv
<1>13. QED
  BY <1>3, <1>4, <1>5, <1>6, <1>7, <1>8, <1>9, <1>10, <1>11, <1>12
  DEF Next, Step, Returned

-----------------------------------------------------------------------------
(* The theorems. *)

(* The variables of the search keep their types.                           *)
THEOREM TypeCorrect == Spec => []TypeOK
<1>1. Inv => TypeOK
  BY DEF Inv
<1>2. QED
  BY <1>1, Invariance, PTL

(***************************************************************************)
(* Although level.put() overwrites the level of functions that were        *)
(* visited before, a level is always the length of a real chain of calls.  *)
(***************************************************************************)
THEOREM LevelsAreWalks == Spec => []LevelIsWalk
<1>1. Inv => LevelIsWalk
  BY DEF Inv
<1>2. QED
  BY <1>1, Invariance, PTL

(***************************************************************************)
(* reachReducedBug() returns true only when a neighbour reaches the        *)
(* missing function within expandLevel calls: no bug is dropped for a      *)
(* function that is not there.                                             *)
(***************************************************************************)
THEOREM SearchIsSound == Spec => []Sound
<1>1. Inv => Sound
  BY DEF Inv
<1>2. QED
  BY <1>1, Invariance, PTL

(***************************************************************************)
(* reachReducedBug() finds the missing function in every neighbour that    *)
(* calls it directly and does not call itself.                             *)
(***************************************************************************)
THEOREM DirectCalleeIsFound == Spec => []FindsDirectCallee
<1>1. Init => DirectInv
  BY DEF Init, DirectInv, Direct, Neighbours
<1>2. Inv /\ DirectInv /\ [Next]_vars => DirectInv'
  BY DirectStep
<1>3. Inv /\ DirectInv => FindsDirectCallee
  <2> SUFFICES ASSUME Inv, DirectInv, dfs = "false", ExpandLevel >= 1,
                      NEW x \in Neighbours
               PROVE  x \in callerCallee[x] \/ pipairKey \notin callerCallee[x]
    BY DEF FindsDirectCallee
  <2>1. x \in Fun
    BY DEF Neighbours, Inv, TypeOK
  <2>2. QED
    BY <2>1 DEF Inv, SearchInv, DirectInv, Direct
<1>4. QED
  BY <1>1, <1>2, <1>3, Invariance, PTL DEF Spec
=============================================================================
