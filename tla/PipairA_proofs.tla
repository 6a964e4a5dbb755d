--------------------------- MODULE PipairA_proofs ----------------------------
(***************************************************************************)
(* Proofs about the part A program, for every set of functions and every   *)
(* pair of thresholds.                                                     *)
(***************************************************************************)
EXTENDS PipairA, FiniteSetTheorems, TLAPS

-----------------------------------------------------------------------------
(* Keys of the map. *)

(* The keys SET(A) and SET(A,B) are keys of the map.                       *)
LEMMA KeyFacts ==
  /\ \A a \in Fun : {a} \in Keys
  /\ \A a, b \in Fun : {a, b} \in Keys
  /\ \A K \in Keys : \E a, b \in Fun : K = {a, b}
<1>1. \A a \in Fun : {a} = {a, a}
  OBVIOUS
<1>2. QED
  BY <1>1 DEF Keys

(* Two keys SET(A,B), SET(A,C) with the same first function agree on the second. *)
LEMMA PairInjective ==
  ASSUME NEW a, NEW b, NEW c, a # b, a # c, {a, b} = {a, c}
  PROVE  b = c
OBVIOUS

-----------------------------------------------------------------------------
(* The inductive invariant of the loops of main. *)

(***************************************************************************)
(* What ties the program to opt while it reads: in the inner loop the      *)
(* program is in the node opt is printing and nearByCallees holds the      *)
(* callees of that node, in the outer loop opt is in no node of a named    *)
(* function, and a node that is still to be printed has no calls yet.      *)
(***************************************************************************)
CallerInv ==
  /\ scan = "inner" => /\ caller \in Fun \ unprinted
                       /\ node = caller
                       /\ nearByCallees = {f \in Fun : <<caller, f>> \in calls}
  /\ scan = "outer" => node \in {NoNode, NullNode}
  /\ \A c, f \in Fun : <<c, f>> \in calls => c \notin unprinted

ScanInv == ScanTypeOK /\ CallerInv /\ LocationExact

(* A step of opt keeps the types of its own variables.                     *)
LEMMA OptType ==
  ASSUME ScanTypeOK, NEW l \in Line, OptPrints(l)
  PROVE  /\ unprinted' \in SUBSET (Fun \cup {NullNode})
         /\ node' \in Fun \cup {NullNode, NoNode}
         /\ calls' \in SUBSET (Fun \X Fun)
<1> USE DEF ScanTypeOK
<1>1. CASE \E n \in Fun \cup {NullNode} : OptHeader(l, n)
  BY <1>1 DEF OptHeader
<1>2. CASE OptCall(l, l.name)
  <2>1. l.name \in Fun
    BY <1>2 DEF OptCall, Line, Named, Unnamed
  <2>2. QED
    BY <1>2, <2>1 DEF OptCall
<1>3. CASE OptExternal(l)
  BY <1>3 DEF OptExternal, optVars
<1>4. CASE OptBlank(l)
  BY <1>4 DEF OptBlank
<1>5. QED
  BY <1>1, <1>2, <1>3, <1>4 DEF OptPrints, OptText

(* A line that opt prints outside the nodes of named functions adds no call. *)
LEMMA OptOutside ==
  ASSUME ScanTypeOK, node \in {NoNode, NullNode}, NEW l \in Line, OptPrints(l),
         ~ MatchesCaller(l)
  PROVE  /\ calls' = calls
         /\ node' \in {NoNode, NullNode}
         /\ unprinted' \subseteq unprinted
<1>1. CASE \E n \in Fun \cup {NullNode} : OptHeader(l, n)
  BY <1>1 DEF OptHeader, MatchesCaller
<1>2. CASE OptCall(l, l.name)
  BY <1>2 DEF OptCall
<1>3. CASE OptExternal(l)
  BY <1>3 DEF OptExternal, optVars
<1>4. CASE OptBlank(l)
  BY <1>4 DEF OptBlank
<1>5. QED
  BY <1>1, <1>2, <1>3, <1>4 DEF OptPrints, OptText

(* A node line starts a node that opt had not printed.                     *)
LEMMA OptNodeLine ==
  ASSUME NEW l \in Line, OptPrints(l), MatchesCaller(l)
  PROVE  /\ l.name \in Fun
         /\ l.name \in unprinted
         /\ node = NoNode
         /\ node' = l.name
         /\ calls' = calls
         /\ unprinted' = unprinted \ {l.name}
<1>1. l.kind = "node" /\ l.name \in Fun
  BY DEF MatchesCaller, Line, Named, Unnamed
<1>2. ~ OptCall(l, l.name) /\ ~ OptExternal(l) /\ ~ OptBlank(l)
  BY <1>1 DEF OptCall, OptExternal, OptBlank
<1>3. QED
  BY <1>1, <1>2 DEF OptPrints, OptText, OptHeader

(* The effect of a callee line on the calls opt printed.                   *)
LEMMA OptCallLine ==
  ASSUME NEW l \in Line, OptPrints(l), node \in Fun, MatchesCallee(l)
  PROVE  /\ l.name \in Fun
         /\ calls' = calls \cup {<<node, l.name>>}
         /\ node' = node
         /\ unprinted' = unprinted
<1>1. node # NoNode /\ node # NullNode
  BY NoNodeAssumption, NullNodeAssumption
<1>2. l.name \in Fun
  BY DEF MatchesCallee, Line, Named, Unnamed
<1>3. ~ OptExternal(l) /\ ~ OptBlank(l)
  BY DEF OptExternal, OptBlank, MatchesCallee
<1>4. \A n : ~ OptHeader(l, n)
  BY <1>1 DEF OptHeader
<1>5. QED
  BY <1>1, <1>2, <1>3, <1>4 DEF OptPrints, OptText, OptCall

(* The other lines of a node add no call.                                  *)
LEMMA OptOtherLine ==
  ASSUME NEW l \in Line, OptPrints(l), node \in Fun, ~ MatchesCallee(l)
  PROVE  /\ calls' = calls
         /\ unprinted' = unprinted
         /\ node' = IF l.kind = "blank" THEN NoNode ELSE node
<1>1. node # NoNode
  BY NoNodeAssumption
<1>2. ~ OptCall(l, l.name)
  BY DEF OptCall, MatchesCallee
<1>3. \A n : ~ OptHeader(l, n)
  BY <1>1 DEF OptHeader
<1>4. QED
  BY <1>2, <1>3 DEF OptPrints, OptText, OptExternal, OptBlank, optVars

(***************************************************************************)
(* addValueToMap keeps the map exact: the new callee of the current caller *)
(* joins its own key and the keys it forms with the callees before it.     *)
(***************************************************************************)
LEMMA AddValueExact ==
  ASSUME ScanTypeOK, LocationExact,
         NEW c \in Fun, NEW f \in Fun,
         nearByCallees = {g \in Fun : <<c, g>> \in calls}
  PROVE  \A K \in Keys : addValueToMap(f, c)[K] = CallersOf(calls \cup {<<c, f>>}, K)
<1> SUFFICES ASSUME NEW K \in Keys
             PROVE  addValueToMap(f, c)[K] = CallersOf(calls \cup {<<c, f>>}, K)
  OBVIOUS
<1>1. PICK a \in Fun, b \in Fun : K = {a, b}
  BY KeyFacts
<1>2. location[K] = {d \in Fun : <<d, a>> \in calls /\ <<d, b>> \in calls}
  BY <1>1 DEF LocationExact, CallersOf
<1>3. CallersOf(calls \cup {<<c, f>>}, K) =
        {d \in Fun : /\ <<d, a>> \in calls \/ (d = c /\ a = f)
                     /\ <<d, b>> \in calls \/ (d = c /\ b = f)}
  BY <1>1 DEF CallersOf
<1>4. CASE f \in nearByCallees
  <2>1. <<c, f>> \in calls
    BY <1>4
  <2>2. calls \cup {<<c, f>>} = calls
    BY <2>1
  <2>3. QED
    BY <1>4, <2>2 DEF addValueToMap, LocationExact
<1>5. CASE f \notin nearByCallees
  <2>1. <<c, f>> \notin calls
    BY <1>5
  <2>2. addValueToMap(f, c)[K] =
          IF K = {f} \/ \E key \in nearByCallees : K = {f, key}
          THEN location[K] \cup {c} ELSE location[K]
    BY <1>5 DEF addValueToMap
  <2>3. CASE a # f /\ b # f
    <3>1. f \notin K
      BY <1>1, <2>3
    <3>2. addValueToMap(f, c)[K] = location[K]
      BY <2>2, <3>1
    <3>3. QED
      BY <1>2, <1>3, <2>3, <3>2
  <2>4. CASE a = f /\ b = f
    <3>1. K = {f}
      BY <1>1, <2>4
    <3>2. addValueToMap(f, c)[K] = location[K] \cup {c}
      BY <2>2, <3>1
    <3>3. QED
      BY <1>2, <1>3, <2>4, <3>2
  <2>5. CASE a = f /\ b # f
    <3>1. (K = {f} \/ \E key \in nearByCallees : K = {f, key}) <=> <<c, b>> \in calls
      BY <1>1, <2>5
    <3>2. QED
      BY <1>2, <1>3, <2>2, <2>5, <3>1
  <2>6. CASE a # f /\ b = f
    <3>1. K = {f, a} /\ K # {f}
      BY <1>1, <2>6
    <3>2. ASSUME <<c, a>> \in calls
          PROVE  \E key \in nearByCallees : K = {f, key}
      BY <3>1, <3>2
    <3>3. ASSUME NEW key \in nearByCallees, K = {f, key}
          PROVE  <<c, a>> \in calls
      <4>1. key = a
        BY <3>1, <3>3, <2>6
      <4>2. QED
        BY <4>1
    <3>4. (K = {f} \/ \E key \in nearByCallees : K = {f, key}) <=> <<c, a>> \in calls
      BY <3>1, <3>2, <3>3
    <3>5. QED
      BY <1>2, <1>3, <2>2, <2>6, <3>4
  <2>7. QED
    BY <2>3, <2>4, <2>5, <2>6
<1>6. QED
  BY <1>4, <1>5

(* The loops of main keep the invariant.                                   *)
LEMMA ScanStep == ScanInv /\ ScanNext => ScanInv'
<1> SUFFICES ASSUME ScanInv, ScanNext PROVE ScanInv'
  OBVIOUS
<1>0. ScanTypeOK /\ CallerInv /\ LocationExact
  BY DEF ScanInv
<1>1. ASSUME NEW l \in Line, SkipLine(l) PROVE ScanInv'
  <2>1. OptPrints(l) /\ ~ MatchesCaller(l) /\ node \in {NoNode, NullNode}
    BY <1>0, <1>1 DEF SkipLine, CallerInv
  <2>2. calls' = calls /\ node' \in {NoNode, NullNode} /\ unprinted' \subseteq unprinted
    BY <1>0, <2>1, OptOutside
  <2>3. ScanTypeOK'
    BY <1>0, <1>1, <2>1, OptType DEF SkipLine, scanVars, ScanTypeOK
  <2>4. CallerInv'
    BY <1>0, <1>1, <2>2 DEF SkipLine, scanVars, CallerInv
  <2>5. LocationExact'
    BY <1>0, <1>1, <2>2 DEF SkipLine, scanVars, LocationExact
  <2>6. QED
    BY <2>3, <2>4, <2>5 DEF ScanInv
<1>2. ASSUME NEW l \in Line, EnterCaller(l) PROVE ScanInv'
  <2>1. OptPrints(l) /\ MatchesCaller(l)
    BY <1>2 DEF EnterCaller
  <2>2. /\ l.name \in Fun /\ l.name \in unprinted /\ node' = l.name
        /\ calls' = calls /\ unprinted' = unprinted \ {l.name}
    BY <2>1, OptNodeLine
  <2>3. ScanTypeOK'
    BY <1>0, <1>2, <2>1, <2>2, OptType DEF EnterCaller, ScanTypeOK
  <2>4. CallerInv'
    BY <1>0, <1>2, <2>2 DEF EnterCaller, CallerInv
  <2>5. LocationExact'
    BY <1>0, <1>2, <2>2 DEF EnterCaller, LocationExact
  <2>6. QED
    BY <2>3, <2>4, <2>5 DEF ScanInv
<1>3. ASSUME NEW l \in Line, AddCallee(l) PROVE ScanInv'
  <2>1. /\ OptPrints(l) /\ MatchesCallee(l)
        /\ caller \in Fun /\ node = caller /\ node \in Fun
        /\ nearByCallees = {f \in Fun : <<caller, f>> \in calls}
    BY <1>0, <1>3 DEF AddCallee, CallerInv
  <2>2. /\ l.name \in Fun /\ calls' = calls \cup {<<caller, l.name>>}
        /\ node' = node /\ unprinted' = unprinted
    BY <2>1, OptCallLine
  <2>3. location' \in [Keys -> SUBSET Fun]
    BY <1>0, <1>3, <2>1 DEF AddCallee, addValueToMap, ScanTypeOK
  <2>4. ScanTypeOK'
    BY <1>0, <1>3, <2>1, <2>2, <2>3, OptType DEF AddCallee, ScanTypeOK
  <2>5. CallerInv'
    <3>1. scan' = "inner" /\ caller' = caller /\ node' = caller'
      BY <1>3, <2>1, <2>2 DEF AddCallee
    <3>2. nearByCallees' = {f \in Fun : <<caller', f>> \in calls'}
      BY <1>3, <2>1, <2>2, <3>1 DEF AddCallee
    <3>3. caller \notin unprinted
      BY <1>0, <1>3, <2>1 DEF AddCallee, CallerInv
    <3>4. \A c, f \in Fun : <<c, f>> \in calls' => c \notin unprinted'
      BY <1>0, <2>2, <3>3 DEF CallerInv
    <3>5. QED
      BY <2>1, <2>2, <3>1, <3>2, <3>3, <3>4 DEF CallerInv
  <2>6. LocationExact'
    BY <1>0, <1>3, <2>1, <2>2, AddValueExact DEF AddCallee, LocationExact
  <2>7. QED
    BY <2>4, <2>5, <2>6 DEF ScanInv
<1>4. ASSUME NEW l \in Line, IgnoreLine(l) PROVE ScanInv'
  <2>1. /\ OptPrints(l) /\ ~ MatchesCallee(l) /\ l.kind # "blank"
        /\ node = caller /\ node \in Fun
    BY <1>0, <1>4 DEF IgnoreLine, CallerInv
  <2>2. calls' = calls /\ node' = node /\ unprinted' = unprinted
    BY <2>1, OptOtherLine
  <2>3. QED
    BY <1>0, <1>4, <2>2
    DEF IgnoreLine, scanVars, ScanInv, ScanTypeOK, CallerInv, LocationExact
<1>5. ASSUME NEW l \in Line, LeaveCaller(l) PROVE ScanInv'
  <2>1. /\ OptPrints(l) /\ ~ MatchesCallee(l) /\ l.kind = "blank"
        /\ node = caller /\ node \in Fun
    BY <1>0, <1>5 DEF LeaveCaller, CallerInv, MatchesCallee
  <2>2. calls' = calls /\ node' = NoNode /\ unprinted' = unprinted
    BY <2>1, OptOtherLine
  <2>3. QED
    BY <1>0, <1>5, <2>2
    DEF LeaveCaller, ScanInv, ScanTypeOK, CallerInv, LocationExact
<1>6. CASE EndOfInput
  BY <1>0, <1>6
  DEF EndOfInput, optVars, ScanInv, ScanTypeOK, CallerInv, LocationExact
<1>7. QED
  BY <1>1, <1>2, <1>3, <1>4, <1>5, <1>6 DEF ScanNext, ReadLine

-----------------------------------------------------------------------------
(* The inductive invariant of the loops of printBug. *)

(* The line printed for a bug.                                             *)
LineOf(a, b, c) ==
  BugLine(a, b, c, Cardinality(CallersOf(calls, {a, b})),
          Cardinality(CallersOf(calls, {a})))

(* The loops of printBug have still to come to (a, b, c).                  *)
Pending(a, b, c) ==
  \/ a \in singleKeys
  \/ a = singleKey /\ b \in pipairKeys
  \/ a = singleKey /\ b = pipairKey /\ c \in locationTemp

(* Where the iterators of the three loops are.                             *)
LoopInv ==
  /\ print # "idle" => scan = "closed"
  /\ print = "idle" => out = {}
  /\ print \notin {"pair", "location"} => singleKey = NoNode
  /\ print # "location" => pipairKey = NoNode
  /\ print \in {"pair", "location"} =>
       /\ singleKey \in Fun \ singleKeys
       /\ \A b \in pipairKeys : b # singleKey /\ location[{singleKey, b}] # {}
  /\ print = "location" =>
       /\ pipairKey \in Fun \ pipairKeys
       /\ \A c \in locationTemp : IsBug(calls, singleKey, pipairKey, c)
  /\ print = "done" => singleKeys = {}

(* What is printed is what the loops have passed.                          *)
OutInv ==
  print # "idle" =>
    \A l : l \in out <=>
            \E a, b, c \in Fun : /\ IsBug(calls, a, b, c)
                                 /\ ~ Pending(a, b, c)
                                 /\ l = LineOf(a, b, c)

Inv == ScanInv /\ PrintTypeOK /\ LoopInv /\ OutInv

(***************************************************************************)
(* The test of printBug on the sizes of the sets of the map, and the       *)
(* difference of the two sets, are the definition of a bug.                *)
(***************************************************************************)
LEMMA BugExact ==
  ASSUME LocationExact, NEW a \in Fun, NEW b \in Fun, a # b, NEW c \in Fun
  PROVE  IsBug(calls, a, b, c) <=>
           /\ MeetsThresholds(a, b)
           /\ c \in location[{a}] \ location[{a, b}]
           /\ location[{a, b}] # {}
<1> DEFINE both == CallersOf(calls, {a, b})
           one  == CallersOf(calls, {a})
<1>1. location[{a}] = one /\ location[{a, b}] = both
  BY KeyFacts DEF LocationExact
<1>2. both \subseteq one /\ one \subseteq Fun
  BY DEF CallersOf
<1>3. IsFiniteSet(one) /\ IsFiniteSet(both)
  BY <1>2, FunAssumption, FS_Subset
<1>4. /\ Cardinality(both) \in Nat /\ Cardinality(one) \in Nat
      /\ Cardinality(both) <= Cardinality(one)
      /\ Cardinality(both) = Cardinality(one) => both = one
  BY <1>2, <1>3, FS_Subset, FS_CardinalityType
<1>5. c \in one \ both => Cardinality(both) < Cardinality(one)
  <2> HIDE DEF one, both
  <2>1. QED
    BY <1>4
<1>6. MeetsThresholds(a, b) <=>
        /\ Cardinality(one) >= Support
        /\ Cardinality(both) >= Support
        /\ Cardinality(both) < Cardinality(one)
        /\ 100 * Cardinality(both) >= Confidence * Cardinality(one)
  BY <1>1 DEF MeetsThresholds, supportOf
<1>7. IsBug(calls, a, b, c) <=>
        /\ c \in one \ both
        /\ both # {}
        /\ Cardinality(both) >= Support
        /\ 100 * Cardinality(both) >= Confidence * Cardinality(one)
  BY DEF IsBug
<1> DEFINE enough == 100 * Cardinality(both) >= Confidence * Cardinality(one)
<1>8. MeetsThresholds(a, b) <=>
        /\ Cardinality(one) >= Support
        /\ Cardinality(both) >= Support
        /\ Cardinality(both) < Cardinality(one)
        /\ enough
  BY <1>6
<1>9. IsBug(calls, a, b, c) <=>
        /\ c \in one \ both /\ both # {} /\ Cardinality(both) >= Support /\ enough
  BY <1>7
<1>10. QED
  <2> HIDE DEF one, both, enough
  <2>1. QED
    BY <1>1, <1>4, <1>5, <1>8, <1>9, ThresholdAssumption

(* A line tells its bug, its pair and its scope.                           *)
LEMMA LineInjective ==
  ASSUME NEW a, NEW b, NEW c, NEW n, NEW m, NEW x, NEW y, NEW z, NEW p, NEW q,
         a # b, x # y, BugLine(a, b, c, n, m) = BugLine(x, y, z, p, q)
  PROVE  a = x /\ b = y /\ c = z
<1>1. a = x /\ c = z /\ {a, b} = {x, y}
  BY DEF BugLine
<1>2. {x, b} = {x, y}
  BY <1>1
<1>3. QED
  BY <1>1, <1>2, PairInjective

(* A step that prints nothing and passes no bug keeps OutInv.              *)
LEMMA OutSame ==
  ASSUME OutInv, print # "idle", calls' = calls, out' = out,
         \A a, b, c \in Fun :
           IsBug(calls, a, b, c) => (Pending(a, b, c)' <=> Pending(a, b, c))
  PROVE  OutInv'
<1>1. ASSUME NEW a \in Fun, NEW b \in Fun, NEW c \in Fun
      PROVE  /\ LineOf(a, b, c)' = LineOf(a, b, c)
             /\ IsBug(calls, a, b, c)' <=> IsBug(calls, a, b, c)
  BY DEF LineOf
<1>2. ASSUME NEW l
      PROVE  l \in out' <=> \E a, b, c \in Fun : /\ IsBug(calls, a, b, c)'
                                                /\ ~ Pending(a, b, c)'
                                                /\ l = LineOf(a, b, c)'
  <2>1. l \in out <=> \E a, b, c \in Fun : /\ IsBug(calls, a, b, c)
                                           /\ ~ Pending(a, b, c)
                                           /\ l = LineOf(a, b, c)
    BY DEF OutInv
  <2>2. QED
    BY <1>1, <2>1
<1>3. QED
  BY <1>2 DEF OutInv

(***************************************************************************)
(* The steps of printBug leave the map and the call graph alone.           *)
(***************************************************************************)
LEMMA ScanInvKept ==
  ASSUME ScanInv, UNCHANGED <<optVars, scanVars>>
  PROVE  ScanInv'
BY DEF ScanInv, ScanTypeOK, CallerInv, LocationExact, optVars, scanVars

(* The end of the input starts printBug, with nothing printed.              *)
LEMMA AnalyseStep ==
  ASSUME Inv, Analyse
  PROVE  Inv'
<1> USE DEF optVars, scanVars
<1>1. ScanInv'
  BY ScanInvKept DEF Inv, Analyse
<1>2. PrintTypeOK'
  BY DEF Inv, Analyse, StartPrintBug, PrintTypeOK
<1>3. LoopInv'
  BY DEF Inv, Analyse, StartPrintBug, LoopInv
<1>4. OutInv'
  <2>1. out' = {} /\ calls' = calls
    BY DEF Inv, Analyse, StartPrintBug, LoopInv
  <2>2. ASSUME NEW a \in Fun, NEW b \in Fun, NEW c \in Fun, IsBug(calls, a, b, c)
        PROVE  a \in singleKeys'
    <3>1. location[{a}] # {}
      BY <2>2, BugExact DEF Inv, ScanInv, IsBug
    <3>2. QED
      BY <3>1, KeyFacts DEF Analyse, StartPrintBug, keySet
  <2>3. QED
    BY <2>1, <2>2 DEF OutInv, Pending
<1>5. QED
  BY <1>1, <1>2, <1>3, <1>4 DEF Inv

(* Every step of printBug keeps the account of what was printed.            *)
LEMMA PrintPhaseStep ==
  ASSUME Inv, PrintNext, UNCHANGED <<optVars, scanVars>>
  PROVE  Inv'
<1> USE DEF optVars, scanVars
<1>0. /\ ScanTypeOK /\ LocationExact /\ PrintTypeOK /\ LoopInv /\ OutInv
      /\ calls' = calls /\ location' = location /\ scan' = scan
  BY DEF Inv, ScanInv
<1>1. ScanInv'
  BY ScanInvKept DEF Inv
<1>2. ASSUME NEW a \in Fun, TakeSingle(a) PROVE PrintTypeOK' /\ LoopInv' /\ OutInv'
  <2>1. PrintTypeOK'
    BY <1>0, <1>2 DEF TakeSingle, PrintTypeOK
  <2>2. LoopInv'
    BY <1>0, <1>2 DEF TakeSingle, LoopInv, PrintTypeOK, keySet
  <2>3. ASSUME NEW x \in Fun, NEW y \in Fun, NEW z \in Fun, IsBug(calls, x, y, z)
        PROVE  Pending(x, y, z)' <=> Pending(x, y, z)
    <3>1. x # y /\ location[{x, y}] # {}
      BY <1>0, <2>3, BugExact DEF IsBug
    <3>2. x = a => y \in pipairKeys'
      BY <1>2, <3>1, KeyFacts DEF TakeSingle, keySet
    <3>3. QED
      BY <1>0, <1>2, <3>2, NoNodeAssumption DEF TakeSingle, LoopInv, Pending
  <2>4. OutInv'
    BY <1>0, <1>2, <2>3, OutSame DEF TakeSingle
  <2>5. QED
    BY <2>1, <2>2, <2>4
<1>3. ASSUME NEW b \in Fun, SkipPair(b) PROVE PrintTypeOK' /\ LoopInv' /\ OutInv'
  <2>1. PrintTypeOK'
    BY <1>0, <1>3 DEF SkipPair, PrintTypeOK
  <2>2. LoopInv'
    BY <1>0, <1>3 DEF SkipPair, LoopInv, PrintTypeOK
  <2>3. ASSUME NEW x \in Fun, NEW y \in Fun, NEW z \in Fun, IsBug(calls, x, y, z)
        PROVE  Pending(x, y, z)' <=> Pending(x, y, z)
    <3>1. MeetsThresholds(x, y)
      BY <1>0, <2>3, BugExact DEF IsBug
    <3>2. ~ (x = singleKey /\ y = b)
      BY <1>3, <3>1 DEF SkipPair
    <3>3. QED
      BY <1>0, <1>3, <3>2 DEF SkipPair, LoopInv, Pending
  <2>4. OutInv'
    BY <1>0, <1>3, <2>3, OutSame DEF SkipPair
  <2>5. QED
    BY <2>1, <2>2, <2>4
<1>4. ASSUME NEW b \in Fun, TakePair(b) PROVE PrintTypeOK' /\ LoopInv' /\ OutInv'
  <2>1. /\ singleKey \in Fun /\ b # singleKey /\ location[{singleKey, b}] # {}
        /\ MeetsThresholds(singleKey, b)
    BY <1>0, <1>4 DEF TakePair, LoopInv
  <2>2. PrintTypeOK'
    BY <1>0, <1>4, <2>1, KeyFacts DEF TakePair, PrintTypeOK, ScanTypeOK
  <2>3. ASSUME NEW c \in locationTemp' PROVE IsBug(calls, singleKey, b, c)
    <3>1. c \in Fun /\ c \in location[{singleKey}] \ location[{singleKey, b}]
      BY <1>4, <2>2 DEF TakePair, PrintTypeOK
    <3>2. QED
      BY <1>0, <2>1, <3>1, BugExact
  <2>4. LoopInv'
    BY <1>0, <1>4, <2>1, <2>3 DEF TakePair, LoopInv, PrintTypeOK
  <2>5. ASSUME NEW x \in Fun, NEW y \in Fun, NEW z \in Fun, IsBug(calls, x, y, z)
        PROVE  Pending(x, y, z)' <=> Pending(x, y, z)
    <3>1. x = singleKey /\ y = b => z \in locationTemp'
      BY <1>0, <1>4, <2>5, BugExact DEF IsBug, TakePair
    <3>2. QED
      BY <1>0, <1>4, <3>1, NoNodeAssumption DEF TakePair, LoopInv, Pending
  <2>6. OutInv'
    BY <1>0, <1>4, <2>5, OutSame DEF TakePair
  <2>7. QED
    BY <2>2, <2>4, <2>6
<1>5. ASSUME NEW c \in Fun, PrintLine(c) PROVE PrintTypeOK' /\ LoopInv' /\ OutInv'
  <2>1. PrintTypeOK'
    BY <1>0, <1>5 DEF PrintLine, PrintTypeOK
  <2>2. LoopInv'
    BY <1>0, <1>5 DEF PrintLine, LoopInv, PrintTypeOK
  <2>3. /\ singleKey \in Fun /\ pipairKey \in Fun
        /\ IsBug(calls, singleKey, pipairKey, c)
    BY <1>0, <1>5 DEF PrintLine, LoopInv
  <2>4. out' = out \cup {LineOf(singleKey, pipairKey, c)}
    BY <1>0, <1>5, <2>3, KeyFacts DEF PrintLine, LineOf, LocationExact, supportOf
  <2>5. ASSUME NEW x \in Fun, NEW y \in Fun, NEW z \in Fun
        PROVE  /\ LineOf(x, y, z)' = LineOf(x, y, z)
               /\ IsBug(calls, x, y, z)' <=> IsBug(calls, x, y, z)
               /\ ~ Pending(x, y, z)' <=>
                    \/ ~ Pending(x, y, z)
                    \/ x = singleKey /\ y = pipairKey /\ z = c
    <3>1. LineOf(x, y, z)' = LineOf(x, y, z)
      BY <1>0 DEF LineOf
    <3>2. QED
      BY <1>0, <1>5, <3>1 DEF PrintLine, Pending, LoopInv
  <2>6. ASSUME NEW l
        PROVE  l \in out' <=> \E x, y, z \in Fun : /\ IsBug(calls, x, y, z)'
                                                  /\ ~ Pending(x, y, z)'
                                                  /\ l = LineOf(x, y, z)'
    <3>1. l \in out <=> \E x, y, z \in Fun : /\ IsBug(calls, x, y, z)
                                             /\ ~ Pending(x, y, z)
                                             /\ l = LineOf(x, y, z)
      BY <1>0, <1>5 DEF OutInv, PrintLine
    <3>2. QED
      BY <2>3, <2>4, <2>5, <3>1
  <2>7. OutInv'
    BY <2>6 DEF OutInv
  <2>8. QED
    BY <2>1, <2>2, <2>7
<1>6. CASE LeaveLocations
  <2>1. PrintTypeOK' /\ LoopInv'
    BY <1>0, <1>6 DEF LeaveLocations, PrintTypeOK, LoopInv
  <2>2. ASSUME NEW x \in Fun, NEW y \in Fun, NEW z \in Fun, IsBug(calls, x, y, z)
        PROVE  Pending(x, y, z)' <=> Pending(x, y, z)
    BY <1>0, <1>6 DEF LeaveLocations, Pending
  <2>3. OutInv'
    BY <1>0, <1>6, <2>2, OutSame DEF LeaveLocations
  <2>4. QED
    BY <1>1, <2>1, <2>3 DEF Inv
<1>7. CASE LeavePairs
  <2>1. PrintTypeOK' /\ LoopInv'
    BY <1>0, <1>7 DEF LeavePairs, PrintTypeOK, LoopInv
  <2>2. ASSUME NEW x \in Fun, NEW y \in Fun, NEW z \in Fun, IsBug(calls, x, y, z)
        PROVE  Pending(x, y, z)' <=> Pending(x, y, z)
    BY <1>0, <1>7, NoNodeAssumption DEF LeavePairs, Pending, LoopInv
  <2>3. OutInv'
    BY <1>0, <1>7, <2>2, OutSame DEF LeavePairs
  <2>4. QED
    BY <1>1, <2>1, <2>3 DEF Inv
<1>8. CASE EndPrintBug
  <2>1. PrintTypeOK' /\ LoopInv'
    BY <1>0, <1>8 DEF EndPrintBug, PrintTypeOK, LoopInv
  <2>2. ASSUME NEW x \in Fun, NEW y \in Fun, NEW z \in Fun, IsBug(calls, x, y, z)
        PROVE  Pending(x, y, z)' <=> Pending(x, y, z)
    BY <1>8 DEF EndPrintBug, Pending
  <2>3. OutInv'
    BY <1>0, <1>8, <2>2, OutSame DEF EndPrintBug
  <2>4. QED
    BY <1>1, <2>1, <2>3 DEF Inv
<1>9. QED
  BY <1>1, <1>2, <1>3, <1>4, <1>5, <1>6, <1>7, <1>8 DEF PrintNext, Inv

-----------------------------------------------------------------------------
(* The theorems. *)

(* The invariant holds at the start...                                      *)
LEMMA InitInv == Init => Inv
<1> SUFFICES ASSUME Init PROVE Inv
  OBVIOUS
<1>1. ScanTypeOK /\ CallerInv
  BY DEF Init, ScanInit, OptInit, ScanTypeOK, CallerInv
<1>2. LocationExact
  <2>1. ASSUME NEW K \in Keys PROVE CallersOf(calls, K) = {}
    BY KeyFacts DEF Init, ScanInit, OptInit, CallersOf
  <2>2. QED
    BY <2>1 DEF Init, ScanInit, OptInit, LocationExact
<1>3. PrintTypeOK /\ LoopInv /\ OutInv
  BY DEF Init, PrintInit, PrintTypeOK, LoopInv, OutInv
<1>4. QED
  BY <1>1, <1>2, <1>3 DEF Inv, ScanInv

(* ... every step keeps it...                                               *)
LEMMA NextInv == Inv /\ [Next]_vars => Inv'
<1> SUFFICES ASSUME Inv, [Next]_vars PROVE Inv'
  OBVIOUS
<1>1. CASE Scan
  <2>1. ScanInv'
    BY <1>1, ScanStep DEF Inv, Scan
  <2>2. print = "idle" /\ UNCHANGED printVars
    BY <1>1 DEF Inv, LoopInv, Scan, ScanNext, ReadLine, SkipLine, EnterCaller,
                AddCallee, IgnoreLine, LeaveCaller, EndOfInput
  <2>3. PrintTypeOK' /\ LoopInv' /\ OutInv'
    BY <2>2 DEF Inv, printVars, PrintTypeOK, LoopInv, OutInv
  <2>4. QED
    BY <2>1, <2>3 DEF Inv
<1>2. CASE Analyse
  BY <1>2, AnalyseStep
<1>3. CASE PrintStep
  BY <1>3, PrintPhaseStep DEF PrintStep
<1>4. CASE UNCHANGED vars
  <2>1. ScanInv'
    BY <1>4, ScanInvKept DEF Inv, vars
  <2>2. PrintTypeOK' /\ LoopInv'
    BY <1>4 DEF Inv, vars, optVars, scanVars, printVars, PrintTypeOK, LoopInv
  <2>3. /\ calls' = calls /\ out' = out /\ print' = print
        /\ \A a, b, c \in Fun : Pending(a, b, c)' <=> Pending(a, b, c)
    BY <1>4 DEF vars, optVars, printVars, Pending
  <2>4. OutInv'
    <3>1. CASE print = "idle"
      BY <2>3, <3>1 DEF OutInv
    <3>2. CASE print # "idle"
      BY <2>3, <3>2, OutSame DEF Inv
    <3>3. QED
      BY <3>1, <3>2
  <2>5. QED
    BY <2>1, <2>2, <2>4 DEF Inv
<1>5. QED
  BY <1>1, <1>2, <1>3, <1>4 DEF Next, Ended

(* ... so it always holds.                                                  *)
LEMMA Invariance == Spec => []Inv
BY InitInv, NextInv, PTL DEF Spec

(***************************************************************************)
(* Every variable of the program keeps its type.                           *)
(***************************************************************************)
THEOREM TypeCorrect == Spec => []TypeOK
<1>1. Inv => TypeOK
  BY DEF Inv, ScanInv, TypeOK
<1>2. QED
  BY <1>1, Invariance, PTL

(***************************************************************************)
(* After every line, and wherever opt stops, the map that main() builds    *)
(* with addValueToMap() holds exactly the callers of each key.             *)
(***************************************************************************)
THEOREM LocationIsExact == Spec => []LocationExact
<1>1. Inv => LocationExact
  BY DEF Inv, ScanInv
<1>2. QED
  BY <1>1, Invariance, PTL

(* The lines of the report.                                                *)
LEMMA BugsAreLines ==
  /\ \A a, b, c \in Fun : IsBug(calls, a, b, c) => LineOf(a, b, c) \in Bugs(calls)
  /\ \A l \in Bugs(calls) :
       \E a, b, c \in Fun : IsBug(calls, a, b, c) /\ l = LineOf(a, b, c)
<1>1. ASSUME NEW a \in Fun, NEW b \in Fun, NEW c \in Fun, IsBug(calls, a, b, c)
      PROVE  LineOf(a, b, c) \in Bugs(calls)
  <2> DEFINE t == <<a, b, c>>
  <2>1. t \in Fun \X Fun \X Fun /\ t[1] = a /\ t[2] = b /\ t[3] = c
    OBVIOUS
  <2> HIDE DEF t
  <2>2. t \in BugTriples(calls)
    BY <1>1, <2>1 DEF BugTriples
  <2>3. QED
    BY <2>1, <2>2 DEF Bugs, LineOf
<1>2. ASSUME NEW l \in Bugs(calls)
      PROVE  \E a, b, c \in Fun : IsBug(calls, a, b, c) /\ l = LineOf(a, b, c)
  <2>1. PICK t \in BugTriples(calls) : l = LineOf(t[1], t[2], t[3])
    BY DEF Bugs, LineOf
  <2>2. t[1] \in Fun /\ t[2] \in Fun /\ t[3] \in Fun /\ IsBug(calls, t[1], t[2], t[3])
    BY DEF BugTriples
  <2>3. QED
    BY <2>1, <2>2
<1>3. QED
  BY <1>1, <1>2

(* What printBug() has printed is part of the report, all of it at the end. *)
LEMMA OutBugs ==
  ASSUME Inv, print # "idle"
  PROVE  /\ out \subseteq Bugs(calls)
         /\ (\A a, b, c \in Fun : IsBug(calls, a, b, c) => ~ Pending(a, b, c))
              => out = Bugs(calls)
<1>1. \A l : l \in out <=> \E a, b, c \in Fun : /\ IsBug(calls, a, b, c)
                                                /\ ~ Pending(a, b, c)
                                                /\ l = LineOf(a, b, c)
  BY DEF Inv, OutInv
<1>2. QED
  BY <1>1, BugsAreLines

(***************************************************************************)
(* When printBug() returns, the lines it printed are exactly the bugs of   *)
(* the call graph, for every graph, every order of the hash iterations and *)
(* every pair of thresholds.                                               *)
(***************************************************************************)
THEOREM ReportIsExact == Spec => []ReportExact
<1>1. Inv => ReportExact
  <2> SUFFICES ASSUME Inv, print = "done" PROVE out = Bugs(calls)
    BY DEF ReportExact
  <2>1. \A a, b, c \in Fun : ~ Pending(a, b, c)
    BY NoNodeAssumption DEF Inv, LoopInv, Pending
  <2>2. QED
    BY <2>1, OutBugs
<1>2. QED
  BY <1>1, Invariance, PTL

(***************************************************************************)
(* The program implements the abstract report: it prints bugs only, never  *)
(* the same line twice, and stops only when the report is complete.        *)
(***************************************************************************)
THEOREM Refinement == Spec => ImplementsReport
<1>1. Init => Report!Init
  BY DEF Init, ScanInit, OptInit, PrintInit, Report!Init, phase
<1>2. Inv /\ [Next]_vars => [Report!Next]_Report!vars
  <2> SUFFICES ASSUME Inv, [Next]_vars PROVE [Report!Next]_Report!vars
    OBVIOUS
  <2>1. CASE Scan
    <3>1. UNCHANGED printVars
      BY <2>1 DEF Scan
    <3>2. UNCHANGED <<phase, out, lines>>
      BY <3>1 DEF printVars, phase
    <3>3. print = "idle"
      BY <2>1 DEF Inv, LoopInv, Scan, ScanNext, ReadLine, SkipLine, EnterCaller,
                  AddCallee, IgnoreLine, LeaveCaller, EndOfInput
    <3>4. phase = "collect"
      BY <3>3 DEF phase
    <3>5. calls' = calls \/ \E c, f \in Fun : calls' = calls \cup {<<c, f>>}
      <4>1. CASE \E l \in Line : OptPrints(l)
        <5>1. PICK l \in Line : OptPrints(l)
          BY <4>1
        <5>2. CASE OptCall(l, l.name)
          <6>1. l.name \in Fun
            BY <5>2 DEF OptCall, Line, Named, Unnamed
          <6>2. node # NullNode => node \in Fun
            BY <5>2 DEF Inv, ScanInv, ScanTypeOK, OptCall
          <6>3. QED
            BY <5>2, <6>1, <6>2 DEF OptCall
        <5>3. CASE ~ OptCall(l, l.name)
          BY <5>1, <5>3 DEF OptPrints, OptText, OptHeader, OptExternal, OptBlank, optVars
        <5>4. QED
          BY <5>2, <5>3
      <4>2. CASE EndOfInput
        BY <4>2 DEF EndOfInput, optVars
      <4>3. QED
        BY <2>1, <4>1, <4>2 DEF Scan, ScanNext, ReadLine, SkipLine, EnterCaller,
                                AddCallee, IgnoreLine, LeaveCaller
    <3>6. QED
      BY <3>2, <3>4, <3>5 DEF Report!Next, Report!Collect, Report!vars
  <2>2. CASE Analyse
    BY <2>2 DEF Analyse, StartPrintBug, phase, optVars, Report!Next, Report!Analyse
  <2>3. CASE PrintStep
    <3>0. calls' = calls
      BY <2>3 DEF PrintStep, optVars
    <3>1. ASSUME NEW c \in Fun, PrintLine(c) PROVE Report!Next
      <4>1. /\ singleKey \in Fun /\ pipairKey \in Fun /\ c \in locationTemp
            /\ IsBug(calls, singleKey, pipairKey, c)
        BY <3>1 DEF PrintLine, Inv, LoopInv
      <4> DEFINE l == LineOf(singleKey, pipairKey, c)
      <4>2. out' = out \cup {l} /\ lines' = lines + 1 /\ UNCHANGED phase
        BY <3>1, <4>1, KeyFacts DEF PrintLine, LineOf, Inv, ScanInv, LocationExact,
                                   supportOf, phase
      <4>3. l \in Bugs(calls)
        BY <4>1, BugsAreLines
      <4>4. l \notin out
        <5> SUFFICES ASSUME l \in out PROVE FALSE
          OBVIOUS
        <5>1. PICK x \in Fun, y \in Fun, z \in Fun :
                 /\ IsBug(calls, x, y, z)
                 /\ ~ Pending(x, y, z)
                 /\ l = LineOf(x, y, z)
          BY <3>1 DEF Inv, OutInv, PrintLine
        <5>2. x = singleKey /\ y = pipairKey /\ z = c
          BY <4>1, <5>1, LineInjective DEF LineOf, IsBug
        <5>3. QED
          BY <4>1, <5>1, <5>2 DEF Pending
      <4>5. phase = "report"
        BY <3>1 DEF PrintLine, phase
      <4> HIDE DEF l
      <4>6. QED
        BY <3>0, <4>2, <4>3, <4>4, <4>5 DEF Report!Next, Report!Report
    <3>2. CASE EndPrintBug
      <4>1. \A a, b, c \in Fun : ~ Pending(a, b, c)
        BY <3>2, NoNodeAssumption DEF EndPrintBug, Inv, LoopInv, Pending
      <4>2. out = Bugs(calls)
        BY <3>2, <4>1, OutBugs DEF EndPrintBug
      <4>3. QED
        BY <3>0, <3>2, <4>2 DEF EndPrintBug, phase, Report!Next, Report!Finish
    <3>3. ASSUME NEW a \in Fun, TakeSingle(a) \/ SkipPair(a) \/ TakePair(a)
          PROVE  UNCHANGED Report!vars
      BY <3>0, <3>3 DEF TakeSingle, SkipPair, TakePair, phase, Report!vars
    <3>4. CASE LeaveLocations \/ LeavePairs
      BY <3>0, <3>4 DEF LeaveLocations, LeavePairs, phase, Report!vars
    <3>5. QED
      BY <2>3, <3>1, <3>2, <3>3, <3>4 DEF PrintStep, PrintNext
  <2>4. CASE UNCHANGED vars
    BY <2>4 DEF vars, optVars, printVars, phase, Report!vars
  <2>5. QED
    BY <2>1, <2>2, <2>3, <2>4 DEF Next, Ended
<1>3. QED
  BY <1>1, <1>2, Invariance, PTL DEF Spec, ImplementsReport, Report!Spec
=============================================================================
