--------------------------- MODULE PipairD_proofs ----------------------------
(***************************************************************************)
(* Proofs about the part D program, for every set of functions, every pair *)
(* of thresholds and any number of calls in a function.                    *)
(***************************************************************************)
EXTENDS PipairD, FiniteSetTheorems, SequenceTheorems, TLAPS

-----------------------------------------------------------------------------
(* The inductive invariant of the loops of main. *)

(* The types of the variables of opt.                                      *)
OptTypeOK ==
  /\ unprinted \in SUBSET (Fun \cup {NullNode})
  /\ node \in Fun \cup {NullNode, NoNode}
  /\ calls \in SUBSET (Fun \X Site)

(* The types of the variables of main.                                     *)
ScanTypeOK ==
  /\ location \in [Key -> SUBSET Fun]
  /\ scan \in {"outer", "inner", "closed"}
  /\ caller \in Fun \cup {NoNode}
  /\ nearByCallees \in Seq(Fun)

(* The calls of c in the call graph g, as <<place, callee>>.               *)
CallsOf(g, c) == {e \in Site : <<c, e>> \in g}

(* What the program has read of the node: <<place, callee>>.               *)
Read == {<<i, nearByCallees[i]>> : i \in 1 .. Len(nearByCallees)}

(***************************************************************************)
(* What ties the program to opt while it reads: in the inner loop the      *)
(* program is in the node opt is printing and the i-th callee in           *)
(* nearByCallees is the i-th call of that node, in the outer loop opt is   *)
(* in no node of a named function, and a node that is still to be printed  *)
(* has no calls yet.                                                       *)
(***************************************************************************)
CallerInv ==
  /\ scan = "inner" => /\ caller \in Fun \ unprinted
                       /\ node = caller
                       /\ Len(nearByCallees) <= MaxCalls
                       /\ CallsOf(calls, caller) = Read
  /\ scan = "outer" => node \in {NoNode, NullNode}
  /\ \A c \in Fun, e \in Site : <<c, e>> \in calls => c \notin unprinted

ScanInv == OptTypeOK /\ ScanTypeOK /\ CallerInv /\ LocationExact

(* How many calls opt has printed for its node.                            *)
Made == Cardinality({s \in calls : s[1] = node})

(* A step of opt keeps the types of its own variables.                     *)
LEMMA OptType ==
  ASSUME OptTypeOK, NEW l \in Line, OptPrints(l),
         node \in Fun => Made + 1 \in 1 .. MaxCalls
  PROVE  OptTypeOK'
<1> USE DEF OptTypeOK
<1>1. CASE \E n \in Fun \cup {NullNode} : OptHeader(l, n)
  BY <1>1 DEF OptHeader
<1>2. CASE OptCall(l, <<Made + 1, l.name>>)
  <2>1. l.name \in Fun
    BY <1>2 DEF OptCall, Line, Named, Unnamed
  <2>2. CASE node = NullNode
    BY <1>2, <2>2 DEF OptCall
  <2>3. CASE node # NullNode
    <3>1. node \in Fun
      BY <1>2, <2>3 DEF OptCall
    <3>2. <<Made + 1, l.name>> \in Site
      BY <2>1, <3>1 DEF Site
    <3>3. calls' \in SUBSET (Fun \X Site)
      BY <1>2, <2>3, <3>1, <3>2 DEF OptCall
    <3>4. QED
      BY <1>2, <3>3 DEF OptCall
  <2>4. QED
    BY <2>2, <2>3
<1>3. CASE OptExternal(l)
  BY <1>3 DEF OptExternal, optVars
<1>4. CASE OptBlank(l)
  BY <1>4 DEF OptBlank
<1>5. QED
  BY <1>1, <1>2, <1>3, <1>4 DEF OptPrints, OptText, Made

(* A line that opt prints outside the nodes of named functions adds no call. *)
LEMMA OptOutside ==
  ASSUME node \in {NoNode, NullNode}, NEW l \in Line, OptPrints(l), ~ MatchesCaller(l)
  PROVE  /\ calls' = calls
         /\ node' \in {NoNode, NullNode}
         /\ unprinted' \subseteq unprinted
<1>1. CASE \E n \in Fun \cup {NullNode} : OptHeader(l, n)
  BY <1>1 DEF OptHeader, MatchesCaller
<1>2. CASE OptCall(l, <<Made + 1, l.name>>)
  BY <1>2 DEF OptCall
<1>3. CASE OptExternal(l)
  BY <1>3 DEF OptExternal, optVars
<1>4. CASE OptBlank(l)
  BY <1>4 DEF OptBlank
<1>5. QED
  BY <1>1, <1>2, <1>3, <1>4 DEF OptPrints, OptText, Made

(* A node line starts a node that opt had not printed.                     *)
LEMMA OptNodeLine ==
  ASSUME NEW l \in Line, OptPrints(l), MatchesCaller(l)
  PROVE  /\ l.name \in Fun
         /\ l.name \in unprinted
         /\ node = NoNode
         /\ node' = l.name
         /\ calls' = calls
         /\ unprinted' = unprinted \ {l.name}
<1>1. l.kind = "node" /\ l.name \in Fun
  BY DEF MatchesCaller, Line, Named, Unnamed
<1>2. ~ OptCall(l, <<Made + 1, l.name>>) /\ ~ OptExternal(l) /\ ~ OptBlank(l)
  BY <1>1 DEF OptCall, OptExternal, OptBlank
<1>3. QED
  BY <1>1, <1>2 DEF OptPrints, OptText, OptHeader, Made

(* The effect of a callee line on the calls opt printed.                   *)
LEMMA OptCallLine ==
  ASSUME NEW l \in Line, OptPrints(l), node \in Fun, MatchesCallee(l)
  PROVE  /\ l.name \in Fun
         /\ Made < MaxCalls
         /\ calls' = calls \cup {<<node, <<Made + 1, l.name>>>>}
         /\ node' = node
         /\ unprinted' = unprinted
<1>1. node # NoNode /\ node # NullNode
  BY NoNodeAssumption, NullNodeAssumption
<1>2. l.name \in Fun
  BY DEF MatchesCallee, Line, Named, Unnamed
<1>3. ~ OptExternal(l) /\ ~ OptBlank(l)
  BY DEF OptExternal, OptBlank, MatchesCallee
<1>4. \A n : ~ OptHeader(l, n)
  BY <1>1 DEF OptHeader
<1>5. OptCall(l, <<Made + 1, l.name>>)
  BY <1>3, <1>4 DEF OptPrints, OptText, Made
<1>6. Made < MaxCalls
  BY <1>5 DEF OptPrints, OptCall, Made
<1>7. QED
  BY <1>1, <1>2, <1>5, <1>6 DEF OptCall

(* The other lines of a node add no call.                                  *)
LEMMA OptOtherLine ==
  ASSUME NEW l \in Line, OptPrints(l), node \in Fun, ~ MatchesCallee(l)
  PROVE  /\ calls' = calls
         /\ unprinted' = unprinted
         /\ node' = IF l.kind = "blank" THEN NoNode ELSE node
<1>1. node # NoNode
  BY NoNodeAssumption
<1>2. ~ OptCall(l, <<Made + 1, l.name>>)
  BY DEF OptCall, MatchesCallee
<1>3. \A n : ~ OptHeader(l, n)
  BY <1>1 DEF OptHeader
<1>4. QED
  BY <1>2, <1>3 DEF OptPrints, OptText, OptExternal, OptBlank, optVars, Made

(* A list of n callees stands for n calls.                                 *)
LEMMA MadeIsLength ==
  ASSUME OptTypeOK, nearByCallees \in Seq(Fun), node \in Fun,
         CallsOf(calls, node) = Read
  PROVE  Made = Len(nearByCallees)
<1> DEFINE n == Len(nearByCallees)
           T == {s \in calls : s[1] = node}
           F == [i \in 1 .. n |-> <<node, <<i, nearByCallees[i]>>>>]
<1>1. n \in Nat /\ \A i \in 1 .. n : nearByCallees[i] \in Fun
  OBVIOUS
<1>2. \A i \in 1 .. n : F[i] \in T
  BY DEF CallsOf, Read
<1>3. \A t \in T : \E i \in 1 .. n : F[i] = t
  <2> SUFFICES ASSUME NEW t \in T PROVE \E i \in 1 .. n : F[i] = t
    OBVIOUS
  <2>1. PICK e \in Site : t = <<node, e>>
    BY DEF OptTypeOK
  <2>2. e \in Read
    BY <2>1 DEF CallsOf
  <2>3. QED
    BY <2>1, <2>2 DEF Read
<1>4. \A i, j \in 1 .. n : F[i] = F[j] => i = j
  OBVIOUS
<1>5. F \in [1 .. n -> T]
  BY <1>2
<1> HIDE DEF n, T, F
<1>6. F \in Bijection(1 .. n, T)
  BY <1>3, <1>4, <1>5 DEF Bijection, Injection, Surjection, IsInjective
<1>7. IsFiniteSet(1 .. n) /\ Cardinality(1 .. n) = n
  BY <1>1, FS_Interval
<1>8. Cardinality(T) = n
  BY <1>6, <1>7, FS_Bijection DEF ExistsBijection
<1>9. QED
  BY <1>8 DEF T, n, Made

-----------------------------------------------------------------------------
(* Keys of the map. *)

(* The keys [A] and [A,B] are the keys of the map, and no key is both.     *)
LEMMA KeyFacts ==
  /\ \A a \in Fun : <<a>> \in Key
  /\ \A a, b \in Fun : <<a, b>> \in Key /\ <<a, b>> \in Pair
  /\ \A K \in Key : \/ \E a \in Fun : K = <<a>>
                    \/ \E a, b \in Fun : K = <<a, b>>
  /\ \A a, b, c : <<a>> # <<b, c>>
<1>1. \A a, b, c : <<a>> # <<b, c>>
  <2> SUFFICES ASSUME NEW a, NEW b, NEW c, <<a>> = <<b, c>> PROVE FALSE
    OBVIOUS
  <2>1. Len(<<a>>) = 1 /\ Len(<<b, c>>) = 2
    OBVIOUS
  <2>2. QED
    BY <2>1
<1>2. QED
  BY <1>1 DEF Key, Pair

(* The holders of the two kinds of keys, in terms of the calls of a caller. *)
LEMMA HoldersFacts ==
  ASSUME NEW g \in SUBSET (Fun \X Site), NEW c \in Fun, NEW a \in Fun
  PROVE  /\ c \in HoldersOf(g, <<a>>) <=> \E i : <<i, a>> \in CallsOf(g, c)
         /\ \A b \in Fun :
              c \in HoldersOf(g, <<a, b>>) <=>
                \E i, j : /\ <<i, a>> \in CallsOf(g, c)
                          /\ <<j, b>> \in CallsOf(g, c)
                          /\ i < j
<1> DEFINE S == {s[2] : s \in {t \in g : t[1] = c}}
<1>1. S = CallsOf(g, c)
  BY DEF CallsOf
<1>2. \A e \in CallsOf(g, c) : e = <<e[1], e[2]>>
  BY DEF CallsOf, Site
<1>3. Len(<<a>>) = 1 /\ <<a>>[1] = a
  OBVIOUS
<1>4. c \in HoldersOf(g, <<a>>) <=> \E d, e \in S : d[2] = a /\ e = d
  BY <1>3 DEF HoldersOf
<1>5. ASSUME NEW b \in Fun
      PROVE  c \in HoldersOf(g, <<a, b>>) <=>
               \E d, e \in S : d[2] = a /\ d[1] < e[1] /\ e[2] = b
  <2>1. Len(<<a, b>>) = 2 /\ <<a, b>>[1] = a /\ <<a, b>>[2] = b
    OBVIOUS
  <2>2. QED
    BY <2>1 DEF HoldersOf
<1> HIDE DEF S
<1>6. c \in HoldersOf(g, <<a>>) <=> \E i : <<i, a>> \in CallsOf(g, c)
  <2>1. ASSUME NEW e \in CallsOf(g, c), e[2] = a
        PROVE  \E i : <<i, a>> \in CallsOf(g, c)
    <3>1. <<e[1], a>> \in CallsOf(g, c)
      BY <1>2, <2>1
    <3>2. QED
      BY <3>1
  <2>2. ASSUME NEW i, <<i, a>> \in CallsOf(g, c)
        PROVE  \E d, e \in CallsOf(g, c) : d[2] = a /\ e = d
    BY <2>2
  <2>3. QED
    BY <1>1, <1>4, <2>1, <2>2
<1>7. ASSUME NEW b \in Fun
      PROVE  c \in HoldersOf(g, <<a, b>>) <=>
                \E i, j : /\ <<i, a>> \in CallsOf(g, c)
                          /\ <<j, b>> \in CallsOf(g, c)
                          /\ i < j
  <2>1. ASSUME NEW d \in CallsOf(g, c), NEW e \in CallsOf(g, c),
               d[2] = a, d[1] < e[1], e[2] = b
        PROVE  \E i, j : /\ <<i, a>> \in CallsOf(g, c)
                         /\ <<j, b>> \in CallsOf(g, c)
                         /\ i < j
    <3>1. <<d[1], a>> \in CallsOf(g, c) /\ <<e[1], b>> \in CallsOf(g, c)
      BY <1>2, <2>1
    <3>2. QED
      BY <2>1, <3>1
  <2>2. ASSUME NEW i, NEW j, <<i, a>> \in CallsOf(g, c), <<j, b>> \in CallsOf(g, c), i < j
        PROVE  \E d, e \in CallsOf(g, c) : d[2] = a /\ d[1] < e[1] /\ e[2] = b
    BY <2>2
  <2>3. c \in HoldersOf(g, <<a, b>>) <=>
          \E d, e \in CallsOf(g, c) : d[2] = a /\ d[1] < e[1] /\ e[2] = b
    BY <1>1, <1>5
  <2>4. QED
    BY <2>1, <2>2, <2>3
<1>8. QED
  BY <1>6, <1>7

(***************************************************************************)
(* addValueToMap keeps the map exact: the new callee of the current caller *)
(* joins its own key and the keys it ends after a callee seen before it.   *)
(***************************************************************************)
LEMMA AddValueExact ==
  ASSUME OptTypeOK, ScanTypeOK, LocationExact,
         NEW c \in Fun, NEW f \in Fun, NEW n, n = Len(nearByCallees),
         n + 1 \in 1 .. MaxCalls,
         CallsOf(calls, c) = Read
  PROVE  \A K \in Key :
           addValueToMap(f, c)[K] = HoldersOf(calls \cup {<<c, <<n + 1, f>>>>}, K)
<1> DEFINE new == calls \cup {<<c, <<n + 1, f>>>>}
<1>0. new \in SUBSET (Fun \X Site) /\ calls \in SUBSET (Fun \X Site)
  BY DEF OptTypeOK, Site
<1>1. \A d \in Fun \ {c} : CallsOf(new, d) = CallsOf(calls, d)
  BY DEF CallsOf
<1>2. CallsOf(new, c) = Read \cup {<<n + 1, f>>}
  BY DEF CallsOf, Site
<1>3. n \in Nat /\ \A i \in 1 .. n : nearByCallees[i] \in Fun
  BY DEF ScanTypeOK
<1>4. \A i, g : <<i, g>> \in Read <=> i \in 1 .. n /\ nearByCallees[i] = g
  BY DEF Read
<1>5. \A i, g : <<i, g>> \in CallsOf(new, c) <=>
                  \/ i \in 1 .. n /\ nearByCallees[i] = g
                  \/ i = n + 1 /\ g = f
  BY <1>2, <1>4
<1>6. \A K \in Key : location[K] \in SUBSET Fun /\ location[K] = HoldersOf(calls, K)
  BY DEF ScanTypeOK, LocationExact
<1>7. \A g : g \in ToSet(nearByCallees) <=> \E i \in 1 .. n : nearByCallees[i] = g
  BY DEF ToSet, ScanTypeOK
<1> HIDE DEF new
<1>8. ASSUME NEW a \in Fun
      PROVE  addValueToMap(f, c)[<<a>>] = HoldersOf(new, <<a>>)
  <2>1. addValueToMap(f, c)[<<a>>] =
          IF a = f THEN location[<<a>>] \cup {c} ELSE location[<<a>>]
    BY KeyFacts DEF addValueToMap
  <2>2. ASSUME NEW d \in Fun
        PROVE  d \in addValueToMap(f, c)[<<a>>] <=> d \in HoldersOf(new, <<a>>)
    <3>1. d \in HoldersOf(calls, <<a>>) <=> \E i : <<i, a>> \in CallsOf(calls, d)
      BY <1>0, HoldersFacts
    <3>2. d \in HoldersOf(new, <<a>>) <=> \E i : <<i, a>> \in CallsOf(new, d)
      BY <1>0, HoldersFacts
    <3>3. CASE d # c
      BY <1>1, <1>6, <2>1, <3>1, <3>2, <3>3, KeyFacts
    <3>4. CASE d = c
      <4>1. c \in location[<<a>>] <=> \E i \in 1 .. n : nearByCallees[i] = a
        BY <1>4, <1>6, <3>1, <3>4, KeyFacts
      <4>2. c \in HoldersOf(new, <<a>>) <=>
              a = f \/ \E i \in 1 .. n : nearByCallees[i] = a
        BY <1>5, <3>2, <3>4
      <4>3. QED
        BY <2>1, <3>4, <4>1, <4>2
    <3>5. QED
      BY <3>3, <3>4
  <2>3. addValueToMap(f, c)[<<a>>] \subseteq Fun
    BY <1>6, <2>1, KeyFacts
  <2>4. HoldersOf(new, <<a>>) \subseteq Fun
    BY DEF HoldersOf
  <2>5. QED
    BY <2>2, <2>3, <2>4
<1>9. ASSUME NEW a \in Fun, NEW b \in Fun
      PROVE  addValueToMap(f, c)[<<a, b>>] = HoldersOf(new, <<a, b>>)
  <2>1. addValueToMap(f, c)[<<a, b>>] =
          IF b = f /\ \E i \in 1 .. n : nearByCallees[i] = a
          THEN location[<<a, b>>] \cup {c} ELSE location[<<a, b>>]
    BY <1>7, KeyFacts DEF addValueToMap
  <2>2. ASSUME NEW d \in Fun
        PROVE  d \in addValueToMap(f, c)[<<a, b>>] <=> d \in HoldersOf(new, <<a, b>>)
    <3>1. d \in HoldersOf(calls, <<a, b>>) <=>
            \E i, j : /\ <<i, a>> \in CallsOf(calls, d)
                      /\ <<j, b>> \in CallsOf(calls, d)
                      /\ i < j
      BY <1>0, HoldersFacts
    <3>2. d \in HoldersOf(new, <<a, b>>) <=>
            \E i, j : /\ <<i, a>> \in CallsOf(new, d)
                      /\ <<j, b>> \in CallsOf(new, d)
                      /\ i < j
      BY <1>0, HoldersFacts
    <3>3. CASE d # c
      BY <1>1, <1>6, <2>1, <3>1, <3>2, <3>3, KeyFacts
    <3>4. CASE d = c
      <4>1. c \in location[<<a, b>>] <=>
              \E i, j \in 1 .. n : nearByCallees[i] = a /\ nearByCallees[j] = b /\ i < j
        BY <1>4, <1>6, <3>1, <3>4, KeyFacts
      <4>2. c \in HoldersOf(new, <<a, b>>) <=>
              \/ \E i, j \in 1 .. n : nearByCallees[i] = a /\ nearByCallees[j] = b /\ i < j
              \/ b = f /\ \E i \in 1 .. n : nearByCallees[i] = a
        <5>1. ASSUME NEW i, NEW j, <<i, a>> \in CallsOf(new, c),
                     <<j, b>> \in CallsOf(new, c), i < j
              PROVE  /\ i \in 1 .. n /\ nearByCallees[i] = a
                     /\ (j \in 1 .. n /\ nearByCallees[j] = b) \/ b = f
          BY <1>3, <1>5, <5>1
        <5>2. ASSUME NEW i \in 1 .. n, nearByCallees[i] = a, b = f
              PROVE  /\ <<i, a>> \in CallsOf(new, c)
                     /\ <<n + 1, b>> \in CallsOf(new, c)
                     /\ i < n + 1
          BY <1>3, <1>5, <5>2
        <5>3. ASSUME NEW i \in 1 .. n, NEW j \in 1 .. n,
                     nearByCallees[i] = a, nearByCallees[j] = b, i < j
              PROVE  <<i, a>> \in CallsOf(new, c) /\ <<j, b>> \in CallsOf(new, c)
          BY <1>5, <5>3
        <5>4. QED
          BY <3>2, <3>4, <5>1, <5>2, <5>3
      <4>3. QED
        BY <2>1, <3>4, <4>1, <4>2
    <3>5. QED
      BY <3>3, <3>4
  <2>3. addValueToMap(f, c)[<<a, b>>] \subseteq Fun
    BY <1>6, <2>1, KeyFacts
  <2>4. HoldersOf(new, <<a, b>>) \subseteq Fun
    BY DEF HoldersOf
  <2>5. QED
    BY <2>2, <2>3, <2>4
<1>10. ASSUME NEW K \in Key
       PROVE  addValueToMap(f, c)[K] = HoldersOf(new, K)
  <2>1. CASE \E a \in Fun : K = <<a>>
    BY <1>8, <2>1
  <2>2. CASE \E a, b \in Fun : K = <<a, b>>
    BY <1>9, <2>2
  <2>3. QED
    BY <2>1, <2>2, KeyFacts
<1>11. QED
  BY <1>10 DEF new


(* The loops of main keep the invariant.                                   *)
LEMMA ScanStep == ScanInv /\ Scan => ScanInv'
<1> SUFFICES ASSUME ScanInv, Scan PROVE ScanInv'
  OBVIOUS
<1>0. OptTypeOK /\ ScanTypeOK /\ CallerInv /\ LocationExact
  BY DEF ScanInv
<1>1. ASSUME NEW l \in Line, SkipLine(l) PROVE ScanInv'
  <2>1. OptPrints(l) /\ ~ MatchesCaller(l) /\ node \in {NoNode, NullNode}
    BY <1>0, <1>1 DEF SkipLine, CallerInv
  <2>2. calls' = calls /\ node' \in {NoNode, NullNode} /\ unprinted' \subseteq unprinted
    BY <2>1, OptOutside
  <2>3. node \notin Fun
    BY <2>1, NoNodeAssumption, NullNodeAssumption
  <2>4. OptTypeOK'
    BY <1>0, <2>1, <2>3, OptType
  <2>5. ScanTypeOK'
    BY <1>0, <1>1 DEF SkipLine, scanVars, ScanTypeOK
  <2>6. CallerInv'
    BY <1>0, <1>1, <2>2 DEF SkipLine, scanVars, CallerInv
  <2>7. LocationExact'
    BY <1>0, <1>1, <2>2 DEF SkipLine, scanVars, LocationExact
  <2>8. QED
    BY <2>4, <2>5, <2>6, <2>7 DEF ScanInv
<1>2. ASSUME NEW l \in Line, EnterCaller(l) PROVE ScanInv'
  <2>1. OptPrints(l) /\ MatchesCaller(l)
    BY <1>2 DEF EnterCaller
  <2>2. /\ l.name \in Fun /\ l.name \in unprinted /\ node = NoNode /\ node' = l.name
        /\ calls' = calls /\ unprinted' = unprinted \ {l.name}
    BY <2>1, OptNodeLine
  <2>3. OptTypeOK'
    BY <1>0, <2>1, <2>2, OptType, NoNodeAssumption
  <2>4. ScanTypeOK'
    BY <1>0, <1>2, <2>2 DEF EnterCaller, ScanTypeOK
  <2>5. CallerInv'
    <3>1. /\ scan' = "inner" /\ caller' = l.name /\ nearByCallees' = <<>>
          /\ Len(nearByCallees') = 0
      BY <1>2 DEF EnterCaller
    <3>2. Read' = {}
      BY <3>1 DEF Read
    <3>3. CallsOf(calls', caller') = {}
      BY <1>0, <2>2, <3>1 DEF CallerInv, CallsOf
    <3>4. Len(nearByCallees') <= MaxCalls
      BY <3>1, MaxCallsAssumption
    <3>5. \A c \in Fun, e \in Site : <<c, e>> \in calls' => c \notin unprinted'
      BY <1>0, <2>2 DEF CallerInv
    <3>6. QED
      BY <2>2, <3>1, <3>2, <3>3, <3>4, <3>5 DEF CallerInv
  <2>6. LocationExact'
    BY <1>0, <1>2, <2>2 DEF EnterCaller, LocationExact
  <2>7. QED
    BY <2>3, <2>4, <2>5, <2>6 DEF ScanInv
<1>3. ASSUME NEW l \in Line, AddCallee(l) PROVE ScanInv'
  <2>1. /\ OptPrints(l) /\ MatchesCallee(l)
        /\ caller \in Fun /\ node = caller /\ node \in Fun
        /\ CallsOf(calls, caller) = Read
    BY <1>0, <1>3 DEF AddCallee, CallerInv
  <2> DEFINE n == Len(nearByCallees)
  <2>2. Made = n /\ n \in Nat
    BY <1>0, <2>1, MadeIsLength DEF ScanTypeOK
  <2>3. /\ l.name \in Fun /\ n < MaxCalls
        /\ calls' = calls \cup {<<caller, <<n + 1, l.name>>>>}
        /\ node' = node /\ unprinted' = unprinted
    BY <2>1, <2>2, OptCallLine
  <2>4. n + 1 \in 1 .. MaxCalls
    BY <2>2, <2>3, MaxCallsAssumption
  <2>5. OptTypeOK'
    BY <1>0, <2>1, <2>2, <2>4, OptType
  <2>6. /\ nearByCallees' \in Seq(Fun)
        /\ Len(nearByCallees') = n + 1
        /\ \A i \in 1 .. n : nearByCallees'[i] = nearByCallees[i]
        /\ nearByCallees'[n + 1] = l.name
    BY <1>0, <1>3, <2>3 DEF AddCallee, ScanTypeOK
  <2>7. ScanTypeOK'
    BY <1>0, <1>3, <2>1, <2>6 DEF AddCallee, addValueToMap, ScanTypeOK
  <2>8. CallerInv'
    <3>1. scan' = "inner" /\ caller' = caller /\ node' = caller'
      BY <1>3, <2>1, <2>3 DEF AddCallee
    <3>2. Read' = Read \cup {<<n + 1, l.name>>}
      <4>1. 1 .. (n + 1) = (1 .. n) \cup {n + 1}
        BY <2>2
      <4>2. Read' = {<<i, nearByCallees'[i]>> : i \in 1 .. (n + 1)}
        BY <2>6 DEF Read
      <4>3. QED
        BY <2>6, <4>1, <4>2 DEF Read
    <3>3. CallsOf(calls', caller') = CallsOf(calls, caller) \cup {<<n + 1, l.name>>}
      BY <2>3, <2>4, <3>1 DEF CallsOf, Site
    <3>4. caller \notin unprinted
      BY <1>0, <1>3 DEF AddCallee, CallerInv
    <3>5. \A c \in Fun, e \in Site : <<c, e>> \in calls' => c \notin unprinted'
      BY <1>0, <2>3, <3>4 DEF CallerInv
    <3>6. n + 1 <= MaxCalls
      BY <2>4
    <3>7. QED
      BY <2>1, <2>3, <2>6, <3>1, <3>2, <3>3, <3>4, <3>5, <3>6 DEF CallerInv
  <2>9. LocationExact'
    <3>1. \A K \in Key : addValueToMap(l.name, caller)[K] =
                          HoldersOf(calls \cup {<<caller, <<n + 1, l.name>>>>}, K)
      <4> HIDE DEF n
      <4>1. n = Len(nearByCallees)
        BY DEF n
      <4>2. QED
        BY <1>0, <2>1, <2>3, <2>4, <4>1, AddValueExact
    <3>2. location' = addValueToMap(l.name, caller)
      BY <1>3 DEF AddCallee
    <3>3. \A K \in Key : location'[K] = HoldersOf(calls', K)
      BY <2>3, <3>1, <3>2
    <3>4. QED
      BY <3>3 DEF LocationExact
  <2>10. QED
    BY <2>5, <2>7, <2>8, <2>9 DEF ScanInv
<1>4. ASSUME NEW l \in Line, IgnoreLine(l) \/ LeaveCaller(l) PROVE ScanInv'
  <2>1. /\ OptPrints(l) /\ ~ MatchesCallee(l)
        /\ scan = "inner" /\ node = caller /\ node \in Fun
        /\ scan' = IF l.kind = "blank" THEN "outer" ELSE "inner"
        /\ UNCHANGED <<location, caller, nearByCallees>>
    BY <1>0, <1>4 DEF IgnoreLine, LeaveCaller, CallerInv, MatchesCallee, scanVars
  <2>2. /\ calls' = calls /\ unprinted' = unprinted
        /\ node' = IF l.kind = "blank" THEN NoNode ELSE node
    BY <2>1, OptOtherLine
  <2>3. OptTypeOK'
    BY <1>0, <2>2 DEF OptTypeOK
  <2>4. ScanTypeOK'
    BY <1>0, <2>1 DEF ScanTypeOK
  <2>5. CallerInv'
    BY <1>0, <2>1, <2>2 DEF CallerInv, Read
  <2>6. LocationExact'
    BY <1>0, <2>1, <2>2 DEF LocationExact
  <2>7. QED
    BY <2>3, <2>4, <2>5, <2>6 DEF ScanInv
<1>5. CASE EndOfInput
  BY <1>0, <1>5
  DEF EndOfInput, optVars, ScanInv, OptTypeOK, ScanTypeOK, CallerInv, LocationExact
<1>6. QED
  BY <1>1, <1>2, <1>3, <1>4, <1>5 DEF Scan

-----------------------------------------------------------------------------
(* The inductive invariant of the loops of printBug. *)

(* The scope c lacks the pair p, or its reverse, and a is called there.    *)
Tells(a, p, c) == IsOrderedBug(calls, a, p, c)

(* What is printed of one order of a pair.                                 *)
TextOf(a, q) ==
  PairText(q, Cardinality(HoldersOf(calls, q)), Cardinality(HoldersOf(calls, <<a>>)))

(* The line a bug deserves: with each order of the pair that tells of it.  *)
LineOf(a, p, c) ==
  OrderedBugLine(a, c, {TextOf(a, q) : q \in {r \in {p, reverse(p)} : Tells(a, r, c)}})

(* The loops of printBug have still to come to (a, p, c).                  *)
Pending(a, p, c) ==
  \/ a \in singleKeys
  \/ a = singleKey /\ p \in pipairKeys
  \/ a = singleKey /\ p = pipairKey /\ c \in locationTemp

PrintTypeOK ==
  /\ print \in {"idle", "single", "pair", "location", "done"}
  /\ singleKeys \subseteq Fun
  /\ singleKey \in Fun \cup {NoNode}
  /\ pipairKeys \subseteq Pair
  /\ pipairKey \in Pair \cup {<<>>}
  /\ locationTemp \subseteq Fun
  /\ visit \subseteq Fun \X Pair \X Fun
  /\ lines \in Nat

(* Where the iterators of the three loops are.                             *)
LoopInv ==
  /\ print # "idle" => scan = "closed"
  /\ print = "idle" => out = {} /\ visit = {}
  /\ print \notin {"pair", "location"} => singleKey = NoNode
  /\ print # "location" => pipairKey = <<>>
  /\ print \in {"pair", "location"} =>
       /\ singleKey \in Fun \ singleKeys
       /\ \A p \in pipairKeys : singleKey \in {p[1], p[2]} /\ location[p] # {}
  /\ print = "location" =>
       /\ pipairKey \in Pair \ pipairKeys
       /\ \A c \in locationTemp : Tells(singleKey, pipairKey, c)
  /\ print = "done" => singleKeys = {}

(* What is printed is what the loops have passed.                          *)
OutInv ==
  print # "idle" =>
    \A l : l \in out <=>
            \E a, c \in Fun, p \in Pair : /\ Tells(a, p, c)
                                          /\ ~ Pending(a, p, c)
                                          /\ l = LineOf(a, p, c)

(***************************************************************************)
(* The list visit: it holds bugs that were passed, and of a bug that both  *)
(* orders tell of the order that came first.                               *)
(***************************************************************************)
VisitInv ==
  print # "idle" =>
    \A a, c \in Fun, p \in Pair :
      /\ <<a, p, c>> \in visit => Tells(a, p, c) /\ ~ Pending(a, p, c)
      /\ /\ p[1] # p[2]
         /\ Tells(a, p, c) /\ Tells(a, reverse(p), c)
         /\ ~ Pending(a, p, c)
         => <<a, p, c>> \in visit \/ <<a, reverse(p), c>> \in visit

Inv == ScanInv /\ PrintTypeOK /\ LoopInv /\ OutInv /\ VisitInv

(* The reverse of a pair.                                                  *)
LEMMA ReverseFacts ==
  ASSUME NEW p \in Pair
  PROVE  /\ p[1] \in Fun /\ p[2] \in Fun /\ p = <<p[1], p[2]>> /\ p \in Key
         /\ reverse(p) \in Pair /\ reverse(p) \in Key
         /\ reverse(p)[1] = p[2] /\ reverse(p)[2] = p[1]
         /\ reverse(reverse(p)) = p
         /\ p = reverse(p) <=> p[1] = p[2]
BY DEF Pair, Key, reverse

(***************************************************************************)
(* The test of printBug on the sizes of the sets of the map, and the       *)
(* difference of the two sets, are the definition of a bug.                *)
(***************************************************************************)
LEMMA BugExact ==
  ASSUME OptTypeOK, LocationExact, NEW a \in Fun, NEW p \in Pair, NEW c \in Fun
  PROVE  Tells(a, p, c) <=>
           /\ a \in {p[1], p[2]}
           /\ MeetsThresholds(a, p)
           /\ c \in location[<<a>>] \ location[p]
           /\ location[p] # {}
<1> DEFINE pair == HoldersOf(calls, p)
           one  == HoldersOf(calls, <<a>>)
           enough == 100 * Cardinality(pair) >= Confidence * Cardinality(one)
<1>1. location[<<a>>] = one /\ location[p] = pair
  BY KeyFacts, ReverseFacts DEF LocationExact
<1>2. one \subseteq Fun /\ pair \subseteq Fun
  BY DEF HoldersOf
<1>3. a \in {p[1], p[2]} => pair \subseteq one
  <2> SUFFICES ASSUME a \in {p[1], p[2]}, NEW d \in Fun, d \in pair
               PROVE  d \in one
    BY <1>2
  <2>1. p[1] \in Fun /\ p[2] \in Fun /\ p = <<p[1], p[2]>>
    BY ReverseFacts
  <2>2. \E i, j : <<i, p[1]>> \in CallsOf(calls, d) /\ <<j, p[2]>> \in CallsOf(calls, d)
    <3> DEFINE x == p[1]
               y == p[2]
    <3>1. x \in Fun /\ y \in Fun /\ d \in HoldersOf(calls, <<x, y>>)
      BY <2>1
    <3> HIDE DEF x, y
    <3>2. \E i, j : <<i, x>> \in CallsOf(calls, d) /\ <<j, y>> \in CallsOf(calls, d)
      BY <3>1, HoldersFacts DEF OptTypeOK
    <3>3. QED
      BY <3>2 DEF x, y
  <2>3. \E i : <<i, a>> \in CallsOf(calls, d)
    BY <2>2
  <2>4. QED
    BY <2>3, HoldersFacts DEF OptTypeOK
<1>4. IsFiniteSet(one) /\ IsFiniteSet(pair)
  BY <1>2, FunAssumption, FS_Subset
<1>5. /\ Cardinality(pair) \in Nat /\ Cardinality(one) \in Nat
      /\ pair \subseteq one =>
           /\ Cardinality(pair) <= Cardinality(one)
           /\ Cardinality(pair) = Cardinality(one) => pair = one
  BY <1>4, FS_Subset, FS_CardinalityType
<1>6. MeetsThresholds(a, p) <=>
        /\ Cardinality(one) >= Support
        /\ Cardinality(pair) >= Support
        /\ Cardinality(pair) < Cardinality(one)
        /\ enough
  BY <1>1 DEF MeetsThresholds, supportOf
<1>7. Tells(a, p, c) <=>
        /\ a \in {p[1], p[2]}
        /\ c \in one \ pair
        /\ pair # {}
        /\ Cardinality(pair) >= Support
        /\ enough
  BY DEF Tells, IsOrderedBug
<1>8. a \in {p[1], p[2]} /\ c \in one \ pair => Cardinality(pair) < Cardinality(one)
  <2> HIDE DEF one, pair
  <2>1. QED
    BY <1>3, <1>5
<1>9. QED
  <2> HIDE DEF one, pair, enough
  <2>1. QED
    BY <1>1, <1>5, <1>6, <1>7, <1>8, ThresholdAssumption

(* Both orders of a pair stand for the same line.                          *)
LEMMA LineReverse ==
  ASSUME NEW a, NEW c, NEW p \in Pair
  PROVE  LineOf(a, reverse(p), c) = LineOf(a, p, c)
<1>1. {reverse(p), reverse(reverse(p))} = {p, reverse(p)}
  BY ReverseFacts
<1>2. QED
  BY <1>1 DEF LineOf

(* A line tells its bug, its scope and its pair, but for the order.        *)
LEMMA LineInjective ==
  ASSUME NEW a, NEW p, NEW c, NEW x, NEW y, NEW z,
         Tells(x, y, z), LineOf(a, p, c) = LineOf(x, y, z)
  PROVE  a = x /\ c = z /\ y \in {p, reverse(p)}
<1> DEFINE S == {TextOf(a, q) : q \in {r \in {p, reverse(p)} : Tells(a, r, c)}}
           T == {TextOf(x, q) : q \in {r \in {y, reverse(y)} : Tells(x, r, z)}}
<1>1. OrderedBugLine(a, c, S) = OrderedBugLine(x, z, T)
  BY DEF LineOf
<1>2. TextOf(x, y) \in T
  OBVIOUS
<1> HIDE DEF S, T
<1>3. a = x /\ c = z /\ S = T
  BY <1>1 DEF OrderedBugLine
<1>4. PICK q \in {p, reverse(p)} : TextOf(x, y) = TextOf(a, q)
  BY <1>2, <1>3 DEF S
<1>5. y = q
  BY <1>4 DEF TextOf, PairText
<1>6. QED
  BY <1>3, <1>4, <1>5

(* A step that prints nothing and passes no bug keeps what is printed.     *)
LEMMA ReportSame ==
  ASSUME OutInv, VisitInv, print # "idle", calls' = calls, out' = out, visit' = visit,
         \A a, c \in Fun, p \in Pair :
           Tells(a, p, c) => (Pending(a, p, c)' <=> Pending(a, p, c))
  PROVE  OutInv' /\ VisitInv'
<1>1. ASSUME NEW a \in Fun, NEW p \in Pair, NEW c \in Fun
      PROVE  /\ LineOf(a, p, c)' = LineOf(a, p, c)
             /\ Tells(a, p, c)' <=> Tells(a, p, c)
             /\ Tells(a, reverse(p), c)' <=> Tells(a, reverse(p), c)
  BY DEF LineOf, Tells, TextOf
<1>2. OutInv'
  <2>1. ASSUME NEW l
        PROVE  l \in out' <=> \E a, c \in Fun, p \in Pair : /\ Tells(a, p, c)'
                                                           /\ ~ Pending(a, p, c)'
                                                           /\ l = LineOf(a, p, c)'
    <3>1. l \in out <=> \E a, c \in Fun, p \in Pair : /\ Tells(a, p, c)
                                                      /\ ~ Pending(a, p, c)
                                                      /\ l = LineOf(a, p, c)
      BY DEF OutInv
    <3>2. QED
      BY <1>1, <3>1
  <2>2. QED
    BY <2>1 DEF OutInv
<1>3. VisitInv'
  <2>1. ASSUME NEW a \in Fun, NEW p \in Pair, NEW c \in Fun
        PROVE  /\ <<a, p, c>> \in visit => Tells(a, p, c) /\ ~ Pending(a, p, c)
               /\ /\ p[1] # p[2]
                  /\ Tells(a, p, c) /\ Tells(a, reverse(p), c)
                  /\ ~ Pending(a, p, c)
                  => <<a, p, c>> \in visit \/ <<a, reverse(p), c>> \in visit
    BY DEF VisitInv
  <2>2. ASSUME NEW a \in Fun, NEW p \in Pair, NEW c \in Fun
        PROVE  /\ <<a, p, c>> \in visit' => Tells(a, p, c)' /\ ~ Pending(a, p, c)'
               /\ /\ p[1] # p[2]
                  /\ Tells(a, p, c)' /\ Tells(a, reverse(p), c)'
                  /\ ~ Pending(a, p, c)'
                  => <<a, p, c>> \in visit' \/ <<a, reverse(p), c>> \in visit'
    BY <1>1, <2>1
  <2>3. QED
    BY <2>2 DEF VisitInv
<1>4. QED
  BY <1>2, <1>3

(* The other order of the current pair, as printBug looks it up.           *)
LEMMA ReverseTellsExact ==
  ASSUME Inv, print = "location", NEW c \in locationTemp
  PROVE  ReverseTells(c) <=> /\ pipairKey[1] # pipairKey[2]
                             /\ Tells(singleKey, reverse(pipairKey), c)
<1> DEFINE q == reverse(pipairKey)
<1>1. OptTypeOK /\ LocationExact
  BY DEF Inv, ScanInv
<1>2. /\ singleKey \in Fun /\ pipairKey \in Pair /\ c \in Fun
      /\ Tells(singleKey, pipairKey, c)
  BY DEF Inv, LoopInv, PrintTypeOK
<1>3. /\ q \in Pair /\ q[1] = pipairKey[2] /\ q[2] = pipairKey[1]
  BY <1>2, ReverseFacts
<1>4. ReverseTells(c) <=>
        /\ pipairKey[1] # pipairKey[2]
        /\ MeetsThresholds(singleKey, q)
        /\ c \in location[<<singleKey>>] \ location[q]
        /\ location[q] # {}
  BY DEF ReverseTells
<1> HIDE DEF q
<1>5. Tells(singleKey, q, c) <=>
        /\ singleKey \in {q[1], q[2]}
        /\ MeetsThresholds(singleKey, q)
        /\ c \in location[<<singleKey>>] \ location[q]
        /\ location[q] # {}
  BY <1>1, <1>2, <1>3, BugExact
<1>6. QED
  <2>1. singleKey \in {pipairKey[1], pipairKey[2]}
    BY <1>1, <1>2, BugExact
  <2>2. QED
    BY <1>3, <1>4, <1>5, <2>1 DEF q
(***************************************************************************)
(* The texts printed for the scope c, those of both orders or that of the  *)
(* current one, are the line of the bug.                                   *)
(***************************************************************************)
LEMMA PrintedLine ==
  ASSUME Inv, print = "location", NEW c \in locationTemp, NEW pairs,
         pairs = IF ReverseTells(c) THEN {pipairKey, reverse(pipairKey)} ELSE {pipairKey},
         PrintTexts(c, pairs)
  PROVE  out' = out \cup {LineOf(singleKey, pipairKey, c)} /\ lines' = lines + 1
<1>1. /\ singleKey \in Fun /\ pipairKey \in Pair /\ c \in Fun
      /\ Tells(singleKey, pipairKey, c) /\ LocationExact
  BY DEF Inv, LoopInv, PrintTypeOK, ScanInv
<1>2. pairs = {r \in {pipairKey, reverse(pipairKey)} : Tells(singleKey, r, c)}
  <2>1. ReverseTells(c) <=> /\ pipairKey[1] # pipairKey[2]
                            /\ Tells(singleKey, reverse(pipairKey), c)
    BY ReverseTellsExact
  <2>2. reverse(pipairKey) = pipairKey <=> pipairKey[1] = pipairKey[2]
    BY <1>1, ReverseFacts
  <2>3. QED
    BY <1>1, <2>1, <2>2
<1>3. pairs \subseteq Key
  BY <1>1, <1>2, ReverseFacts
<1>4. \A q \in pairs :
        PairText(q, supportOf(q), supportOf(<<singleKey>>)) = TextOf(singleKey, q)
  BY <1>1, <1>3, KeyFacts DEF LocationExact, supportOf, TextOf
<1>5. {PairText(q, supportOf(q), supportOf(<<singleKey>>)) : q \in pairs} =
        {TextOf(singleKey, q) : q \in pairs}
  BY <1>4
<1>6. LineOf(singleKey, pipairKey, c) =
        OrderedBugLine(singleKey, c, {TextOf(singleKey, q) : q \in pairs})
  BY <1>2 DEF LineOf
<1>7. QED
  BY <1>5, <1>6 DEF PrintTexts

(* The loop over the scopes passes c.                                      *)
PassesScope(c) ==
  /\ locationTemp' = locationTemp \ {c}
  /\ UNCHANGED <<optVars, scanVars, print, singleKeys, singleKey, pipairKeys, pipairKey>>

(* What a scope that is passed changes in what is pending.                 *)
LEMMA PassesOne ==
  ASSUME Inv, print = "location", NEW c \in locationTemp, PassesScope(c)
  PROVE  \A a, d \in Fun, p \in Pair :
           /\ LineOf(a, p, d)' = LineOf(a, p, d)
           /\ Tells(a, p, d)' <=> Tells(a, p, d)
           /\ Tells(a, reverse(p), d)' <=> Tells(a, reverse(p), d)
           /\ ~ Pending(a, p, d)' <=>
                \/ ~ Pending(a, p, d)
                \/ a = singleKey /\ p = pipairKey /\ d = c
<1> SUFFICES ASSUME NEW a \in Fun, NEW d \in Fun, NEW p \in Pair
             PROVE  /\ LineOf(a, p, d)' = LineOf(a, p, d)
                    /\ Tells(a, p, d)' <=> Tells(a, p, d)
                    /\ Tells(a, reverse(p), d)' <=> Tells(a, reverse(p), d)
                    /\ ~ Pending(a, p, d)' <=>
                         \/ ~ Pending(a, p, d)
                         \/ a = singleKey /\ p = pipairKey /\ d = c
  OBVIOUS
<1>1. calls' = calls
  BY DEF PassesScope, optVars
<1>2. /\ LineOf(a, p, d)' = LineOf(a, p, d)
      /\ Tells(a, p, d)' <=> Tells(a, p, d)
      /\ Tells(a, reverse(p), d)' <=> Tells(a, reverse(p), d)
  BY <1>1 DEF LineOf, Tells, TextOf
<1>3. ~ Pending(a, p, d)' <=>
        \/ ~ Pending(a, p, d)
        \/ a = singleKey /\ p = pipairKey /\ d = c
  BY DEF PassesScope, Pending, Inv, LoopInv
<1>4. QED
  BY <1>2, <1>3

(* Passing a bug whose line is then printed keeps what is printed exact.   *)
LEMMA PassesPrinted ==
  ASSUME Inv, print = "location", NEW c \in locationTemp, PassesScope(c),
         out' = out \cup {LineOf(singleKey, pipairKey, c)}
  PROVE  OutInv'
<1>1. /\ singleKey \in Fun /\ pipairKey \in Pair /\ c \in Fun
      /\ Tells(singleKey, pipairKey, c)
  BY DEF Inv, LoopInv, PrintTypeOK
<1>2. ASSUME NEW l
      PROVE  l \in out' <=> \E a, d \in Fun, p \in Pair : /\ Tells(a, p, d)'
                                                         /\ ~ Pending(a, p, d)'
                                                         /\ l = LineOf(a, p, d)'
  <2>1. l \in out <=> \E a, d \in Fun, p \in Pair : /\ Tells(a, p, d)
                                                    /\ ~ Pending(a, p, d)
                                                    /\ l = LineOf(a, p, d)
    BY DEF Inv, OutInv
  <2>2. QED
    BY <1>1, <2>1, PassesOne
<1>3. QED
  BY <1>2 DEF OutInv

(* What visit must hold after a bug is passed.                             *)
LEMMA PassesVisit ==
  ASSUME Inv, print = "location", NEW c \in locationTemp, PassesScope(c),
         visit' \in {visit, visit \cup {<<singleKey, pipairKey, c>>}},
         ReverseTells(c) => \/ <<singleKey, pipairKey, c>> \in visit'
                            \/ <<singleKey, reverse(pipairKey), c>> \in visit'
  PROVE  VisitInv'
<1>1. /\ singleKey \in Fun /\ pipairKey \in Pair /\ c \in Fun
      /\ Tells(singleKey, pipairKey, c)
  BY DEF Inv, LoopInv, PrintTypeOK
<1>2. ReverseTells(c) <=> /\ pipairKey[1] # pipairKey[2]
                          /\ Tells(singleKey, reverse(pipairKey), c)
  BY ReverseTellsExact
<1>3. ASSUME NEW a \in Fun, NEW p \in Pair, NEW d \in Fun
      PROVE  /\ <<a, p, d>> \in visit => Tells(a, p, d) /\ ~ Pending(a, p, d)
             /\ /\ p[1] # p[2]
                /\ Tells(a, p, d) /\ Tells(a, reverse(p), d)
                /\ ~ Pending(a, p, d)
                => <<a, p, d>> \in visit \/ <<a, reverse(p), d>> \in visit
  BY DEF Inv, VisitInv
<1>4. ASSUME NEW a \in Fun, NEW p \in Pair, NEW d \in Fun
      PROVE  /\ <<a, p, d>> \in visit' => Tells(a, p, d)' /\ ~ Pending(a, p, d)'
             /\ /\ p[1] # p[2]
                /\ Tells(a, p, d)' /\ Tells(a, reverse(p), d)'
                /\ ~ Pending(a, p, d)'
                => <<a, p, d>> \in visit' \/ <<a, reverse(p), d>> \in visit'
  <2>1. /\ Tells(a, p, d)' <=> Tells(a, p, d)
        /\ Tells(a, reverse(p), d)' <=> Tells(a, reverse(p), d)
        /\ ~ Pending(a, p, d)' <=>
             \/ ~ Pending(a, p, d)
             \/ a = singleKey /\ p = pipairKey /\ d = c
    BY PassesOne
  <2>2. CASE a = singleKey /\ p = pipairKey /\ d = c
    BY <1>1, <1>2, <2>1, <2>2
  <2>3. CASE ~ (a = singleKey /\ p = pipairKey /\ d = c)
    <3>1. <<a, p, d>> \in visit' => <<a, p, d>> \in visit
      BY <2>3
    <3>2. visit \subseteq visit'
      OBVIOUS
    <3>3. QED
      BY <1>3, <2>1, <2>3, <3>1, <3>2
  <2>4. QED
    BY <2>2, <2>3
<1>5. QED
  BY <1>4 DEF VisitInv

(* printBug leaves the map and the call graph alone.                       *)
LEMMA ScanInvKept ==
  ASSUME ScanInv, UNCHANGED <<optVars, scanVars>>
  PROVE  ScanInv'
BY DEF ScanInv, OptTypeOK, ScanTypeOK, CallerInv, LocationExact, Read, optVars, scanVars
(* Every bug that is told of is one of those the outer loop starts with.   *)
LEMMA StartStep ==
  ASSUME Inv, StartPrintBug, UNCHANGED <<optVars, scanVars>>
  PROVE  Inv'
<1>0. /\ OptTypeOK /\ LocationExact /\ PrintTypeOK /\ LoopInv
      /\ calls' = calls /\ location' = location /\ scan' = scan
  BY DEF Inv, ScanInv, optVars, scanVars
<1>1. ScanInv'
  BY ScanInvKept DEF Inv
<1>2. PrintTypeOK' /\ LoopInv'
  BY <1>0 DEF StartPrintBug, PrintTypeOK, LoopInv
<1>3. out' = {} /\ visit' = {}
  BY <1>0 DEF StartPrintBug, LoopInv
<1>4. ASSUME NEW a \in Fun, NEW p \in Pair, NEW c \in Fun, Tells(a, p, c)
      PROVE  Pending(a, p, c)'
  <2>1. location[<<a>>] # {}
    BY <1>0, <1>4, BugExact
  <2>2. a \in singleKeys'
    BY <2>1, KeyFacts DEF StartPrintBug, keySet
  <2>3. QED
    BY <2>2 DEF Pending
<1>5. \A a, c \in Fun, p \in Pair : Tells(a, p, c)' <=> Tells(a, p, c)
  BY <1>0 DEF Tells
<1>6. OutInv'
  BY <1>3, <1>4, <1>5 DEF OutInv
<1>7. VisitInv'
  BY <1>3, <1>4, <1>5 DEF VisitInv
<1>8. QED
  BY <1>1, <1>2, <1>6, <1>7 DEF Inv

(* The loops of printBug keep the invariant.                               *)
LEMMA PrintPhaseStep ==
  ASSUME Inv, PrintStep
  PROVE  Inv'
<1>0. /\ OptTypeOK /\ ScanTypeOK /\ LocationExact /\ PrintTypeOK /\ LoopInv
      /\ OutInv /\ VisitInv
      /\ UNCHANGED <<optVars, scanVars>>
      /\ calls' = calls /\ location' = location /\ scan' = scan
  BY DEF Inv, ScanInv, PrintStep, optVars, scanVars
<1>1. ScanInv'
  BY <1>0, ScanInvKept DEF Inv
<1>2. CASE StartPrintBug
  BY <1>0, <1>2, StartStep
<1>3. ASSUME NEW a \in Fun, TakeSingle(a)
      PROVE  PrintTypeOK' /\ LoopInv' /\ OutInv' /\ VisitInv'
  <2>1. PrintTypeOK'
    BY <1>0, <1>3 DEF TakeSingle, PrintTypeOK
  <2>2. LoopInv'
    <3>1. \A q \in pipairKeys' : a \in {q[1], q[2]} /\ location[q] # {}
      BY <1>3 DEF TakeSingle, keySet
    <3>2. QED
      BY <1>0, <1>3, <3>1 DEF TakeSingle, LoopInv, PrintTypeOK
  <2>3. ASSUME NEW x \in Fun, NEW y \in Pair, NEW z \in Fun, Tells(x, y, z)
        PROVE  Pending(x, y, z)' <=> Pending(x, y, z)
    <3>1. x \in {y[1], y[2]} /\ location[y] # {} /\ y \in Key
      BY <1>0, <2>3, BugExact, ReverseFacts
    <3>2. x = a => y \in pipairKeys'
      BY <1>3, <3>1 DEF TakeSingle, keySet
    <3>3. QED
      BY <1>0, <1>3, <3>2, NoNodeAssumption DEF TakeSingle, LoopInv, Pending
  <2>4. print # "idle" /\ out' = out /\ visit' = visit
    BY <1>3 DEF TakeSingle
  <2>5. OutInv' /\ VisitInv'
    BY <1>0, <2>3, <2>4, ReportSame
  <2>6. QED
    BY <2>1, <2>2, <2>5
<1>4. ASSUME NEW p \in Pair, SkipPair(p)
      PROVE  PrintTypeOK' /\ LoopInv' /\ OutInv' /\ VisitInv'
  <2>1. PrintTypeOK'
    BY <1>0, <1>4 DEF SkipPair, PrintTypeOK
  <2>2. LoopInv'
    BY <1>0, <1>4 DEF SkipPair, LoopInv, PrintTypeOK
  <2>3. ASSUME NEW x \in Fun, NEW y \in Pair, NEW z \in Fun, Tells(x, y, z)
        PROVE  Pending(x, y, z)' <=> Pending(x, y, z)
    <3>1. MeetsThresholds(x, y)
      BY <1>0, <2>3, BugExact
    <3>2. ~ (x = singleKey /\ y = p)
      BY <1>4, <3>1 DEF SkipPair
    <3>3. QED
      BY <1>0, <1>4, <3>2 DEF SkipPair, LoopInv, Pending
  <2>4. print # "idle" /\ out' = out /\ visit' = visit
    BY <1>4 DEF SkipPair
  <2>5. OutInv' /\ VisitInv'
    BY <1>0, <2>3, <2>4, ReportSame
  <2>6. QED
    BY <2>1, <2>2, <2>5
<1>5. ASSUME NEW p \in Pair, TakePair(p)
      PROVE  PrintTypeOK' /\ LoopInv' /\ OutInv' /\ VisitInv'
  <2>1. /\ singleKey \in Fun /\ singleKey \in {p[1], p[2]} /\ location[p] # {}
        /\ MeetsThresholds(singleKey, p) /\ p \in Key /\ <<singleKey>> \in Key
    BY <1>0, <1>5, KeyFacts, ReverseFacts DEF TakePair, LoopInv
  <2>2. PrintTypeOK'
    BY <1>0, <1>5, <2>1 DEF TakePair, PrintTypeOK, ScanTypeOK
  <2>3. ASSUME NEW c \in locationTemp' PROVE Tells(singleKey, p, c)
    <3>1. c \in Fun /\ c \in location[<<singleKey>>] \ location[p]
      BY <1>5, <2>2 DEF TakePair, PrintTypeOK
    <3>2. QED
      BY <1>0, <2>1, <3>1, BugExact
  <2>4. LoopInv'
    <3>1. \A c \in locationTemp' : Tells(singleKey, p, c)'
      BY <1>0, <1>5, <2>3 DEF TakePair, Tells
    <3>2. QED
      BY <1>0, <1>5, <2>1, <3>1 DEF TakePair, LoopInv, PrintTypeOK
  <2>5. ASSUME NEW x \in Fun, NEW y \in Pair, NEW z \in Fun, Tells(x, y, z)
        PROVE  Pending(x, y, z)' <=> Pending(x, y, z)
    <3>1. x = singleKey /\ y = p => z \in locationTemp'
      BY <1>0, <1>5, <2>5, BugExact DEF TakePair
    <3>2. <<>> \notin Pair
      BY DEF Pair
    <3>3. QED
      BY <1>0, <1>5, <3>1, <3>2 DEF TakePair, LoopInv, Pending
  <2>6. print # "idle" /\ out' = out /\ visit' = visit
    BY <1>5 DEF TakePair
  <2>7. OutInv' /\ VisitInv'
    BY <1>0, <2>5, <2>6, ReportSame
  <2>8. QED
    BY <2>2, <2>4, <2>7
<1>6. ASSUME NEW c \in Fun, PrintBoth(c) \/ PrintOther(c)
      PROVE  PrintTypeOK' /\ LoopInv' /\ OutInv' /\ VisitInv'
  <2>1. print = "location" /\ c \in locationTemp /\ PassesScope(c)
    BY <1>0, <1>6 DEF PrintBoth, PrintOther, PassesScope
  <2>2. /\ singleKey \in Fun /\ pipairKey \in Pair
        /\ Tells(singleKey, pipairKey, c)
    BY <1>0, <2>1 DEF LoopInv
  <2> DEFINE line == LineOf(singleKey, pipairKey, c)
             mine == <<singleKey, pipairKey, c>>
             other == <<singleKey, reverse(pipairKey), c>>
  <2>3. /\ out' = out \cup {line}
        /\ visit' \in {visit, visit \cup {mine}}
        /\ lines' \in {lines, lines + 1}
        /\ ReverseTells(c) => mine \in visit' \/ other \in visit'
    <3>1. CASE PrintOther(c)
      <4>1. ~ ReverseTells(c) /\ PrintTexts(c, {pipairKey}) /\ visit' = visit
        BY <3>1 DEF PrintOther
      <4>2. out' = out \cup {line} /\ lines' = lines + 1
        BY <2>1, <4>1, PrintedLine
      <4>3. QED
        BY <4>1, <4>2
    <3>2. CASE PrintBoth(c) /\ other \notin visit
      <4>1. /\ ReverseTells(c) /\ PrintTexts(c, {pipairKey, reverse(pipairKey)})
            /\ visit' = visit \cup {mine}
        BY <3>2 DEF PrintBoth
      <4>2. out' = out \cup {line} /\ lines' = lines + 1
        BY <2>1, <4>1, PrintedLine
      <4>3. QED
        BY <4>1, <4>2
    <3>3. CASE PrintBoth(c) /\ other \in visit
      <4>1. out' = out /\ visit' = visit /\ lines' = lines
        BY <3>3 DEF PrintBoth
      <4> DEFINE q == reverse(pipairKey)
      <4>2. q \in Pair
        BY <2>2, ReverseFacts
      <4>3. LineOf(singleKey, q, c) = line
        BY <2>2, LineReverse
      <4> HIDE DEF line
      <4>4. Tells(singleKey, q, c) /\ ~ Pending(singleKey, q, c)
        <5> HIDE DEF q
        <5>1. <<singleKey, q, c>> \in visit
          BY <3>3 DEF q
        <5>2. QED
          BY <1>0, <2>1, <2>2, <4>2, <5>1 DEF VisitInv
      <4>5. line \in out
        <5> HIDE DEF q
        <5>1. QED
          BY <1>0, <2>1, <2>2, <4>2, <4>3, <4>4 DEF OutInv
      <4>6. QED
        BY <3>3, <4>1, <4>5
    <3>4. QED
      BY <1>6, <3>1, <3>2, <3>3
  <2>4. PrintTypeOK'
    <3>1. mine \in Fun \X Pair \X Fun
      BY <2>2
    <3>2. QED
      BY <1>0, <2>1, <2>3, <3>1 DEF PassesScope, PrintTypeOK
  <2>5. LoopInv'
    <3>1. \A d \in locationTemp' : Tells(singleKey, pipairKey, d)'
      BY <1>0, <2>1 DEF LoopInv, PassesScope, Tells
    <3>2. QED
      BY <1>0, <2>1, <3>1 DEF PassesScope, LoopInv
  <2>6. OutInv'
    BY <2>1, <2>3, PassesPrinted
  <2>7. VisitInv'
    BY <2>1, <2>3, PassesVisit
  <2>8. QED
    BY <2>4, <2>5, <2>6, <2>7
<1>7. CASE LeaveLocations
  <2>1. PrintTypeOK' /\ LoopInv'
    BY <1>0, <1>7 DEF LeaveLocations, PrintTypeOK, LoopInv
  <2>2. \A x, z \in Fun, y \in Pair :
          Tells(x, y, z) => (Pending(x, y, z)' <=> Pending(x, y, z))
    <3>1. <<>> \notin Pair
      BY DEF Pair
    <3>2. QED
      BY <1>0, <1>7, <3>1 DEF LeaveLocations, Pending
  <2>3. print # "idle" /\ out' = out /\ visit' = visit
    BY <1>7 DEF LeaveLocations
  <2>4. OutInv' /\ VisitInv'
    BY <1>0, <2>2, <2>3, ReportSame
  <2>5. QED
    BY <1>1, <2>1, <2>4 DEF Inv
<1>8. CASE LeavePairs \/ EndPrintBug
  <2>1. PrintTypeOK' /\ LoopInv'
    BY <1>0, <1>8 DEF LeavePairs, EndPrintBug, PrintTypeOK, LoopInv
  <2>2. \A x, z \in Fun, y \in Pair :
          Tells(x, y, z) => (Pending(x, y, z)' <=> Pending(x, y, z))
    <3>1. <<>> \notin Pair
      BY DEF Pair
    <3>2. QED
      BY <1>0, <1>8, <3>1, NoNodeAssumption DEF LeavePairs, EndPrintBug, LoopInv, Pending
  <2>3. print # "idle" /\ out' = out /\ visit' = visit
    BY <1>8 DEF LeavePairs, EndPrintBug
  <2>4. OutInv' /\ VisitInv'
    BY <1>0, <2>2, <2>3, ReportSame
  <2>5. QED
    BY <1>1, <2>1, <2>4 DEF Inv
<1>9. QED
  BY <1>1, <1>2, <1>3, <1>4, <1>5, <1>6, <1>7, <1>8 DEF PrintStep, Inv
-----------------------------------------------------------------------------
(* The theorems. *)

(* The invariant holds at the start...                                      *)
LEMMA InitInv == Init => Inv
<1> SUFFICES ASSUME Init PROVE Inv
  OBVIOUS
<1>1. OptTypeOK /\ ScanTypeOK /\ CallerInv
  BY DEF Init, OptInit, OptTypeOK, ScanTypeOK, CallerInv
<1>2. LocationExact
  <2>1. ASSUME NEW K \in Key PROVE HoldersOf(calls, K) = {}
    BY DEF Init, OptInit, HoldersOf
  <2>2. QED
    BY <2>1 DEF Init, LocationExact
<1>3. PrintTypeOK /\ LoopInv /\ OutInv /\ VisitInv
  BY DEF Init, PrintTypeOK, LoopInv, OutInv, VisitInv
<1>4. QED
  BY <1>1, <1>2, <1>3 DEF Inv, ScanInv

(* While main reads, nothing is printed.                                   *)
LEMMA ScanIsQuiet ==
  ASSUME Inv, Scan
  PROVE  print = "idle" /\ UNCHANGED printVars
BY DEF Inv, LoopInv, Scan, SkipLine, EnterCaller, AddCallee, IgnoreLine, LeaveCaller,
       EndOfInput

(* ... every step keeps it...                                               *)
LEMMA NextInv == Inv /\ [Next]_vars => Inv'
<1> SUFFICES ASSUME Inv, [Next]_vars PROVE Inv'
  OBVIOUS
<1>1. CASE Scan
  <2>1. ScanInv'
    BY <1>1, ScanStep DEF Inv
  <2>2. print = "idle" /\ UNCHANGED printVars
    BY <1>1, ScanIsQuiet
  <2>3. PrintTypeOK' /\ LoopInv' /\ OutInv' /\ VisitInv'
    BY <2>2 DEF Inv, printVars, PrintTypeOK, LoopInv, OutInv, VisitInv
  <2>4. QED
    BY <2>1, <2>3 DEF Inv
<1>2. CASE PrintStep
  BY <1>2, PrintPhaseStep
<1>3. CASE UNCHANGED vars
  <2>1. ScanInv'
    BY <1>3, ScanInvKept DEF Inv, vars
  <2>2. PrintTypeOK' /\ LoopInv'
    BY <1>3 DEF Inv, vars, optVars, scanVars, printVars, PrintTypeOK, LoopInv, Tells
  <2>3. OutInv' /\ VisitInv'
    <3>1. CASE print = "idle"
      BY <1>3, <3>1 DEF vars, printVars, OutInv, VisitInv
    <3>2. CASE print # "idle"
      <4>1. calls' = calls /\ out' = out /\ visit' = visit
        BY <1>3 DEF vars, optVars, printVars
      <4>2. \A a, c \in Fun, p \in Pair :
              Tells(a, p, c) => (Pending(a, p, c)' <=> Pending(a, p, c))
        BY <1>3 DEF vars, printVars, Pending
      <4>3. QED
        BY <3>2, <4>1, <4>2, ReportSame DEF Inv
    <3>3. QED
      BY <3>1, <3>2
  <2>4. QED
    BY <2>1, <2>2, <2>3 DEF Inv
<1>4. QED
  BY <1>1, <1>2, <1>3 DEF Next, Ended

(* ... so it always holds.                                                  *)
LEMMA Invariance == Spec => []Inv
BY InitInv, NextInv, PTL DEF Spec

(***************************************************************************)
(* Every variable of the program keeps its type.                           *)
(***************************************************************************)
THEOREM TypeCorrect == Spec => []TypeOK
<1>1. Inv => TypeOK
  BY DEF Inv, ScanInv, ScanTypeOK, PrintTypeOK, TypeOK
<1>2. QED
  BY <1>1, Invariance, PTL

(***************************************************************************)
(* After every line, and wherever opt stops, the map that main() builds    *)
(* holds exactly the callers that make the calls of each key in its order, *)
(* for every number of calls and of repeated calls in a function.          *)
(***************************************************************************)
THEOREM LocationIsExact == Spec => []LocationExact
<1>1. Inv => LocationExact
  BY DEF Inv, ScanInv
<1>2. QED
  BY <1>1, Invariance, PTL

(* The lines of the report.                                                *)
LEMMA BugsAreLines ==
  /\ \A a, c \in Fun, p \in Pair : Tells(a, p, c) => LineOf(a, p, c) \in OrderedBugs(calls)
  /\ \A l \in OrderedBugs(calls) :
       \E a, c \in Fun, p \in Pair : Tells(a, p, c) /\ l = LineOf(a, p, c)
<1> DEFINE Told == {u \in Fun \X Pair \X Fun : Tells(u[1], u[2], u[3])}
<1>1. OrderedBugs(calls) = {LineOf(t[1], t[2], t[3]) : t \in Told}
  BY DEF OrderedBugs, Tells, LineOf, TextOf
<1>2. ASSUME NEW a \in Fun, NEW p \in Pair, NEW c \in Fun, Tells(a, p, c)
      PROVE  LineOf(a, p, c) \in OrderedBugs(calls)
  <2> DEFINE t == <<a, p, c>>
  <2>1. t \in Fun \X Pair \X Fun /\ t[1] = a /\ t[2] = p /\ t[3] = c
    OBVIOUS
  <2> HIDE DEF t
  <2>2. t \in Told
    BY <1>2, <2>1
  <2>3. QED
    BY <1>1, <2>1, <2>2
<1>3. ASSUME NEW l \in OrderedBugs(calls)
      PROVE  \E a, c \in Fun, p \in Pair : Tells(a, p, c) /\ l = LineOf(a, p, c)
  <2>1. PICK t \in Told : l = LineOf(t[1], t[2], t[3])
    BY <1>1
  <2>2. t[1] \in Fun /\ t[2] \in Pair /\ t[3] \in Fun /\ Tells(t[1], t[2], t[3])
    OBVIOUS
  <2>3. QED
    BY <2>1, <2>2
<1>4. QED
  BY <1>2, <1>3

(* What printBug() has printed is part of the report, all of it at the end. *)
LEMMA OutBugs ==
  ASSUME Inv, print # "idle"
  PROVE  /\ out \subseteq OrderedBugs(calls)
         /\ (\A a, c \in Fun, p \in Pair : Tells(a, p, c) => ~ Pending(a, p, c))
              => out = OrderedBugs(calls)
<1>1. \A l : l \in out <=> \E a, c \in Fun, p \in Pair : /\ Tells(a, p, c)
                                                         /\ ~ Pending(a, p, c)
                                                         /\ l = LineOf(a, p, c)
  BY DEF Inv, OutInv
<1>2. QED
  BY <1>1, BugsAreLines

(* When the outer loop has nothing left, nothing is pending.               *)
LEMMA NothingPending ==
  ASSUME Inv, print \in {"single", "done"}, singleKeys = {}
  PROVE  \A a, c \in Fun, p \in Pair : ~ Pending(a, p, c)
BY NoNodeAssumption DEF Inv, LoopInv, Pending

(***************************************************************************)
(* When printBug() returns, every bug of either order of a pair is in      *)
(* exactly one of the lines, with the other order just when it is a bug    *)
(* too, whatever order the hash maps were visited in.                      *)
(***************************************************************************)
THEOREM ReportIsExact == Spec => []ReportExact
<1>1. Inv => ReportExact
  <2> SUFFICES ASSUME Inv, print = "done" PROVE out = OrderedBugs(calls)
    BY DEF ReportExact
  <2>1. \A a, c \in Fun, p \in Pair : ~ Pending(a, p, c)
    BY NothingPending DEF Inv, LoopInv
  <2>2. QED
    BY <2>1, OutBugs
<1>2. QED
  BY <1>1, Invariance, PTL

(* A line that is printed was not printed before.                          *)
LEMMA PrintedIsNew ==
  ASSUME Inv, print = "location", NEW c \in locationTemp,
         ReverseTells(c) => <<singleKey, reverse(pipairKey), c>> \notin visit
  PROVE  LineOf(singleKey, pipairKey, c) \notin out
<1> DEFINE line == LineOf(singleKey, pipairKey, c)
<1>1. /\ singleKey \in Fun /\ pipairKey \in Pair /\ c \in Fun
      /\ Tells(singleKey, pipairKey, c)
      /\ Pending(singleKey, pipairKey, c)
  BY DEF Inv, LoopInv, PrintTypeOK, Pending
<1> SUFFICES ASSUME line \in out PROVE FALSE
  OBVIOUS
<1>2. PICK x \in Fun, z \in Fun, y \in Pair :
         Tells(x, y, z) /\ ~ Pending(x, y, z) /\ line = LineOf(x, y, z)
  <2> HIDE DEF line
  <2>1. QED
    BY DEF Inv, OutInv
<1>3. x = singleKey /\ z = c /\ y \in {pipairKey, reverse(pipairKey)}
  BY <1>2, LineInjective
<1>4. y = reverse(pipairKey) /\ y # pipairKey
  BY <1>1, <1>2, <1>3
<1>5. pipairKey[1] # pipairKey[2]
  BY <1>1, <1>4, ReverseFacts
<1>6. ReverseTells(c)
  BY <1>2, <1>3, <1>4, <1>5, ReverseTellsExact
<1>7. y[1] # y[2] /\ reverse(y) = pipairKey
  BY <1>1, <1>4, <1>5, ReverseFacts
<1>8. <<x, y, z>> \in visit \/ <<x, reverse(y), z>> \in visit
  BY <1>1, <1>2, <1>3, <1>7 DEF Inv, VisitInv
<1>9. <<singleKey, pipairKey, c>> \notin visit
  BY <1>1 DEF Inv, VisitInv
<1>10. QED
  BY <1>3, <1>4, <1>6, <1>7, <1>8, <1>9

(***************************************************************************)
(* The program implements the abstract report: it prints bugs only, never  *)
(* the same bug twice, be it told by both orders of its pair, and stops    *)
(* only when the report is complete.                                       *)
(***************************************************************************)
THEOREM Refinement == Spec => ImplementsReport
<1>1. Init => Report!Init
  BY DEF Init, OptInit, Report!Init, phase
<1>2. Inv /\ [Next]_vars => [Report!Next]_Report!vars
  <2> SUFFICES ASSUME Inv, [Next]_vars PROVE [Report!Next]_Report!vars
    OBVIOUS
  <2>1. CASE Scan
    <3>1. phase = "collect" /\ UNCHANGED <<phase, out, lines>>
      BY <2>1, ScanIsQuiet DEF printVars, phase
    <3>2. \/ calls' = calls
          \/ \E c \in Fun, e \in Site : calls' = calls \cup {<<c, e>>}
      <4>1. ASSUME NEW l \in Line, AddCallee(l)
            PROVE  \E c \in Fun, e \in Site : calls' = calls \cup {<<c, e>>}
        <5>1. /\ OptPrints(l) /\ MatchesCallee(l) /\ node \in Fun
              /\ CallsOf(calls, node) = Read
          BY <4>1 DEF AddCallee, Inv, ScanInv, CallerInv
        <5>2. /\ l.name \in Fun /\ Made < MaxCalls
              /\ calls' = calls \cup {<<node, <<Made + 1, l.name>>>>}
          BY <5>1, OptCallLine
        <5>3. Made \in Nat
          BY <5>1, MadeIsLength DEF Inv, ScanInv, ScanTypeOK
        <5>4. <<Made + 1, l.name>> \in Site
          BY <5>2, <5>3, MaxCallsAssumption DEF Site
        <5>5. QED
          BY <5>1, <5>2, <5>4
      <4>2. ASSUME NEW l \in Line, SkipLine(l) PROVE calls' = calls
        BY <4>2, OptOutside DEF SkipLine, Inv, ScanInv, CallerInv
      <4>3. ASSUME NEW l \in Line, EnterCaller(l) PROVE calls' = calls
        BY <4>3, OptNodeLine DEF EnterCaller
      <4>4. ASSUME NEW l \in Line, IgnoreLine(l) \/ LeaveCaller(l) PROVE calls' = calls
        <5>1. OptPrints(l) /\ ~ MatchesCallee(l) /\ node \in Fun
          BY <4>4 DEF IgnoreLine, LeaveCaller, MatchesCallee, Inv, ScanInv, CallerInv
        <5>2. QED
          BY <5>1, OptOtherLine
      <4>5. CASE EndOfInput
        BY <4>5 DEF EndOfInput, optVars
      <4>6. QED
        BY <2>1, <4>1, <4>2, <4>3, <4>4, <4>5 DEF Scan
    <3>3. QED
      BY <3>1, <3>2 DEF Report!Next, Report!Collect, Report!vars
  <2>2. CASE PrintStep
    <3>0. calls' = calls
      BY <2>2 DEF PrintStep, optVars
    <3>1. CASE StartPrintBug
      BY <3>0, <3>1 DEF StartPrintBug, phase, Report!Next, Report!Analyse
    <3>2. ASSUME NEW c \in Fun, PrintBoth(c) \/ PrintOther(c)
          PROVE  [Report!Next]_Report!vars
      <4>1. print = "location" /\ c \in locationTemp /\ phase = "report" /\ phase' = phase
        BY <3>2 DEF PrintBoth, PrintOther, phase
      <4>2. CASE PrintBoth(c) /\ <<singleKey, reverse(pipairKey), c>> \in visit
        BY <3>0, <4>1, <4>2 DEF PrintBoth, Report!vars
      <4>3. CASE ~ (PrintBoth(c) /\ <<singleKey, reverse(pipairKey), c>> \in visit)
        <5> DEFINE l == LineOf(singleKey, pipairKey, c)
        <5>1. out' = out \cup {l} /\ lines' = lines + 1
          <6>1. CASE PrintOther(c)
            BY <4>1, <6>1, PrintedLine DEF PrintOther
          <6>2. CASE PrintBoth(c)
            BY <4>1, <4>3, <6>2, PrintedLine DEF PrintBoth
          <6>3. QED
            BY <3>2, <6>1, <6>2
        <5>2. l \notin out
          <6>1. ReverseTells(c) => <<singleKey, reverse(pipairKey), c>> \notin visit
            BY <3>2, <4>3 DEF PrintOther
          <6>2. QED
            BY <4>1, <6>1, PrintedIsNew
        <5>3. l \in OrderedBugs(calls)
          BY <4>1, BugsAreLines DEF Inv, LoopInv, PrintTypeOK
        <5> HIDE DEF l
        <5>4. QED
          BY <3>0, <4>1, <5>1, <5>2, <5>3 DEF Report!Next, Report!Report
      <4>4. QED
        BY <4>2, <4>3
    <3>3. CASE EndPrintBug
      <4>1. out = OrderedBugs(calls)
        BY <3>3, NothingPending, OutBugs DEF EndPrintBug
      <4>2. QED
        BY <3>0, <3>3, <4>1 DEF EndPrintBug, phase, Report!Next, Report!Finish
    <3>4. ASSUME NEW a \in Fun, TakeSingle(a) PROVE UNCHANGED Report!vars
      BY <3>0, <3>4 DEF TakeSingle, phase, Report!vars
    <3>5. ASSUME NEW p \in Pair, SkipPair(p) \/ TakePair(p) PROVE UNCHANGED Report!vars
      BY <3>0, <3>5 DEF SkipPair, TakePair, phase, Report!vars
    <3>6. CASE LeaveLocations \/ LeavePairs
      BY <3>0, <3>6 DEF LeaveLocations, LeavePairs, phase, Report!vars
    <3>7. QED
      BY <2>2, <3>1, <3>2, <3>3, <3>4, <3>5, <3>6 DEF PrintStep
  <2>3. CASE UNCHANGED vars
    BY <2>3 DEF vars, optVars, printVars, phase, Report!vars
  <2>4. QED
    BY <2>1, <2>2, <2>3 DEF Next, Ended
<1>3. QED
  BY <1>1, <1>2, Invariance, PTL DEF Spec, ImplementsReport, Report!Spec
==============================================================================
