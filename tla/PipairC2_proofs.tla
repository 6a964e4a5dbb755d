--------------------------- MODULE PipairC2_proofs ---------------------------
(***************************************************************************)
(* Proofs about the second solution of part C, for every set of functions, *)
(* every pair of thresholds and every expandLevel.                         *)
(***************************************************************************)
EXTENDS PipairC2, SumFacts, SequenceTheorems

-----------------------------------------------------------------------------
(* The inductive invariant of the loops of main. *)

ReadTypeOK ==
  /\ unprinted \in SUBSET (Fun \cup {NullNode})
  /\ node \in Fun \cup {NullNode, NoNode}
  /\ calls \in SUBSET (Fun \X Fun)
  /\ scan \in {"outer", "inner", "closed"}
  /\ caller \in Fun \cup {NoNode}
  /\ callees \in SUBSET Fun
  /\ callerCallee \in [Fun -> SUBSET Fun]

(* The callees of c in the call graph g.                                   *)
CalleesOf(g, c) == {f \in Fun : <<c, f>> \in g}

(***************************************************************************)
(* What ties the program to opt while it reads: callees are those of the   *)
(* node opt is printing, and callerCallee has the callees of all others.   *)
(***************************************************************************)
CallerInv ==
  /\ scan = "inner" => /\ caller \in Fun \ unprinted
                       /\ node = caller
                       /\ callees = CalleesOf(calls, caller)
                       /\ callerCallee[caller] = {}
  /\ scan = "outer" => node \in {NoNode, NullNode}
  /\ \A c, f \in Fun : <<c, f>> \in calls => c \notin unprinted
  /\ \A c \in Fun : ~ (scan = "inner" /\ c = caller) =>
                       callerCallee[c] = CalleesOf(calls, c)

ReadInv == ReadTypeOK /\ CallerInv

-----------------------------------------------------------------------------
(* The inductive invariant of initInterLocation. *)

InitTypeOK ==
  /\ init \in {"idle", "extend", "fill", "done"}
  /\ callers \in SUBSET Fun
  /\ root \in Fun \cup {NoNode}
  /\ calling \in Seq(SUBSET Fun)
  /\ result \in [Fun -> Nat]
  /\ callerCalleeExtend \in [Fun -> SUBSET Fun]
  /\ location \in [Keys -> SUBSET Fun]

(* Which variables are at rest when.                                       *)
PhaseInv ==
  /\ init # "idle" => scan = "closed"
  /\ init \in {"idle", "done"} => callers = {}
  /\ init # "extend" => root = NoNode
  /\ root = NoNode => calling = <<>> /\ result = Empty
  /\ init = "extend" /\ root # NoNode => callerCallee[root] # {} /\ root \notin callers
  /\ \A c \in callers : callerCallee[c] # {}
  /\ print # "idle" => init = "done"

(* A walk of n calls ends in f: either the level or f itself stops it.     *)
Stops(g, f, n) == n = ExpandLevel + 1 \/ \A h \in Fun : <<f, h>> \notin g

(* The ends of the walks that go on from h, the n-th function of a walk.   *)
EndsBelow(g, h, n) ==
  {f \in Fun : \E m \in Nat : /\ f \in WalkEnds(g, h, m)
                              /\ n + m <= ExpandLevel + 1
                              /\ Stops(g, f, n + m)}

(* The loops of stack that have still to come to f.                        *)
LoopsWith(stack, f) == {i \in 1 .. Len(stack) : f \in stack[i]}
TokensIn(stack, f) == Cardinality(LoopsWith(stack, f))

(***************************************************************************)
(* list while the caller c is expanded in the call graph g, with stack the *)
(* active loops.  It holds each function once for every active loop that   *)
(* has still to come to it, so that result.remove(caller) takes away a     *)
(* place of the caller's own; it holds a function more often only if that  *)
(* is the end of a walk; and an end that it does not show yet is below a   *)
(* function that some loop has still to come to.                           *)
(***************************************************************************)
IsExpansion(g, c, stack, list) ==
  /\ \A i \in 1 .. Len(stack) : i <= ExpandLevel + 1
  /\ \A i \in 1 .. Len(stack) : stack[i] \subseteq WalkEnds(g, c, i)
  /\ \A f \in Fun : TokensIn(stack, f) <= list[f]
  /\ \A f \in Fun : TokensIn(stack, f) < list[f] => f \in Expanded(g, c)
  /\ \A f \in Expanded(g, c) :
       \/ TokensIn(stack, f) < list[f]
       \/ \E i \in 1 .. Len(stack) : \E h \in stack[i] : f \in EndsBelow(g, h, i)

ExpandInv == root # NoNode => IsExpansion(calls, root, calling, result)

(* What is in callerCalleeExtend, and later in location.                   *)
FillInv ==
  /\ init = "idle" => callerCalleeExtend = [f \in Fun |-> {}]
  /\ init # "idle" => \A c \in Fun : ~ (init = "extend" /\ c \in callers \cup {root}) =>
                         callerCalleeExtend[c] = Expanded(calls, c)
  /\ init \in {"fill", "done"} =>
       \A K \in Keys :
         location[K] = {c \in Fun \ callers : \E f, g \in callerCalleeExtend[c] : K = {f, g}}
-----------------------------------------------------------------------------
(* Walks in a call graph. *)

(* What the functions of S call.                                           *)
CalledBy(g, S) == {f \in Fun : \E e \in S : <<e, f>> \in g}

(* e is the recursive function in WalkEnds, up to walks of n calls.        *)
IsEnds(e, g, c, n) ==
  e = [k \in 0 .. n |-> IF k = 0 THEN {c} ELSE CalledBy(g, e[k - 1])]

(* There is such a function: that for n extends to n + 1.                  *)
LEMMA EndsExist ==
  ASSUME NEW g, NEW c, NEW n \in Nat
  PROVE  \E e : IsEnds(e, g, c, n)
<1> DEFINE P == {k \in Nat : \E e : IsEnds(e, g, c, k)}
<1>1. 0 \in P
  <2> DEFINE e == [k \in 0 .. 0 |-> {c}]
  <2>1. e = [k \in 0 .. 0 |-> IF k = 0 THEN {c} ELSE CalledBy(g, e[k - 1])]
    OBVIOUS
  <2> HIDE DEF e
  <2>2. IsEnds(e, g, c, 0)
    BY <2>1 DEF IsEnds
  <2> QED
    BY <2>2
<1>2. ASSUME NEW k \in Nat, k \in P PROVE k + 1 \in P
  <2>1. PICK e : IsEnds(e, g, c, k)
    BY <1>2
  <2> DEFINE h == [i \in 0 .. (k + 1) |-> IF i = k + 1 THEN CalledBy(g, e[k]) ELSE e[i]]
  <2>2. ASSUME NEW i \in 0 .. (k + 1)
        PROVE  h[i] = IF i = 0 THEN {c} ELSE CalledBy(g, h[i - 1])
    <3>1. CASE i = 0
      BY <2>1, <3>1 DEF IsEnds
    <3>2. CASE i = k + 1
      <4>1. i - 1 = k /\ i - 1 \in 0 .. (k + 1) /\ i - 1 # k + 1
        BY <3>2
      <4>2. h[i - 1] = e[k]
        BY <4>1
      <4> QED
        BY <3>2, <4>2
    <3>3. CASE i # 0 /\ i # k + 1
      <4>1. i \in 0 .. k /\ i - 1 \in 0 .. (k + 1) /\ i - 1 # k + 1
        BY <3>3
      <4>2. h[i] = e[i] /\ h[i - 1] = e[i - 1]
        BY <3>3, <4>1
      <4>3. e[i] = CalledBy(g, e[i - 1])
        BY <2>1, <3>3, <4>1 DEF IsEnds
      <4> QED
        BY <3>3, <4>2, <4>3
    <3> QED
      BY <3>1, <3>2, <3>3
  <2>3. DOMAIN h = 0 .. (k + 1) /\ h = [i \in 0 .. (k + 1) |-> h[i]]
    OBVIOUS
  <2> HIDE DEF h
  <2>4. IsEnds(h, g, c, k + 1)
    BY <2>2, <2>3 DEF IsEnds
  <2> QED
    BY <2>4
<1> HIDE DEF P
<1>3. Nat \subseteq P
  BY <1>1, <1>2, AllNumbers
<1> QED
  BY <1>3 DEF P

(* There is one only.                                                      *)
LEMMA EndsAgree ==
  ASSUME NEW g, NEW c, NEW n \in Nat, NEW m \in Nat, NEW e, NEW h,
         IsEnds(e, g, c, n), IsEnds(h, g, c, m)
  PROVE  \A k \in Nat : k <= n /\ k <= m => e[k] = h[k]
<1> DEFINE P == {k \in Nat : k <= n /\ k <= m => e[k] = h[k]}
<1>1. 0 \in P
  BY DEF IsEnds
<1>2. ASSUME NEW k \in Nat, k \in P PROVE k + 1 \in P
  <2> SUFFICES ASSUME k + 1 <= n, k + 1 <= m PROVE e[k + 1] = h[k + 1]
    OBVIOUS
  <2>1. e[k] = h[k]
    BY <1>2
  <2>2. k + 1 \in 0 .. n /\ k + 1 \in 0 .. m /\ k + 1 # 0 /\ (k + 1) - 1 = k
    OBVIOUS
  <2>3. e[k + 1] = CalledBy(g, e[k])
    BY <2>2 DEF IsEnds
  <2>4. h[k + 1] = CalledBy(g, h[k])
    BY <2>2 DEF IsEnds
  <2> QED
    BY <2>1, <2>3, <2>4
<1> HIDE DEF P
<1>3. Nat \subseteq P
  BY <1>1, <1>2, AllNumbers
<1> QED
  BY <1>3 DEF P

(* WalkEnds is what its recursive function computes.                       *)
LEMMA WalkIsEnds ==
  ASSUME NEW g, NEW c, NEW n \in Nat
  PROVE  \E e : IsEnds(e, g, c, n) /\ WalkEnds(g, c, n) = e[n]
<1> DEFINE e == CHOOSE h : h = [k \in 0 .. n |->
                                 IF k = 0 THEN {c}
                                 ELSE {f \in Fun : \E x \in h[k - 1] : <<x, f>> \in g}]
<1>1. WalkEnds(g, c, n) = e[n]
  BY Zenon DEF WalkEnds
<1>2. PICK h : IsEnds(h, g, c, n)
  BY EndsExist
<1>3. h = [k \in 0 .. n |->
             IF k = 0 THEN {c} ELSE {f \in Fun : \E x \in h[k - 1] : <<x, f>> \in g}]
  BY <1>2 DEF IsEnds, CalledBy
<1>4. e = [k \in 0 .. n |->
             IF k = 0 THEN {c} ELSE {f \in Fun : \E x \in e[k - 1] : <<x, f>> \in g}]
  BY <1>3, Zenon
<1> HIDE DEF e
<1>5. IsEnds(e, g, c, n)
  BY <1>4 DEF IsEnds, CalledBy
<1> QED
  BY <1>1, <1>5

(* A walk of no call ends where it starts.                                 *)
LEMMA WalkNone ==
  ASSUME NEW g, NEW c
  PROVE  WalkEnds(g, c, 0) = {c}
<1>1. PICK e : IsEnds(e, g, c, 0) /\ WalkEnds(g, c, 0) = e[0]
  BY WalkIsEnds
<1> QED
  BY <1>1 DEF IsEnds

(* A walk of n + 1 calls is one of n calls with one more at its end.       *)
LEMMA WalkBack ==
  ASSUME NEW g, NEW c, NEW n \in Nat
  PROVE  WalkEnds(g, c, n + 1) = CalledBy(g, WalkEnds(g, c, n))
<1>1. PICK e : IsEnds(e, g, c, n) /\ WalkEnds(g, c, n) = e[n]
  BY WalkIsEnds
<1>2. PICK h : IsEnds(h, g, c, n + 1) /\ WalkEnds(g, c, n + 1) = h[n + 1]
  BY WalkIsEnds
<1>3. e[n] = h[n]
  BY <1>1, <1>2, EndsAgree
<1>4. n + 1 \in 0 .. (n + 1) /\ n + 1 # 0 /\ (n + 1) - 1 = n
  OBVIOUS
<1>5. h[n + 1] = CalledBy(g, h[n])
  BY <1>2, <1>4 DEF IsEnds
<1> QED
  BY <1>1, <1>2, <1>3, <1>5

(* It is also one of n calls with one more at its start.                   *)
LEMMA WalkFront ==
  ASSUME NEW g, NEW c \in Fun, NEW n \in Nat
  PROVE  \A f \in Fun :
           f \in WalkEnds(g, c, n + 1) <=>
             \E h \in Fun : <<c, h>> \in g /\ f \in WalkEnds(g, h, n)
<1> DEFINE P == {k \in Nat :
                  \A f \in Fun :
                    f \in WalkEnds(g, c, k + 1) <=>
                      \E h \in Fun : <<c, h>> \in g /\ f \in WalkEnds(g, h, k)}
<1>1. 0 \in P
  <2>1. \A h : WalkEnds(g, h, 0) = {h}
    BY WalkNone, Zenon
  <2>2. WalkEnds(g, c, 0 + 1) = CalledBy(g, {c})
    <3>1. WalkEnds(g, c, 0 + 1) = CalledBy(g, WalkEnds(g, c, 0))
      BY WalkBack
    <3> QED
      BY <2>1, <3>1
  <2>3. \A f \in Fun : f \in CalledBy(g, {c}) <=>
                         \E h \in Fun : <<c, h>> \in g /\ f \in WalkEnds(g, h, 0)
    <3> SUFFICES ASSUME NEW f \in Fun
                 PROVE  f \in CalledBy(g, {c}) <=>
                          \E h \in Fun : <<c, h>> \in g /\ f \in WalkEnds(g, h, 0)
      OBVIOUS
    <3>1. f \in CalledBy(g, {c}) <=> <<c, f>> \in g
      BY DEF CalledBy
    <3>2. \A h : f \in WalkEnds(g, h, 0) <=> f = h
      BY <2>1
    <3>3. ASSUME <<c, f>> \in g
          PROVE  \E h \in Fun : <<c, h>> \in g /\ f \in WalkEnds(g, h, 0)
      BY <3>2, <3>3
    <3>4. ASSUME NEW h \in Fun, <<c, h>> \in g, f \in WalkEnds(g, h, 0)
          PROVE  <<c, f>> \in g
      <4>1. f = h
        BY <3>2, <3>4
      <4> QED
        BY <3>4, <4>1
    <3> QED
      BY <3>1, <3>3, <3>4
  <2> QED
    BY <2>2, <2>3
<1>2. ASSUME NEW k \in Nat, k \in P PROVE k + 1 \in P
  <2>1. WalkEnds(g, c, (k + 1) + 1) = CalledBy(g, WalkEnds(g, c, k + 1))
    <3>1. k + 1 \in Nat /\ (k + 1) + 1 \in Nat
      OBVIOUS
    <3> QED
      BY <3>1, WalkBack
  <2>2. \A h : WalkEnds(g, h, k + 1) = CalledBy(g, WalkEnds(g, h, k))
    <3> SUFFICES ASSUME NEW h PROVE WalkEnds(g, h, k + 1) = CalledBy(g, WalkEnds(g, h, k))
      OBVIOUS
    <3> QED
      BY WalkBack
  <2>3. \A x \in Fun : x \in WalkEnds(g, c, k + 1) <=>
                         \E h \in Fun : <<c, h>> \in g /\ x \in WalkEnds(g, h, k)
    BY <1>2
  <2>4. WalkEnds(g, c, k + 1) \subseteq Fun
    BY <2>2 DEF CalledBy
  <2>5. \A h \in Fun : WalkEnds(g, h, k) \subseteq Fun
    <3> SUFFICES ASSUME NEW h \in Fun PROVE WalkEnds(g, h, k) \subseteq Fun
      OBVIOUS
    <3>1. CASE k = 0
      BY <3>1, WalkNone
    <3>2. CASE k # 0
      <4>1. k - 1 \in Nat /\ (k - 1) + 1 = k
        BY <3>2
      <4>2. WalkEnds(g, h, (k - 1) + 1) = CalledBy(g, WalkEnds(g, h, k - 1))
        BY <4>1, WalkBack
      <4> QED
        BY <4>1, <4>2 DEF CalledBy
    <3> QED
      BY <3>1, <3>2
  <2>6. ASSUME NEW f \in Fun
        PROVE  f \in WalkEnds(g, c, (k + 1) + 1) <=>
                 \E h \in Fun : <<c, h>> \in g /\ f \in WalkEnds(g, h, k + 1)
    <3>1. f \in WalkEnds(g, c, (k + 1) + 1) <=>
            \E x \in Fun : x \in WalkEnds(g, c, k + 1) /\ <<x, f>> \in g
      BY <2>1, <2>4 DEF CalledBy
    <3>2. \A h \in Fun : f \in WalkEnds(g, h, k + 1) <=>
                           \E x \in Fun : x \in WalkEnds(g, h, k) /\ <<x, f>> \in g
      BY <2>2, <2>5 DEF CalledBy
    <3> QED
      BY <2>3, <3>1, <3>2
  <2> QED
    BY <2>6
<1> HIDE DEF P
<1>3. Nat \subseteq P
  BY <1>1, <1>2, AllNumbers
<1> QED
  BY <1>3 DEF P
-----------------------------------------------------------------------------
(* The loops of main. *)

(* What each line that opt can print does to the variables of opt.         *)
LEMMA OptFacts ==
  ASSUME ReadTypeOK, NEW l \in Line, OptPrints(l)
  PROVE  /\ unprinted' \in SUBSET (Fun \cup {NullNode})
         /\ node' \in Fun \cup {NullNode, NoNode}
         /\ calls' \in SUBSET (Fun \X Fun)
         /\ node \in {NoNode, NullNode} /\ ~ MatchesCaller(l) =>
              /\ calls' = calls
              /\ node' \in {NoNode, NullNode}
              /\ unprinted' \subseteq unprinted
         /\ MatchesCaller(l) =>
              /\ l.name \in Fun /\ l.name \in unprinted /\ node' = l.name
              /\ calls' = calls /\ unprinted' = unprinted \ {l.name}
         /\ node \in Fun /\ MatchesCallee(l) =>
              /\ l.name \in Fun /\ calls' = calls \cup {<<node, l.name>>}
              /\ node' = node /\ unprinted' = unprinted
         /\ node \in Fun /\ ~ MatchesCallee(l) =>
              /\ calls' = calls /\ unprinted' = unprinted
              /\ node' = IF l.kind = "blank" THEN NoNode ELSE node
<1> USE DEF ReadTypeOK, MatchesCaller, MatchesCallee
<1>1. \A f \in Fun : f # NoNode /\ f # NullNode
  BY NoNodeAssumption, NullNodeAssumption
<1>2. /\ l.kind \in {"node", "call"} => l.name \in Fun
      /\ l.kind \in {"node", "call", "nullnode", "external", "blank"}
  BY DEF Line, Named, Unnamed
<1>3. CASE \E n \in Fun \cup {NullNode} : OptHeader(l, n)
  BY <1>1, <1>2, <1>3 DEF OptHeader
<1>4. CASE OptCall(l, l.name)
  BY <1>1, <1>2, <1>4 DEF OptCall
<1>5. CASE OptExternal(l)
  BY <1>1, <1>2, <1>5 DEF OptExternal, optVars
<1>6. CASE OptBlank(l)
  BY <1>1, <1>2, <1>6 DEF OptBlank
<1>7. QED
  BY <1>3, <1>4, <1>5, <1>6 DEF OptPrints, OptText

(* The loops of main keep the invariant.                                   *)
LEMMA ReadStep == ReadInv /\ Scan => ReadInv'
<1> SUFFICES ASSUME ReadInv, Scan PROVE ReadInv'
  OBVIOUS
<1>0. ReadTypeOK /\ CallerInv
  BY DEF ReadInv
<1>1. ASSUME NEW l \in Line, SkipLine(l) PROVE ReadInv'
  <2>1. OptPrints(l) /\ ~ MatchesCaller(l) /\ node \in {NoNode, NullNode}
    BY <1>0, <1>1 DEF SkipLine, CallerInv
  <2>2. /\ unprinted' \in SUBSET (Fun \cup {NullNode})
        /\ node' \in {NoNode, NullNode} /\ calls' = calls /\ unprinted' \subseteq unprinted
    BY <1>0, <2>1, OptFacts
  <2>3. ReadTypeOK'
    BY <1>0, <1>1, <2>2 DEF SkipLine, scanVars, ReadTypeOK
  <2>4. CallerInv'
    BY <1>0, <1>1, <2>2 DEF SkipLine, scanVars, CallerInv
  <2>5. QED
    BY <2>3, <2>4 DEF ReadInv
<1>2. ASSUME NEW l \in Line, EnterCaller(l) PROVE ReadInv'
  <2>1. OptPrints(l) /\ MatchesCaller(l)
    BY <1>2 DEF EnterCaller
  <2>2. /\ l.name \in Fun /\ l.name \in unprinted /\ node' = l.name
        /\ calls' = calls /\ unprinted' = unprinted \ {l.name}
    BY <1>0, <2>1, OptFacts
  <2>3. ReadTypeOK'
    BY <1>0, <1>2, <2>2 DEF EnterCaller, ReadTypeOK
  <2>4. CalleesOf(calls, l.name) = {}
    BY <1>0, <2>2 DEF CallerInv, CalleesOf
  <2>5. callerCallee[l.name] = {}
    BY <1>0, <1>2, <2>2, <2>4 DEF EnterCaller, CallerInv
  <2>6. CallerInv'
    BY <1>0, <1>2, <2>2, <2>4, <2>5 DEF EnterCaller, CallerInv
  <2>7. QED
    BY <2>3, <2>6 DEF ReadInv
<1>3. ASSUME NEW l \in Line, AddCallee(l) PROVE ReadInv'
  <2>1. /\ OptPrints(l) /\ MatchesCallee(l) /\ scan = "inner"
        /\ caller \in Fun /\ caller \notin unprinted /\ node = caller /\ node \in Fun
        /\ callees = CalleesOf(calls, caller) /\ callerCallee[caller] = {}
    BY <1>0, <1>3 DEF AddCallee, CallerInv
  <2>2. /\ l.name \in Fun /\ calls' = calls \cup {<<caller, l.name>>}
        /\ node' = node /\ unprinted' = unprinted
    BY <1>0, <2>1, OptFacts
  <2>3. ReadTypeOK'
    BY <1>0, <1>3, <2>1, <2>2 DEF AddCallee, ReadTypeOK
  <2>4. CalleesOf(calls', caller) = callees \cup {l.name}
    BY <2>1, <2>2 DEF CalleesOf
  <2>5. \A c \in Fun \ {caller} : CalleesOf(calls', c) = CalleesOf(calls, c)
    BY <2>2 DEF CalleesOf
  <2>6. CallerInv'
    BY <1>0, <1>3, <2>1, <2>2, <2>4, <2>5 DEF AddCallee, CallerInv
  <2>7. QED
    BY <2>3, <2>6 DEF ReadInv
<1>4. ASSUME NEW l \in Line, IgnoreLine(l) PROVE ReadInv'
  <2>1. OptPrints(l) /\ ~ MatchesCallee(l) /\ l.kind # "blank" /\ node \in Fun
    BY <1>0, <1>4 DEF IgnoreLine, CallerInv
  <2>2. calls' = calls /\ unprinted' = unprinted /\ node' = node
    BY <1>0, <2>1, OptFacts
  <2>3. QED
    BY <1>0, <1>4, <2>2 DEF IgnoreLine, scanVars, ReadInv, ReadTypeOK, CallerInv
<1>5. ASSUME scan = "inner", PutCallees, calls' = calls
      PROVE  /\ callerCallee' \in [Fun -> SUBSET Fun]
             /\ \A c \in Fun : callerCallee'[c] = CalleesOf(calls', c)
  BY <1>0, <1>5 DEF PutCallees, ReadTypeOK, CallerInv
<1>6. ASSUME NEW l \in Line, LeaveCaller(l) PROVE ReadInv'
  <2>1. OptPrints(l) /\ ~ MatchesCallee(l) /\ l.kind = "blank" /\ node \in Fun
    BY <1>0, <1>6 DEF LeaveCaller, CallerInv, MatchesCallee
  <2>2. calls' = calls /\ unprinted' = unprinted /\ node' = NoNode
    BY <1>0, <2>1, OptFacts
  <2>3. ReadTypeOK' /\ CallerInv'
    BY <1>0, <1>5, <1>6, <2>2 DEF LeaveCaller, ReadTypeOK, CallerInv
  <2>4. QED
    BY <2>3 DEF ReadInv
<1>7. CASE EndOfInput
  <2>1. CASE scan = "inner"
    BY <1>0, <1>5, <1>7, <2>1 DEF EndOfInput, optVars, ReadInv, ReadTypeOK, CallerInv
  <2>2. CASE scan # "inner"
    BY <1>0, <1>7, <2>2 DEF EndOfInput, optVars, ReadInv, ReadTypeOK, CallerInv
  <2>3. QED
    BY <2>1, <2>2
<1>8. QED
  BY <1>1, <1>2, <1>3, <1>4, <1>6, <1>7 DEF Scan

-----------------------------------------------------------------------------
(* The stack of active loops. *)

(* A function has at most one place in each loop.                          *)
LEMMA TokensType ==
  ASSUME NEW s \in Seq(SUBSET Fun), NEW f
  PROVE  IsFiniteSet(LoopsWith(s, f)) /\ TokensIn(s, f) \in Nat
<1>1. Len(s) \in Nat /\ LoopsWith(s, f) \subseteq 1 .. Len(s)
  BY DEF LoopsWith
<1>2. IsFiniteSet(1 .. Len(s))
  BY <1>1, FS_Interval
<1>3. IsFiniteSet(LoopsWith(s, f))
  BY <1>1, <1>2, FS_Subset
<1>4. QED
  BY <1>3, FS_CardinalityType DEF TokensIn

(* Before the first loop there is no place.                                *)
LEMMA TokensNone == \A f : TokensIn(<<>>, f) = 0
<1>1. \A f : LoopsWith(<<>>, f) = {}
  BY DEF LoopsWith
<1>2. QED
  BY <1>1, FS_EmptySet DEF TokensIn

(* A loop that starts over S has a place for each function of S.           *)
LEMMA TokensPush ==
  ASSUME NEW s \in Seq(SUBSET Fun), NEW S \in SUBSET Fun
  PROVE  /\ Append(s, S) \in Seq(SUBSET Fun) /\ Len(Append(s, S)) = Len(s) + 1
         /\ \A i \in 1 .. Len(s) : Append(s, S)[i] = s[i]
         /\ Append(s, S)[Len(s) + 1] = S
         /\ \A f : f \in S => TokensIn(Append(s, S), f) = TokensIn(s, f) + 1
         /\ \A f : f \notin S => TokensIn(Append(s, S), f) = TokensIn(s, f)
<1> DEFINE n == Len(s)
           t == Append(s, S)
<1>1. /\ n \in Nat /\ t \in Seq(SUBSET Fun) /\ Len(t) = n + 1
      /\ \A i \in 1 .. n : t[i] = s[i]
      /\ t[n + 1] = S
  OBVIOUS
<1>2. ASSUME NEW f
      PROVE  /\ f \in S => TokensIn(t, f) = TokensIn(s, f) + 1
             /\ f \notin S => TokensIn(t, f) = TokensIn(s, f)
  <2> HIDE DEF t
  <2>1. n + 1 \notin LoopsWith(s, f)
    BY <1>1 DEF LoopsWith
  <2>2. LoopsWith(t, f) = IF f \in S THEN LoopsWith(s, f) \cup {n + 1} ELSE LoopsWith(s, f)
    <3>1. 1 .. (n + 1) = (1 .. n) \cup {n + 1}
      BY <1>1
    <3>2. QED
      BY <1>1, <3>1 DEF LoopsWith
  <2>3. IsFiniteSet(LoopsWith(s, f)) /\ Cardinality(LoopsWith(s, f)) \in Nat
    BY TokensType DEF TokensIn
  <2>4. Cardinality(LoopsWith(s, f) \cup {n + 1}) = Cardinality(LoopsWith(s, f)) + 1
    BY <2>1, <2>3, FS_AddElement
  <2>5. QED
    BY <2>2, <2>3, <2>4 DEF TokensIn
<1>3. QED
  BY <1>1, <1>2

(* All but the last.                                                       *)
LEMMA FrontFacts ==
  ASSUME NEW s \in Seq(SUBSET Fun), s # <<>>
  PROVE  /\ Len(s) \in Nat \ {0} /\ Last(s) = s[Len(s)]
         /\ Front(s) \in Seq(SUBSET Fun) /\ Len(Front(s)) = Len(s) - 1
         /\ \A i \in 1 .. (Len(s) - 1) : Front(s)[i] = s[i]
<1>1. Len(s) \in Nat \ {0} /\ Last(s) = s[Len(s)]
  BY DEF Last
<1>2. Len(s) - 1 \in Nat /\ \A i \in 1 .. (Len(s) - 1) : i \in 1 .. Len(s)
  BY <1>1
<1>3. \A i \in 1 .. (Len(s) - 1) : s[i] \in SUBSET Fun
  BY <1>2
<1>4. \A k \in Nat : (\A i \in 1 .. k : s[i] \in SUBSET Fun) =>
        /\ SubSeq(s, 1, k) \in Seq(SUBSET Fun) /\ Len(SubSeq(s, 1, k)) = k
        /\ \A i \in 1 .. k : SubSeq(s, 1, k)[i] = s[i]
  <2> SUFFICES ASSUME NEW k \in Nat, \A i \in 1 .. k : s[i] \in SUBSET Fun
               PROVE  /\ SubSeq(s, 1, k) \in Seq(SUBSET Fun) /\ Len(SubSeq(s, 1, k)) = k
                      /\ \A i \in 1 .. k : SubSeq(s, 1, k)[i] = s[i]
    OBVIOUS
  <2>1. /\ SubSeq(s, 1, k) \in Seq(SUBSET Fun)
        /\ Len(SubSeq(s, 1, k)) = IF 1 <= k THEN k - 1 + 1 ELSE 0
        /\ \A i \in 1 .. k - 1 + 1 : SubSeq(s, 1, k)[i] = s[1 + i - 1]
    BY SubSeqProperties
  <2> DEFINE q == SubSeq(s, 1, k)
  <2> HIDE DEF q
  <2>2. \A i \in 1 .. k : i \in 1 .. k - 1 + 1 /\ 1 + i - 1 = i
    OBVIOUS
  <2>3. \A i \in 1 .. k : q[i] = s[i]
    BY <2>1, <2>2 DEF q
  <2>4. Len(q) = k
    BY <2>1 DEF q
  <2>5. QED
    BY <2>1, <2>3, <2>4 DEF q
<1>5. /\ Front(s) \in Seq(SUBSET Fun) /\ Len(Front(s)) = Len(s) - 1
      /\ \A i \in 1 .. (Len(s) - 1) : Front(s)[i] = s[i]
  <2> DEFINE n == Len(s) - 1
  <2>1. n \in Nat /\ \A i \in 1 .. n : s[i] \in SUBSET Fun
    BY <1>2, <1>3
  <2>2. Front(s) = SubSeq(s, 1, n)
    BY Zenon DEF Front
  <2> HIDE DEF n
  <2>3. /\ SubSeq(s, 1, n) \in Seq(SUBSET Fun) /\ Len(SubSeq(s, 1, n)) = n
        /\ \A i \in 1 .. n : SubSeq(s, 1, n)[i] = s[i]
    BY <1>4, <2>1
  <2>4. /\ Front(s) \in Seq(SUBSET Fun) /\ Len(Front(s)) = n
        /\ \A i \in 1 .. n : Front(s)[i] = s[i]
    BY <2>2, <2>3
  <2>5. QED
    BY <2>4 DEF n
<1>6. QED
  BY <1>1, <1>5

(* The stack when the innermost loop comes to f.                           *)
Taken(s, f) == Front(s) \o <<Last(s) \ {f}>>

(* A loop that comes to f gives its place away.                            *)
LEMMA TokensTake ==
  ASSUME NEW s \in Seq(SUBSET Fun), s # <<>>, NEW f \in Last(s)
  PROVE  /\ Taken(s, f) \in Seq(SUBSET Fun) /\ Len(Taken(s, f)) = Len(s)
         /\ \A i \in 1 .. Len(s) : Taken(s, f)[i] = IF i = Len(s) THEN s[i] \ {f} ELSE s[i]
         /\ TokensIn(Taken(s, f), f) = TokensIn(s, f) - 1
         /\ \A g : g # f => TokensIn(Taken(s, f), g) = TokensIn(s, g)
<1> DEFINE t == Taken(s, f)
<1> DEFINE n == Len(s)
<1>1. n \in Nat \ {0} /\ Last(s) = s[n] /\ n \in 1 .. n
  BY FrontFacts
<1>2. /\ t \in Seq(SUBSET Fun) /\ Len(t) = n
      /\ \A i \in 1 .. n : t[i] = IF i = n THEN s[i] \ {f} ELSE s[i]
  <2>1. /\ Front(s) \in Seq(SUBSET Fun) /\ Len(Front(s)) = n - 1
        /\ \A i \in 1 .. (n - 1) : Front(s)[i] = s[i]
    BY FrontFacts
  <2>2. s[n] \ {f} \in SUBSET Fun
    BY <1>1
  <2>3. t = Append(Front(s), s[n] \ {f})
    BY <1>1, <2>1, <2>2, AppendIsConcat DEF Taken
  <2> HIDE DEF t
  <2>4. /\ t \in Seq(SUBSET Fun) /\ Len(t) = (n - 1) + 1
        /\ \A i \in 1 .. (n - 1) : t[i] = Front(s)[i]
        /\ t[(n - 1) + 1] = s[n] \ {f}
    BY <2>1, <2>2, <2>3, TokensPush
  <2>5. ASSUME NEW i \in 1 .. n PROVE t[i] = IF i = n THEN s[i] \ {f} ELSE s[i]
    <3>1. CASE i = n
      <4>1. (n - 1) + 1 = n
        BY <1>1
      <4>2. t[n] = s[n] \ {f}
        BY <2>4, <4>1
      <4>3. QED
        BY <3>1, <4>2
    <3>2. CASE i # n
      <4>1. i \in 1 .. (n - 1)
        BY <1>1, <3>2
      <4>2. t[i] = s[i]
        BY <2>1, <2>4, <4>1
      <4>3. QED
        BY <3>2, <4>2
    <3>3. QED
      BY <3>1, <3>2
  <2>6. Len(t) = n
    BY <1>1, <2>4
  <2>7. QED
    BY <2>4, <2>5, <2>6
<1>3. ASSUME NEW g
      PROVE  TokensIn(t, g) = IF g = f THEN TokensIn(s, g) - 1 ELSE TokensIn(s, g)
  <2>1. n \in LoopsWith(s, f)
    BY <1>1 DEF LoopsWith
  <2>2. LoopsWith(t, g) = IF g = f THEN LoopsWith(s, g) \ {n} ELSE LoopsWith(s, g)
    BY <1>1, <1>2 DEF LoopsWith
  <2>3. /\ IsFiniteSet(LoopsWith(s, g)) /\ Cardinality(LoopsWith(s, g)) \in Nat
        /\ IsFiniteSet(LoopsWith(s, f)) /\ Cardinality(LoopsWith(s, f)) \in Nat
    BY TokensType DEF TokensIn
  <2>4. Cardinality(LoopsWith(s, f) \ {n}) = Cardinality(LoopsWith(s, f)) - 1
    BY <2>1, <2>3, FS_RemoveElement
  <2>5. CASE g = f
    BY <2>2, <2>3, <2>4, <2>5 DEF TokensIn
  <2>6. CASE g # f
    BY <2>2, <2>3, <2>6 DEF TokensIn
  <2>7. QED
    BY <2>5, <2>6
<1>4. QED
  BY <1>2, <1>3

(* A loop that has ended has no place.                                     *)
LEMMA TokensPop ==
  ASSUME NEW s \in Seq(SUBSET Fun), s # <<>>, Last(s) = {}
  PROVE  /\ Front(s) \in Seq(SUBSET Fun) /\ Len(Front(s)) = Len(s) - 1
         /\ \A i \in 1 .. (Len(s) - 1) : Front(s)[i] = s[i]
         /\ \A f : TokensIn(Front(s), f) = TokensIn(s, f)
<1> DEFINE n == Len(s)
           t == Front(s)
<1>1. n \in Nat \ {0} /\ s[n] = {}
  BY FrontFacts
<1>2. /\ t \in Seq(SUBSET Fun) /\ Len(t) = n - 1
      /\ \A i \in 1 .. (n - 1) : t[i] = s[i]
  BY FrontFacts
<1>3. ASSUME NEW f PROVE LoopsWith(t, f) = LoopsWith(s, f)
  <2> HIDE DEF t
  <2>1. 1 .. n = (1 .. (n - 1)) \cup {n}
    BY <1>1
  <2>2. QED
    BY <1>1, <1>2, <2>1 DEF LoopsWith
<1>4. QED
  BY <1>2, <1>3 DEF TokensIn

-----------------------------------------------------------------------------
(* The expansion of one caller. *)

(* A walk ends in a function of the program.                               *)
LEMMA EndsAreFunctions ==
  ASSUME NEW g, NEW c \in Fun, NEW n \in Nat
  PROVE  WalkEnds(g, c, n) \subseteq Fun
<1>1. CASE n = 0
  BY <1>1, WalkNone
<1>2. CASE n # 0
  <2>1. n - 1 \in Nat /\ (n - 1) + 1 = n
    BY <1>2
  <2>2. WalkEnds(g, c, (n - 1) + 1) = CalledBy(g, WalkEnds(g, c, n - 1))
    BY <2>1, WalkBack
  <2>3. QED
    BY <2>1, <2>2 DEF CalledBy
<1>3. QED
  BY <1>1, <1>2

(* Every walk of a call or more begins with a callee of its start.         *)
LEMMA ExpandedFront ==
  ASSUME NEW g, NEW c \in Fun, NEW f \in Expanded(g, c)
  PROVE  \E h \in CalleesOf(g, c) : f \in EndsBelow(g, h, 1)
<1>1. PICK n \in 1 .. ExpandLevel + 1 :
        f \in Fun /\ f \in WalkEnds(g, c, n) /\ Stops(g, f, n)
  BY DEF Expanded, Stops
<1>2. n - 1 \in Nat /\ (n - 1) + 1 = n /\ 1 + (n - 1) = n /\ n <= ExpandLevel + 1
  BY <1>1, ExpandLevelAssumption
<1>3. PICK h \in Fun : <<c, h>> \in g /\ f \in WalkEnds(g, h, n - 1)
  <2>1. \A x \in Fun : x \in WalkEnds(g, c, (n - 1) + 1) <=>
          \E h \in Fun : <<c, h>> \in g /\ x \in WalkEnds(g, h, n - 1)
    BY <1>2, WalkFront
  <2>2. f \in WalkEnds(g, c, (n - 1) + 1)
    BY <1>1, <1>2
  <2>3. QED
    BY <1>1, <2>1, <2>2
<1>4. f \in EndsBelow(g, h, 1)
  BY <1>1, <1>2, <1>3 DEF EndsBelow
<1>5. QED
  BY <1>3, <1>4 DEF CalleesOf

(* A function without callees has an empty expansion.                      *)
LEMMA NoCallees ==
  ASSUME NEW g, NEW c \in Fun, CalleesOf(g, c) = {}
  PROVE  Expanded(g, c) = {}
BY ExpandedFront

(* A walk that goes on from h ends there or goes on from a callee of h.    *)
LEMMA BelowUnfolds ==
  ASSUME NEW g, NEW h \in Fun, NEW n \in Nat, NEW f \in EndsBelow(g, h, n)
  PROVE  \/ f = h /\ Stops(g, f, n)
         \/ \E k \in CalleesOf(g, h) : n + 1 <= ExpandLevel + 1 /\ f \in EndsBelow(g, k, n + 1)
<1>1. PICK m \in Nat : /\ f \in Fun /\ f \in WalkEnds(g, h, m)
                       /\ n + m <= ExpandLevel + 1 /\ Stops(g, f, n + m)
  BY DEF EndsBelow
<1>2. CASE m = 0
  <2>1. f = h
    BY <1>1, <1>2, WalkNone
  <2>2. n + m = n
    BY <1>2
  <2>3. QED
    BY <1>1, <2>1, <2>2
<1>3. CASE m # 0
  <2>1. m - 1 \in Nat /\ (m - 1) + 1 = m /\ (n + 1) + (m - 1) = n + m
    BY <1>3
  <2>2. \A x \in Fun : x \in WalkEnds(g, h, (m - 1) + 1) <=>
          \E k \in Fun : <<h, k>> \in g /\ x \in WalkEnds(g, k, m - 1)
    BY <2>1, WalkFront
  <2>3. PICK k \in Fun : <<h, k>> \in g /\ f \in WalkEnds(g, k, m - 1)
    BY <1>1, <2>1, <2>2
  <2>4. f \in EndsBelow(g, k, n + 1)
    BY <1>1, <2>1, <2>3 DEF EndsBelow
  <2>5. n + 1 <= ExpandLevel + 1
    BY <1>1, <1>3, ExpandLevelAssumption
  <2>6. QED
    BY <2>3, <2>4, <2>5 DEF CalleesOf
<1>4. QED
  BY <1>2, <1>3

(* The first loop, over the callees of the caller.                         *)
LEMMA ExpandStarts ==
  ASSUME NEW g, NEW c \in Fun, 0 <= ExpandLevel, NEW S, S = CalleesOf(g, c),
         NEW list, \A f \in Fun : list[f] = IF f \in S THEN 1 ELSE 0
  PROVE  IsExpansion(g, c, Append(<<>>, S), list)
<1> DEFINE z == <<>>
           t == Append(z, S)
<1>1. z \in Seq(SUBSET Fun) /\ S \in SUBSET Fun /\ Len(z) = 0
  BY DEF CalleesOf
<1>2. /\ Len(t) = 1 /\ t[1] = S
      /\ \A f : f \in S => TokensIn(t, f) = 1
      /\ \A f : f \notin S => TokensIn(t, f) = 0
  <2>1. \A f : TokensIn(z, f) = 0
    BY TokensNone, Zenon
  <2> HIDE DEF z
  <2>2. /\ Len(t) = Len(z) + 1
        /\ t[Len(z) + 1] = S
        /\ \A f : f \in S => TokensIn(t, f) = TokensIn(z, f) + 1
        /\ \A f : f \notin S => TokensIn(t, f) = TokensIn(z, f)
    BY <1>1, TokensPush
  <2> HIDE DEF t
  <2>3. QED
    BY <1>1, <2>1, <2>2
<1> HIDE DEF t
<1>3. \A f \in Fun : TokensIn(t, f) = list[f]
  BY <1>2
<1>4. S \subseteq WalkEnds(g, c, 1)
  <2>1. WalkEnds(g, c, 0) = {c}
    BY WalkNone
  <2>2. WalkEnds(g, c, 0 + 1) = CalledBy(g, WalkEnds(g, c, 0))
    BY WalkBack
  <2>3. QED
    BY <2>1, <2>2 DEF CalledBy, CalleesOf
<1>5. \A i \in 1 .. Len(t) : i = 1 /\ i <= ExpandLevel + 1
  BY <1>2, ExpandLevelAssumption
<1>6. 1 \in 1 .. Len(t)
  BY <1>2
<1>7. \A f \in Fun : ~ TokensIn(t, f) < list[f] /\ TokensIn(t, f) <= list[f]
  BY <1>2, <1>3
<1>8. \A f \in Expanded(g, c) : \E h \in t[1] : f \in EndsBelow(g, h, 1)
  BY <1>2, ExpandedFront
<1>9. IsExpansion(g, c, t, list)
  BY <1>2, <1>4, <1>5, <1>6, <1>7, <1>8 DEF IsExpansion
<1>10. QED
  BY <1>9 DEF t

(* With a negative level there is no loop and no walk.                     *)
LEMMA ExpandNone ==
  ASSUME NEW g, NEW c \in Fun, ~ 0 <= ExpandLevel
  PROVE  IsExpansion(g, c, <<>>, Empty)
<1>1. Expanded(g, c) = {}
  BY ExpandLevelAssumption DEF Expanded
<1>2. Len(<<>>) = 0 /\ \A f : TokensIn(<<>>, f) = 0
  BY TokensNone
<1>3. \A f \in Fun : Empty[f] = 0
  BY DEF Empty
<1>4. QED
  BY <1>1, <1>2, <1>3 DEF IsExpansion

(* There is a place for every function that a loop has still to come to.   *)
LEMMA TokensPositive ==
  ASSUME NEW s \in Seq(SUBSET Fun), s # <<>>, NEW f \in Last(s)
  PROVE  TokensIn(s, f) \in Nat /\ TokensIn(s, f) >= 1
<1>1. /\ Taken(s, f) \in Seq(SUBSET Fun)
      /\ TokensIn(Taken(s, f), f) = TokensIn(s, f) - 1
  BY TokensTake
<1>2. TokensIn(Taken(s, f), f) \in Nat /\ TokensIn(s, f) \in Nat
  BY <1>1, TokensType
<1>3. QED
  BY <1>1, <1>2

(* A callee that is not expanded itself: a walk ends with it.              *)
LEMMA ExpandEnds ==
  ASSUME NEW g, NEW c \in Fun, NEW s \in Seq(SUBSET Fun), s # <<>>, NEW f \in Last(s),
         NEW list \in [Fun -> Nat], IsExpansion(g, c, s, list),
         NEW n, n = Len(s), n > ExpandLevel \/ CalleesOf(g, f) = {},
         NEW t, t = Taken(s, f)
  PROVE  IsExpansion(g, c, t, list)
<1>1. n \in Nat \ {0} /\ n \in 1 .. n /\ Last(s) = s[n]
  BY FrontFacts
<1>2. /\ t \in Seq(SUBSET Fun) /\ Len(t) = n
      /\ \A i \in 1 .. n : t[i] = IF i = n THEN s[i] \ {f} ELSE s[i]
      /\ TokensIn(t, f) = TokensIn(s, f) - 1
      /\ \A x : x # f => TokensIn(t, x) = TokensIn(s, x)
  <2>1. /\ Taken(s, f) \in Seq(SUBSET Fun) /\ Len(Taken(s, f)) = Len(s)
        /\ \A i \in 1 .. Len(s) : Taken(s, f)[i] = IF i = Len(s) THEN s[i] \ {f} ELSE s[i]
        /\ TokensIn(Taken(s, f), f) = TokensIn(s, f) - 1
        /\ \A g1 : g1 # f => TokensIn(Taken(s, f), g1) = TokensIn(s, g1)
    BY TokensTake
  <2>2. QED
    BY <2>1
<1>3. /\ \A i \in 1 .. n : i <= ExpandLevel + 1
      /\ \A i \in 1 .. n : s[i] \subseteq WalkEnds(g, c, i)
      /\ \A x \in Fun : TokensIn(s, x) <= list[x]
      /\ \A x \in Fun : TokensIn(s, x) < list[x] => x \in Expanded(g, c)
      /\ \A x \in Expanded(g, c) :
           \/ TokensIn(s, x) < list[x]
           \/ \E i \in 1 .. n : \E h \in s[i] : x \in EndsBelow(g, h, i)
  BY DEF IsExpansion
<1>4. \A x : TokensIn(s, x) \in Nat /\ TokensIn(t, x) \in Nat
  BY <1>2, TokensType
<1>5. f \in WalkEnds(g, c, n) /\ f \in Fun /\ n <= ExpandLevel + 1
  <2>1. f \in WalkEnds(g, c, n) /\ n <= ExpandLevel + 1
    BY <1>1, <1>3
  <2>2. QED
    BY <1>1, <2>1, EndsAreFunctions
<1>6. n = ExpandLevel + 1 \/ CalleesOf(g, f) = {}
  BY <1>1, <1>5, ExpandLevelAssumption
<1>7. f \in Expanded(g, c)
  <2>1. Stops(g, f, n)
    BY <1>6 DEF Stops, CalleesOf
  <2>2. n \in 1 .. ExpandLevel + 1
    BY <1>1, <1>5, ExpandLevelAssumption
  <2>3. QED
    BY <1>5, <2>1, <2>2 DEF Expanded, Stops
<1>8. TokensIn(t, f) < list[f] /\ TokensIn(t, f) <= list[f]
  <2>1. TokensIn(t, f) = TokensIn(s, f) - 1
    BY <1>2
  <2>2. TokensIn(s, f) <= list[f] /\ list[f] \in Nat /\ TokensIn(s, f) \in Nat
    BY <1>3, <1>4, <1>5
  <2>3. QED
    BY <2>1, <2>2
<1>9. \A x \in Fun \ {f} : TokensIn(t, x) = TokensIn(s, x)
  BY <1>2, <1>4
<1>10. Expanded(g, c) \subseteq Fun
  BY DEF Expanded
<1>11. ASSUME NEW x \in Expanded(g, c)
       PROVE  \/ TokensIn(t, x) < list[x]
              \/ \E i \in 1 .. n : \E h \in t[i] : x \in EndsBelow(g, h, i)
  <2>1. CASE x = f
    BY <1>8, <2>1
  <2>2. CASE x # f
    <3>1. CASE TokensIn(s, x) < list[x]
      BY <1>9, <1>10, <2>2, <3>1
    <3>2. CASE \E i \in 1 .. n : \E h \in s[i] : x \in EndsBelow(g, h, i)
      <4>1. PICK i \in 1 .. n : \E h \in s[i] : x \in EndsBelow(g, h, i)
        BY <3>2
      <4>2. PICK h \in s[i] : x \in EndsBelow(g, h, i)
        BY <4>1
      <4>3. CASE i = n /\ h = f
        <5>1. x \in EndsBelow(g, f, n)
          BY <4>2, <4>3
        <5>2. \E k \in CalleesOf(g, f) : n + 1 <= ExpandLevel + 1
          BY <1>1, <1>5, <2>2, <5>1, BelowUnfolds
        <5>3. QED
          BY <1>1, <1>6, <5>2, ExpandLevelAssumption
      <4>4. CASE ~ (i = n /\ h = f)
        <5>1. h \in t[i]
          BY <1>2, <4>4
        <5>2. QED
          BY <4>2, <5>1
      <4>5. QED
        BY <4>3, <4>4
    <3>3. QED
      BY <1>3, <3>1, <3>2
  <2>3. QED
    BY <2>1, <2>2
<1>12. \A i \in 1 .. n : t[i] \subseteq WalkEnds(g, c, i)
  BY <1>2, <1>3
<1>13. \A x \in Fun : /\ TokensIn(t, x) <= list[x]
                      /\ TokensIn(t, x) < list[x] => x \in Expanded(g, c)
  BY <1>3, <1>7, <1>8, <1>9
<1>14. QED
  BY <1>2, <1>3, <1>11, <1>12, <1>13 DEF IsExpansion

(* The list when f makes place for its callees S.                          *)
Swapped(list, f, S) ==
  [x \in Fun |-> list[x] - (IF x = f /\ list[f] > 0 THEN 1 ELSE 0)
                         + (IF x \in S THEN 1 ELSE 0)]

(* A callee that is expanded: its callees take its place, and as it had a  *)
(* place of its own in the list, the ends of walks there stay.             *)
LEMMA ExpandDeeper ==
  ASSUME NEW g, NEW c \in Fun, NEW s \in Seq(SUBSET Fun), s # <<>>, NEW f \in Last(s),
         NEW list \in [Fun -> Nat], IsExpansion(g, c, s, list),
         NEW n, n = Len(s), n <= ExpandLevel,
         NEW S, S = CalleesOf(g, f), S # {},
         NEW u, u = Taken(s, f), NEW t, t = Append(u, S),
         NEW new, new = Swapped(list, f, S)
  PROVE  /\ new \in [Fun -> Nat]
         /\ IsExpansion(g, c, t, new)
<1>1. n \in Nat \ {0} /\ n \in 1 .. n /\ Last(s) = s[n] /\ n + 1 <= ExpandLevel + 1
  BY FrontFacts, ExpandLevelAssumption
<1>2. /\ u \in Seq(SUBSET Fun) /\ Len(u) = n
      /\ \A i \in 1 .. n : u[i] = IF i = n THEN s[i] \ {f} ELSE s[i]
      /\ TokensIn(u, f) = TokensIn(s, f) - 1
      /\ \A x : x # f => TokensIn(u, x) = TokensIn(s, x)
  <2>1. /\ Taken(s, f) \in Seq(SUBSET Fun) /\ Len(Taken(s, f)) = Len(s)
        /\ \A i \in 1 .. Len(s) : Taken(s, f)[i] = IF i = Len(s) THEN s[i] \ {f} ELSE s[i]
        /\ TokensIn(Taken(s, f), f) = TokensIn(s, f) - 1
        /\ \A g1 : g1 # f => TokensIn(Taken(s, f), g1) = TokensIn(s, g1)
    BY TokensTake
  <2>2. QED
    BY <2>1
<1>3. S \in SUBSET Fun
  BY DEF CalleesOf
<1>4. /\ t \in Seq(SUBSET Fun) /\ Len(t) = n + 1
      /\ \A i \in 1 .. n : t[i] = u[i]
      /\ t[n + 1] = S
      /\ \A x : x \in S => TokensIn(t, x) = TokensIn(u, x) + 1
      /\ \A x : x \notin S => TokensIn(t, x) = TokensIn(u, x)
  <2>1. /\ Append(u, S) \in Seq(SUBSET Fun) /\ Len(Append(u, S)) = Len(u) + 1
        /\ \A i \in 1 .. Len(u) : Append(u, S)[i] = u[i]
        /\ Append(u, S)[Len(u) + 1] = S
        /\ \A x : x \in S => TokensIn(Append(u, S), x) = TokensIn(u, x) + 1
        /\ \A x : x \notin S => TokensIn(Append(u, S), x) = TokensIn(u, x)
    BY <1>2, <1>3, TokensPush
  <2>2. QED
    BY <1>2, <2>1
<1>5. /\ \A i \in 1 .. n : i <= ExpandLevel + 1
      /\ \A i \in 1 .. n : s[i] \subseteq WalkEnds(g, c, i)
      /\ \A x \in Fun : TokensIn(s, x) <= list[x]
      /\ \A x \in Fun : TokensIn(s, x) < list[x] => x \in Expanded(g, c)
      /\ \A x \in Expanded(g, c) :
           \/ TokensIn(s, x) < list[x]
           \/ \E i \in 1 .. n : \E h \in s[i] : x \in EndsBelow(g, h, i)
  BY DEF IsExpansion
<1>6. f \in WalkEnds(g, c, n) /\ f \in Fun
  <2>1. f \in WalkEnds(g, c, n)
    BY <1>1, <1>5
  <2>2. QED
    BY <1>1, <2>1, EndsAreFunctions
<1>7. \A x : TokensIn(s, x) \in Nat /\ TokensIn(u, x) \in Nat /\ TokensIn(t, x) \in Nat
  BY <1>2, <1>4, TokensType
<1>8. list[f] > 0
  <2>1. TokensIn(s, f) >= 1 /\ TokensIn(s, f) <= list[f] /\ list[f] \in Nat
    BY <1>5, <1>6, TokensPositive
  <2>2. QED
    BY <1>7, <2>1
<1>9. ASSUME NEW x \in Fun
      PROVE  /\ new[x] \in Nat
             /\ \E d \in {0 - 1, 0, 1} : /\ TokensIn(t, x) = TokensIn(s, x) + d
                                         /\ new[x] = list[x] + d
  <2>1. list[x] \in Nat /\ TokensIn(s, x) \in Nat
    BY <1>7
  <2>2. CASE x = f /\ x \in S
    <3>1. new[x] = list[x] - 1 + 1 /\ TokensIn(t, x) = TokensIn(s, x) - 1 + 1
      BY <1>2, <1>4, <1>8, <2>2 DEF Swapped
    <3>2. new[x] = list[x] + 0 /\ TokensIn(t, x) = TokensIn(s, x) + 0 /\ new[x] \in Nat
      BY <2>1, <3>1
    <3>3. QED
      BY <3>2
  <2>3. CASE x = f /\ x \notin S
    <3>1. new[x] = list[x] - 1 + 0 /\ TokensIn(t, x) = TokensIn(s, x) - 1
      BY <1>2, <1>4, <1>8, <2>3 DEF Swapped
    <3>2. new[x] = list[x] + (0 - 1) /\ TokensIn(t, x) = TokensIn(s, x) + (0 - 1)
      BY <2>1, <3>1
    <3>3. new[x] \in Nat
      BY <1>8, <2>1, <2>3, <3>1
    <3>4. QED
      BY <3>2, <3>3
  <2>4. CASE x # f /\ x \in S
    <3>1. new[x] = list[x] - 0 + 1 /\ TokensIn(t, x) = TokensIn(s, x) + 1
      BY <1>2, <1>4, <2>4 DEF Swapped
    <3>2. new[x] = list[x] + 1 /\ TokensIn(t, x) = TokensIn(s, x) + 1 /\ new[x] \in Nat
      BY <2>1, <3>1
    <3>3. QED
      BY <3>2
  <2>5. CASE x # f /\ x \notin S
    <3>1. new[x] = list[x] - 0 + 0 /\ TokensIn(t, x) = TokensIn(s, x)
      BY <1>2, <1>4, <2>5 DEF Swapped
    <3>2. new[x] = list[x] + 0 /\ TokensIn(t, x) = TokensIn(s, x) + 0 /\ new[x] \in Nat
      BY <2>1, <3>1
    <3>3. QED
      BY <3>2
  <2>6. QED
    BY <2>2, <2>3, <2>4, <2>5
<1>10. new \in [Fun -> Nat]
  <2>1. DOMAIN new = Fun /\ new = [x \in Fun |-> new[x]]
    BY DEF Swapped
  <2>2. QED
    BY <1>9, <2>1
<1>11. \A x \in Fun : /\ TokensIn(t, x) <= new[x] <=> TokensIn(s, x) <= list[x]
                      /\ TokensIn(t, x) < new[x] <=> TokensIn(s, x) < list[x]
  <2> SUFFICES ASSUME NEW x \in Fun
               PROVE  /\ TokensIn(t, x) <= new[x] <=> TokensIn(s, x) <= list[x]
                      /\ TokensIn(t, x) < new[x] <=> TokensIn(s, x) < list[x]
    OBVIOUS
  <2>1. PICK d \in {0 - 1, 0, 1} : TokensIn(t, x) = TokensIn(s, x) + d /\ new[x] = list[x] + d
    BY <1>9
  <2>2. list[x] \in Nat /\ TokensIn(s, x) \in Nat /\ d \in Int
    BY <1>7
  <2>3. QED
    BY <2>1, <2>2
<1>12. \A i \in 1 .. (n + 1) : i <= ExpandLevel + 1 /\ t[i] \subseteq WalkEnds(g, c, i)
  <2>1. S \subseteq WalkEnds(g, c, n + 1)
    <3>1. WalkEnds(g, c, n + 1) = CalledBy(g, WalkEnds(g, c, n))
      BY <1>1, WalkBack
    <3>2. QED
      BY <1>6, <3>1 DEF CalledBy, CalleesOf
  <2>2. ASSUME NEW i \in 1 .. (n + 1), i # n + 1
        PROVE  i <= ExpandLevel + 1 /\ t[i] \subseteq WalkEnds(g, c, i)
    <3>1. i \in 1 .. n
      BY <1>1, <2>2
    <3>2. QED
      BY <1>2, <1>4, <1>5, <3>1
  <2>3. QED
    BY <1>1, <1>4, <2>1, <2>2
<1>13. ASSUME NEW x \in Expanded(g, c)
       PROVE  \/ TokensIn(t, x) < new[x]
              \/ \E i \in 1 .. (n + 1) : \E h \in t[i] : x \in EndsBelow(g, h, i)
  <2>1. x \in Fun
    BY DEF Expanded
  <2>2. CASE TokensIn(s, x) < list[x]
    BY <1>11, <2>1, <2>2
  <2>3. CASE \E i \in 1 .. n : \E h \in s[i] : x \in EndsBelow(g, h, i)
    <3>1. PICK i \in 1 .. n : \E h \in s[i] : x \in EndsBelow(g, h, i)
      BY <2>3
    <3>2. PICK h \in s[i] : x \in EndsBelow(g, h, i)
      BY <3>1
    <3>3. CASE i = n /\ h = f
      <4>1. x \in EndsBelow(g, f, n)
        BY <3>2, <3>3
      <4>2. ~ Stops(g, f, n)
        <5>1. n # ExpandLevel + 1
          BY <1>1, ExpandLevelAssumption
        <5>2. \E h1 \in Fun : <<f, h1>> \in g
          BY DEF CalleesOf
        <5>3. QED
          BY <5>1, <5>2 DEF Stops
      <4>3. \E k \in S : x \in EndsBelow(g, k, n + 1)
        BY <1>1, <1>6, <4>1, <4>2, BelowUnfolds
      <4>4. n + 1 \in 1 .. (n + 1)
        BY <1>1
      <4>5. QED
        BY <1>4, <4>3, <4>4
    <3>4. CASE ~ (i = n /\ h = f)
      <4>1. h \in t[i] /\ i \in 1 .. (n + 1)
        <5>1. t[i] = IF i = n THEN s[i] \ {f} ELSE s[i]
          BY <1>2, <1>4, <3>1
        <5>2. h \in s[i] /\ i \in 1 .. n
          BY <3>1, <3>2
        <5>3. i \in 1 .. (n + 1)
          BY <1>1, <5>2
        <5>4. QED
          BY <3>4, <5>1, <5>2, <5>3
      <4>2. QED
        BY <3>2, <4>1
    <3>5. QED
      BY <3>3, <3>4
  <2>4. QED
    BY <1>5, <2>2, <2>3
<1>14. IsExpansion(g, c, t, new)
  BY <1>4, <1>5, <1>11, <1>12, <1>13 DEF IsExpansion
<1>15. QED
  BY <1>10, <1>14

(* A loop that has ended.                                                  *)
LEMMA ExpandReturns ==
  ASSUME NEW g, NEW c \in Fun, NEW s \in Seq(SUBSET Fun), s # <<>>, Last(s) = {},
         NEW list \in [Fun -> Nat], IsExpansion(g, c, s, list)
  PROVE  IsExpansion(g, c, Front(s), list)
<1> DEFINE n == Len(s)
           t == Front(s)
<1>1. n \in Nat \ {0} /\ s[n] = {}
  BY FrontFacts
<1>2. /\ t \in Seq(SUBSET Fun) /\ Len(t) = n - 1
      /\ \A i \in 1 .. (n - 1) : t[i] = s[i]
      /\ \A f : TokensIn(t, f) = TokensIn(s, f)
  BY TokensPop
<1>3. /\ \A i \in 1 .. n : i <= ExpandLevel + 1
      /\ \A i \in 1 .. n : s[i] \subseteq WalkEnds(g, c, i)
      /\ \A x \in Fun : TokensIn(s, x) <= list[x]
      /\ \A x \in Fun : TokensIn(s, x) < list[x] => x \in Expanded(g, c)
      /\ \A x \in Expanded(g, c) :
           \/ TokensIn(s, x) < list[x]
           \/ \E i \in 1 .. n : \E h \in s[i] : x \in EndsBelow(g, h, i)
  BY DEF IsExpansion
<1> HIDE DEF n, t
<1>4. \A i \in 1 .. (n - 1) : i \in 1 .. n
  BY <1>1
<1>5. \A i \in 1 .. n : s[i] # {} => i \in 1 .. (n - 1)
  BY <1>1
<1>6. ASSUME NEW x \in Expanded(g, c)
      PROVE  \/ TokensIn(t, x) < list[x]
             \/ \E i \in 1 .. (n - 1) : \E h \in t[i] : x \in EndsBelow(g, h, i)
  <2>1. CASE TokensIn(s, x) < list[x]
    BY <1>2, <2>1
  <2>2. CASE \E i \in 1 .. n : \E h \in s[i] : x \in EndsBelow(g, h, i)
    <3>1. PICK i \in 1 .. n : \E h \in s[i] : x \in EndsBelow(g, h, i)
      BY <2>2
    <3>2. i \in 1 .. (n - 1) /\ t[i] = s[i]
      BY <1>2, <1>5, <3>1
    <3>3. QED
      BY <3>1, <3>2
  <2>3. QED
    BY <1>3, <2>1, <2>2
<1>7. \A i \in 1 .. (n - 1) : i <= ExpandLevel + 1 /\ t[i] \subseteq WalkEnds(g, c, i)
  BY <1>2, <1>3, <1>4
<1>8. IsExpansion(g, c, t, list)
  BY <1>2, <1>3, <1>6, <1>7 DEF IsExpansion
<1>9. QED
  BY <1>8 DEF t

(* The whole expansion.                                                    *)
LEMMA ExpandDone ==
  ASSUME NEW g, NEW c \in Fun, NEW list \in [Fun -> Nat], IsExpansion(g, c, <<>>, list)
  PROVE  {f \in Fun : list[f] > 0} = Expanded(g, c)
<1>1. Len(<<>>) = 0 /\ \A f : TokensIn(<<>>, f) = 0
  BY TokensNone
<1>2. \A f \in Fun : 0 < list[f] => f \in Expanded(g, c)
  BY <1>1 DEF IsExpansion
<1>3. \A f \in Expanded(g, c) : 0 < list[f]
  BY <1>1 DEF IsExpansion
<1>4. Expanded(g, c) \subseteq Fun
  BY DEF Expanded
<1>5. \A f \in Fun : list[f] \in Nat
  OBVIOUS
<1>6. QED
  BY <1>2, <1>3, <1>4, <1>5

-----------------------------------------------------------------------------
(* initInterLocation. *)

InitInv == InitTypeOK /\ PhaseInv /\ ExpandInv /\ FillInv

(* Once the input has ended, callerCallee is the call graph.               *)
LEMMA ReadIsExact ==
  ASSUME ReadInv, scan = "closed"
  PROVE  \A c \in Fun : callerCallee[c] = CalleesOf(calls, c)
BY DEF ReadInv, CallerInv

(* The loops of main run before initInterLocation.                         *)
LEMMA ScanKeepsInit == InitInv /\ Scan => InitInv'
<1> SUFFICES ASSUME InitInv, Scan PROVE InitInv'
  OBVIOUS
<1>1. InitTypeOK /\ PhaseInv /\ ExpandInv /\ FillInv
  BY DEF InitInv
<1>2. scan # "closed"
  BY DEF Scan, SkipLine, EnterCaller, AddCallee, IgnoreLine, LeaveCaller, EndOfInput
<1>3. init = "idle" /\ root = NoNode /\ callers = {} /\ print = "idle"
  BY <1>1, <1>2 DEF PhaseInv
<1>4. UNCHANGED <<initVars, printVars>>
  BY DEF Scan
<1>5. /\ init' = init /\ callers' = callers /\ root' = root /\ calling' = calling
      /\ result' = result /\ callerCalleeExtend' = callerCalleeExtend
      /\ location' = location /\ print' = print
  BY <1>4 DEF initVars, printVars
<1>6. InitTypeOK'
  BY <1>1, <1>5 DEF InitTypeOK
<1>7. PhaseInv'
  BY <1>1, <1>3, <1>5 DEF PhaseInv, Empty
<1>8. ExpandInv'
  BY <1>3, <1>5 DEF ExpandInv
<1>9. FillInv'
  BY <1>1, <1>3, <1>5 DEF FillInv
<1>10. QED
  BY <1>6, <1>7, <1>8, <1>9 DEF InitInv

(* A call of getCalleeExtend for a function f at level n.                  *)
LEMMA CallExpands ==
  ASSUME NEW list, NEW stack, NEW f, NEW n, getCalleeExtend(list, stack, f, n)
  PROVE  /\ n <= ExpandLevel /\ callerCallee[f] # {} =>
              /\ calling' = Append(stack, callerCallee[f])
              /\ result' = Swapped(list, f, callerCallee[f])
         /\ ~ (n <= ExpandLevel /\ callerCallee[f] # {}) =>
              calling' = stack /\ result' = list
BY DEF getCalleeExtend, Expands, Replaced, Swapped

(* Each step of initInterLocation keeps the invariant.                     *)
LEMMA InitStep == ReadInv /\ InitInv /\ InitInterLocation => InitInv'
<1> SUFFICES ASSUME ReadInv, InitInv, InitInterLocation PROVE InitInv'
  OBVIOUS
<1>1. InitTypeOK /\ PhaseInv /\ ExpandInv /\ FillInv
  BY DEF InitInv
<1>2. UNCHANGED <<optVars, scanVars, printVars>>
  BY DEF InitInterLocation
<1>3. /\ calls' = calls /\ callerCallee' = callerCallee /\ scan' = scan /\ print' = print
      /\ callerCallee \in [Fun -> SUBSET Fun]
  BY <1>2 DEF optVars, scanVars, printVars, ReadInv, ReadTypeOK
<1>4. \A f \in Fun : f # NoNode
  BY NoNodeAssumption
<1>5. ASSUME scan = "closed"
      PROVE  \A c \in Fun : callerCallee[c] = CalleesOf(calls, c)
  BY <1>5, ReadIsExact
<1>6. Empty \in [Fun -> Nat]
  BY DEF Empty
<1>7. CASE StartExtend
  <2>1. scan = "closed" /\ init = "idle" /\ root = NoNode /\ print = "idle"
    BY <1>1, <1>7 DEF StartExtend, PhaseInv
  <2>2. /\ init' = "extend" /\ callers' = keysOf(callerCallee) /\ root' = root
        /\ calling' = calling /\ result' = result /\ location' = location
        /\ callerCalleeExtend' = callerCalleeExtend
    BY <1>7 DEF StartExtend
  <2>3. /\ callers' \in SUBSET Fun
        /\ \A c \in Fun : c \in callers' <=> callerCallee[c] # {}
    BY <2>2 DEF keysOf
  <2>4. InitTypeOK'
    BY <1>1, <2>2, <2>3 DEF InitTypeOK
  <2>5. PhaseInv'
    BY <1>1, <1>3, <2>1, <2>2, <2>3 DEF PhaseInv, Empty
  <2>6. ExpandInv'
    BY <2>1, <2>2 DEF ExpandInv
  <2>7. \A c \in Fun \ callers' : callerCalleeExtend'[c] = Expanded(calls, c)
    <3> SUFFICES ASSUME NEW c \in Fun \ callers'
                 PROVE  callerCalleeExtend'[c] = Expanded(calls, c)
      OBVIOUS
    <3>1. CalleesOf(calls, c) = {}
      BY <1>5, <2>1, <2>3
    <3>2. Expanded(calls, c) = {}
      BY <3>1, NoCallees
    <3>3. QED
      BY <1>1, <2>1, <2>2, <3>2 DEF FillInv
  <2>8. FillInv'
    BY <1>3, <2>2, <2>7 DEF FillInv
  <2>9. QED
    BY <2>4, <2>5, <2>6, <2>8 DEF InitInv
<1>8. ASSUME NEW c \in Fun, ExtendCaller(c) PROVE InitInv'
  <2>1. /\ init = "extend" /\ root = NoNode /\ c \in callers /\ scan = "closed"
        /\ calling = <<>> /\ result = Empty /\ callerCallee[c] # {}
    BY <1>1, <1>8 DEF ExtendCaller, PhaseInv
  <2>2. /\ init' = init /\ callers' = callers \ {c} /\ root' = c
        /\ callerCalleeExtend' = callerCalleeExtend /\ location' = location
    BY <1>8 DEF ExtendCaller
  <2>3. getCalleeExtend(Empty, <<>>, c, 0)
    BY <1>8 DEF ExtendCaller
  <2> DEFINE S == callerCallee[c]
  <2>4. S = CalleesOf(calls, c) /\ S \in SUBSET Fun
    BY <1>3, <1>5, <2>1
  <2>5. /\ calling' \in Seq(SUBSET Fun)
        /\ result' \in [Fun -> Nat]
        /\ IsExpansion(calls, c, calling', result')
    <3>1. CASE 0 <= ExpandLevel
      <4>1. /\ calling' = Append(<<>>, S)
            /\ result' = Swapped(Empty, c, S)
        BY <2>1, <2>3, <3>1, CallExpands
      <4>2. \A g \in Fun : Empty[g] = 0
        BY DEF Empty
      <4>3. result' = [g \in Fun |-> IF g \in S THEN 1 ELSE 0]
        BY <4>1, <4>2 DEF Swapped
      <4>4. result' \in [Fun -> Nat] /\ \A g \in Fun : result'[g] = IF g \in S THEN 1 ELSE 0
        BY <4>3
      <4>5. calling' \in Seq(SUBSET Fun)
        BY <2>4, <4>1
      <4> DEFINE list == result'
      <4> HIDE DEF S, list
      <4>6. IsExpansion(calls, c, Append(<<>>, S), list)
        BY <2>4, <3>1, <4>4, ExpandStarts DEF list
      <4>7. QED
        BY <4>1, <4>4, <4>5, <4>6 DEF list
    <3>2. CASE ~ 0 <= ExpandLevel
      <4>1. calling' = <<>> /\ result' = Empty
        BY <2>3, <3>2, CallExpands
      <4>2. QED
        BY <1>6, <3>2, <4>1, ExpandNone
    <3>3. QED
      BY <3>1, <3>2
  <2>6. InitTypeOK'
    BY <1>1, <2>2, <2>5 DEF InitTypeOK
  <2>7. PhaseInv'
    BY <1>1, <1>3, <1>4, <2>1, <2>2 DEF PhaseInv
  <2>8. ExpandInv'
    BY <1>3, <2>2, <2>5 DEF ExpandInv
  <2>9. FillInv'
    BY <1>1, <1>3, <1>4, <2>1, <2>2 DEF FillInv
  <2>10. QED
    BY <2>6, <2>7, <2>8, <2>9 DEF InitInv
<1>9. ASSUME NEW f \in Fun, ExtendCallee(f) PROVE InitInv'
  <2>1. /\ calling # <<>> /\ f \in Last(calling)
        /\ init' = init /\ callers' = callers /\ root' = root
        /\ callerCalleeExtend' = callerCalleeExtend /\ location' = location
    BY <1>9 DEF ExtendCallee
  <2>2. root # NoNode /\ root \in Fun /\ init = "extend" /\ scan = "closed"
    BY <1>1, <2>1 DEF PhaseInv, InitTypeOK
  <2>3. /\ calling \in Seq(SUBSET Fun) /\ result \in [Fun -> Nat]
        /\ IsExpansion(calls, root, calling, result)
    BY <1>1, <2>2 DEF InitTypeOK, ExpandInv
  <2>4. getCalleeExtend(result, Taken(calling, f), f, Len(calling))
    BY <1>9 DEF ExtendCallee, Taken
  <2> DEFINE S == callerCallee[f]
             n == Len(calling)
             u == Taken(calling, f)
  <2>5. S = CalleesOf(calls, f) /\ S \in SUBSET Fun /\ u \in Seq(SUBSET Fun) /\ n \in Nat
    BY <1>3, <1>5, <2>1, <2>2, <2>3, TokensTake
  <2>6. /\ calling' \in Seq(SUBSET Fun)
        /\ result' \in [Fun -> Nat]
        /\ IsExpansion(calls, root, calling', result')
    <3>1. CASE n <= ExpandLevel /\ S # {}
      <4> DEFINE new == Swapped(result, f, S)
                 t == Append(u, S)
      <4>1. calling' = t /\ result' = new
        BY <2>4, <3>1, CallExpands
      <4>2. t \in Seq(SUBSET Fun)
        BY <2>5
      <4>3. /\ n = Len(calling) /\ u = Taken(calling, f) /\ t = Append(u, S)
            /\ new = Swapped(result, f, S)
        OBVIOUS
      <4> HIDE DEF S, n, u, t, new
      <4>4. new \in [Fun -> Nat] /\ IsExpansion(calls, root, t, new)
        BY <2>1, <2>2, <2>3, <2>5, <3>1, <4>3, ExpandDeeper
      <4>5. QED
        BY <4>1, <4>2, <4>4
    <3>2. CASE ~ (n <= ExpandLevel /\ S # {})
      <4>1. calling' = u /\ result' = result
        BY <2>4, <3>2, CallExpands
      <4>2. n = Len(calling) /\ u = Taken(calling, f)
        OBVIOUS
      <4> HIDE DEF S, n, u
      <4>3. n > ExpandLevel \/ CalleesOf(calls, f) = {}
        BY <2>5, <3>2, ExpandLevelAssumption
      <4>4. IsExpansion(calls, root, u, result)
        BY <2>1, <2>2, <2>3, <4>2, <4>3, ExpandEnds
      <4>5. QED
        BY <2>3, <2>5, <4>1, <4>4
    <3>3. QED
      BY <3>1, <3>2
  <2>7. InitTypeOK'
    BY <1>1, <2>1, <2>6 DEF InitTypeOK
  <2>8. PhaseInv'
    BY <1>1, <1>3, <2>1, <2>2 DEF PhaseInv
  <2>9. ExpandInv'
    BY <1>3, <2>1, <2>6 DEF ExpandInv
  <2>10. FillInv'
    BY <1>1, <1>3, <2>1 DEF FillInv
  <2>11. QED
    BY <2>7, <2>8, <2>9, <2>10 DEF InitInv
<1>10. CASE ReturnExtend
  <2>1. /\ calling # <<>> /\ Last(calling) = {} /\ calling' = Front(calling)
        /\ init' = init /\ callers' = callers /\ root' = root /\ result' = result
        /\ callerCalleeExtend' = callerCalleeExtend /\ location' = location
    BY <1>10 DEF ReturnExtend
  <2>2. root # NoNode /\ root \in Fun /\ init = "extend"
    BY <1>1, <2>1 DEF PhaseInv, InitTypeOK
  <2>3. /\ calling \in Seq(SUBSET Fun) /\ result \in [Fun -> Nat]
        /\ IsExpansion(calls, root, calling, result)
    BY <1>1, <2>2 DEF InitTypeOK, ExpandInv
  <2>4. calling' \in Seq(SUBSET Fun) /\ IsExpansion(calls, root, calling', result')
    BY <2>1, <2>2, <2>3, FrontFacts, ExpandReturns
  <2>5. InitTypeOK'
    BY <1>1, <2>1, <2>4 DEF InitTypeOK
  <2>6. PhaseInv'
    BY <1>1, <1>3, <2>1, <2>2 DEF PhaseInv
  <2>7. ExpandInv'
    BY <1>3, <2>1, <2>4 DEF ExpandInv
  <2>8. FillInv'
    BY <1>1, <1>3, <2>1 DEF FillInv
  <2>9. QED
    BY <2>5, <2>6, <2>7, <2>8 DEF InitInv
<1>11. CASE PutExtended
  <2>1. /\ root # NoNode /\ calling = <<>>
        /\ callerCalleeExtend' = [callerCalleeExtend EXCEPT ![root] = {f \in Fun : result[f] > 0}]
        /\ root' = NoNode /\ result' = Empty
        /\ init' = init /\ callers' = callers /\ calling' = calling /\ location' = location
    BY <1>11 DEF PutExtended
  <2>2. root \in Fun /\ init = "extend" /\ result \in [Fun -> Nat] /\ print = "idle"
    BY <1>1, <2>1 DEF PhaseInv, InitTypeOK
  <2>3. {f \in Fun : result[f] > 0} = Expanded(calls, root)
    BY <1>1, <2>1, <2>2, ExpandDone DEF ExpandInv
  <2>4. InitTypeOK'
    BY <1>1, <1>6, <2>1, <2>2 DEF InitTypeOK
  <2>5. PhaseInv'
    BY <1>1, <1>3, <2>1, <2>2 DEF PhaseInv, Empty
  <2>6. ExpandInv'
    BY <2>1 DEF ExpandInv
  <2>7. \A c \in Fun \ callers : callerCalleeExtend'[c] = Expanded(calls, c)
    <3> SUFFICES ASSUME NEW c \in Fun \ callers
                 PROVE  callerCalleeExtend'[c] = Expanded(calls, c)
      OBVIOUS
    <3>1. CASE c = root
      BY <1>1, <2>1, <2>2, <2>3, <3>1 DEF InitTypeOK
    <3>2. CASE c # root
      BY <1>1, <2>1, <2>2, <3>2 DEF InitTypeOK, FillInv
    <3>3. QED
      BY <3>1, <3>2
  <2>8. FillInv'
    BY <1>3, <2>1, <2>2, <2>7 DEF FillInv
  <2>9. QED
    BY <2>4, <2>5, <2>6, <2>8 DEF InitInv
<1>12. CASE StartFill
  <2>1. /\ init = "extend" /\ root = NoNode /\ callers = {} /\ init' = "fill"
        /\ location' = [K \in Keys |-> {}] /\ callers' = keysOf(callerCallee)
        /\ root' = root /\ calling' = calling /\ result' = result
        /\ callerCalleeExtend' = callerCalleeExtend
    BY <1>12 DEF StartFill
  <2>2. scan = "closed" /\ print = "idle"
    BY <1>1, <2>1 DEF PhaseInv
  <2>3. /\ callers' \in SUBSET Fun
        /\ \A c \in Fun : c \in callers' <=> callerCallee[c] # {}
    BY <2>1 DEF keysOf
  <2>4. InitTypeOK'
    BY <1>1, <2>1, <2>3 DEF InitTypeOK
  <2>5. PhaseInv'
    BY <1>1, <1>3, <2>1, <2>2, <2>3 DEF PhaseInv, Empty
  <2>6. ExpandInv'
    BY <2>1 DEF ExpandInv
  <2>7. \A c \in Fun : callerCalleeExtend'[c] = Expanded(calls, c)
    BY <1>1, <1>4, <2>1 DEF FillInv
  <2>8. \A c \in Fun \ callers' : callerCalleeExtend'[c] = {}
    <3> SUFFICES ASSUME NEW c \in Fun \ callers'
                 PROVE  callerCalleeExtend'[c] = {}
      OBVIOUS
    <3>1. CalleesOf(calls, c) = {}
      BY <1>5, <2>2, <2>3
    <3>2. QED
      BY <2>7, <3>1, NoCallees
  <2>9. \A K \in Keys :
          location'[K] = {c \in Fun \ callers' : \E f, g \in callerCalleeExtend'[c] : K = {f, g}}
    BY <2>1, <2>8
  <2>10. FillInv'
    BY <1>3, <2>1, <2>7, <2>9 DEF FillInv
  <2>11. QED
    BY <2>4, <2>5, <2>6, <2>10 DEF InitInv
<1>13. ASSUME NEW c \in Fun, FillLocation(c) PROVE InitInv'
  <2>1. /\ init = "fill" /\ c \in callers /\ callers' = callers \ {c}
        /\ location' = [K \in Keys |->
             IF \E f, g \in callerCalleeExtend[c] : K = {f, g}
             THEN location[K] \cup {c} ELSE location[K]]
        /\ init' = init /\ root' = root /\ calling' = calling /\ result' = result
        /\ callerCalleeExtend' = callerCalleeExtend
    BY <1>13 DEF FillLocation
  <2>2. root = NoNode /\ callers \in SUBSET Fun /\ location \in [Keys -> SUBSET Fun]
    BY <1>1, <2>1 DEF PhaseInv, InitTypeOK
  <2>3. \A K \in Keys : location'[K] = IF \E f, g \in callerCalleeExtend[c] : K = {f, g}
                                       THEN location[K] \cup {c} ELSE location[K]
    BY <2>1
  <2>4. location' \in [Keys -> SUBSET Fun]
    <3>1. \A K \in Keys : (IF \E f, g \in callerCalleeExtend[c] : K = {f, g}
                           THEN location[K] \cup {c} ELSE location[K]) \in SUBSET Fun
      BY <2>2
    <3>2. QED
      BY <2>1, <3>1
  <2>5. InitTypeOK'
    BY <1>1, <2>1, <2>4 DEF InitTypeOK
  <2>6. PhaseInv'
    BY <1>1, <1>3, <2>1, <2>2 DEF PhaseInv
  <2>7. ExpandInv'
    BY <2>1, <2>2 DEF ExpandInv
  <2>8. \A K \in Keys :
          location'[K] = {x \in Fun \ callers' : \E f, g \in callerCalleeExtend'[x] : K = {f, g}}
    <3> SUFFICES ASSUME NEW K \in Keys
                 PROVE  location'[K] = {x \in Fun \ callers' :
                                          \E f, g \in callerCalleeExtend'[x] : K = {f, g}}
      OBVIOUS
    <3>1. location[K] = {x \in Fun \ callers : \E f, g \in callerCalleeExtend[x] : K = {f, g}}
      BY <1>1, <2>1 DEF FillInv
    <3>2. Fun \ callers' = (Fun \ callers) \cup {c}
      BY <2>1
    <3>3. QED
      BY <2>1, <2>3, <3>1, <3>2
  <2>9. FillInv'
    BY <1>1, <1>3, <2>1, <2>8 DEF FillInv
  <2>10. QED
    BY <2>5, <2>6, <2>7, <2>9 DEF InitInv
<1>14. CASE EndFill
  <2>1. /\ init = "fill" /\ callers = {} /\ init' = "done" /\ callers' = callers /\ root' = root
        /\ calling' = calling /\ result' = result /\ location' = location
        /\ callerCalleeExtend' = callerCalleeExtend
    BY <1>14 DEF EndFill
  <2>2. root = NoNode
    BY <1>1, <2>1 DEF PhaseInv
  <2>3. InitTypeOK'
    BY <1>1, <2>1 DEF InitTypeOK
  <2>4. PhaseInv'
    BY <1>1, <1>3, <2>1, <2>2 DEF PhaseInv, Empty
  <2>5. ExpandInv'
    BY <2>1, <2>2 DEF ExpandInv
  <2>6. FillInv'
    BY <1>1, <1>3, <2>1 DEF FillInv
  <2>7. QED
    BY <2>3, <2>4, <2>5, <2>6 DEF InitInv
<1>15. QED
  BY <1>7, <1>8, <1>9, <1>10, <1>11, <1>12, <1>13, <1>14 DEF InitInterLocation

-----------------------------------------------------------------------------
(***************************************************************************)
(* printBug, on the expanded call graph.  The argument is that of part A.  *)
(***************************************************************************)

Graph == ExpandedGraph(calls)

LocationIsExact == \A K \in Keys : location[K] = CallersOf(Graph, K)

(* The keys SET(A) and SET(A,B) are keys of the map.                       *)
LEMMA KeyFacts ==
  /\ \A a \in Fun : {a} \in Keys
  /\ \A a, b \in Fun : {a, b} \in Keys
  /\ \A K \in Keys : \E a, b \in Fun : K = {a, b}
<1>1. \A a \in Fun : {a} = {a, a}
  OBVIOUS
<1>2. QED
  BY <1>1 DEF Keys

(* Two keys SET(A,B), SET(A,C) with the same first function agree on the second. *)
LEMMA PairInjective ==
  ASSUME NEW a, NEW b, NEW c, a # b, a # c, {a, b} = {a, c}
  PROVE  b = c
OBVIOUS

(* What initInterLocation leaves behind for printBug.                      *)
LEMMA FilledIsExact ==
  ASSUME InitInv, init = "done"
  PROVE  LocationIsExact
<1>1. /\ callers = {}
      /\ \A c \in Fun : callerCalleeExtend[c] = Expanded(calls, c)
      /\ \A K \in Keys :
           location[K] = {c \in Fun \ callers : \E f, g \in callerCalleeExtend[c] : K = {f, g}}
  BY DEF InitInv, PhaseInv, FillInv
<1>2. ASSUME NEW K \in Keys PROVE location[K] = CallersOf(Graph, K)
  <2>1. PICK a \in Fun, b \in Fun : K = {a, b}
    BY KeyFacts
  <2>2. ASSUME NEW c \in Fun, NEW x \in Fun
        PROVE  <<c, x>> \in Graph <=> x \in Expanded(calls, c)
    <3> DEFINE e == <<c, x>>
    <3>1. e \in Fun \X Fun /\ e[1] = c /\ e[2] = x
      OBVIOUS
    <3> HIDE DEF e
    <3>2. e \in Graph <=> x \in Expanded(calls, c)
      BY <3>1 DEF Graph, ExpandedGraph
    <3>3. QED
      BY <3>2 DEF e
  <2>3. CallersOf(Graph, K) = {c \in Fun : a \in Expanded(calls, c) /\ b \in Expanded(calls, c)}
    BY <2>1, <2>2 DEF CallersOf
  <2>4. ASSUME NEW c \in Fun
        PROVE  (\E f, g \in Expanded(calls, c) : K = {f, g}) <=>
                 a \in Expanded(calls, c) /\ b \in Expanded(calls, c)
    BY <2>1
  <2>5. location[K] = {c \in Fun : \E f, g \in Expanded(calls, c) : K = {f, g}}
    BY <1>1
  <2>6. QED
    BY <2>3, <2>4, <2>5
<1>3. QED
  BY <1>2 DEF LocationIsExact

(* The line printed for a bug.                                             *)
LineOf(a, b, c) ==
  BugLine(a, b, c, Cardinality(CallersOf(Graph, {a, b})),
          Cardinality(CallersOf(Graph, {a})))

(* The loops of printBug have still to come to (a, b, c).                  *)
Pending(a, b, c) ==
  \/ a \in singleKeys
  \/ a = singleKey /\ b \in pipairKeys
  \/ a = singleKey /\ b = pipairKey /\ c \in locationTemp

(* Where the iterators of the three loops are.                             *)
LoopInv ==
  /\ print = "idle" => out = {}
  /\ print \notin {"pair", "location"} => singleKey = NoNode
  /\ print # "location" => pipairKey = NoNode
  /\ print \in {"pair", "location"} =>
       /\ singleKey \in Fun \ singleKeys
       /\ \A b \in pipairKeys : b # singleKey /\ location[{singleKey, b}] # {}
  /\ print = "location" =>
       /\ pipairKey \in Fun \ pipairKeys
       /\ \A c \in locationTemp : IsBug(Graph, singleKey, pipairKey, c)
  /\ print = "done" => singleKeys = {}

(* What is printed is what the loops have passed.                          *)
OutInv ==
  print # "idle" =>
    \A l : l \in out <=>
            \E a, b, c \in Fun : /\ IsBug(Graph, a, b, c)
                                 /\ ~ Pending(a, b, c)
                                 /\ l = LineOf(a, b, c)

(* No line is printed twice.                                               *)
CountInv == IsFiniteSet(out) /\ lines = Cardinality(out)

PrintInv == PrintTypeOK /\ LoopInv /\ OutInv /\ CountInv

(***************************************************************************)
(* The test of printBug on the sizes of the sets of the map, and the       *)
(* difference of the two sets, are the definition of a bug.                *)
(***************************************************************************)
LEMMA BugExact ==
  ASSUME LocationIsExact, NEW a \in Fun, NEW b \in Fun, a # b, NEW c \in Fun
  PROVE  IsBug(Graph, a, b, c) <=>
           /\ MeetsThresholds(a, b)
           /\ c \in location[{a}] \ location[{a, b}]
           /\ location[{a, b}] # {}
<1> DEFINE both == CallersOf(Graph, {a, b})
           one  == CallersOf(Graph, {a})
<1>1. location[{a}] = one /\ location[{a, b}] = both
  BY KeyFacts DEF LocationIsExact
<1>2. both \subseteq one /\ one \subseteq Fun
  BY DEF CallersOf
<1>3. IsFiniteSet(one) /\ IsFiniteSet(both)
  BY <1>2, FunAssumption, FS_Subset
<1>4. /\ Cardinality(both) \in Nat /\ Cardinality(one) \in Nat
      /\ Cardinality(both) <= Cardinality(one)
      /\ Cardinality(both) = Cardinality(one) => both = one
  BY <1>2, <1>3, FS_Subset, FS_CardinalityType
<1>5. c \in one \ both => Cardinality(both) < Cardinality(one)
  <2> HIDE DEF one, both
  <2>1. QED
    BY <1>4
<1>6. MeetsThresholds(a, b) <=>
        /\ Cardinality(one) >= Support
        /\ Cardinality(both) >= Support
        /\ Cardinality(both) < Cardinality(one)
        /\ 100 * Cardinality(both) >= Confidence * Cardinality(one)
  BY <1>1 DEF MeetsThresholds, supportOf
<1>7. IsBug(Graph, a, b, c) <=>
        /\ c \in one \ both
        /\ both # {}
        /\ Cardinality(both) >= Support
        /\ 100 * Cardinality(both) >= Confidence * Cardinality(one)
  BY DEF IsBug
<1> DEFINE enough == 100 * Cardinality(both) >= Confidence * Cardinality(one)
<1>8. MeetsThresholds(a, b) <=>
        /\ Cardinality(one) >= Support
        /\ Cardinality(both) >= Support
        /\ Cardinality(both) < Cardinality(one)
        /\ enough
  BY <1>6
<1>9. IsBug(Graph, a, b, c) <=>
        /\ c \in one \ both /\ both # {} /\ Cardinality(both) >= Support /\ enough
  BY <1>7
<1>10. QED
  <2> HIDE DEF one, both, enough
  <2>1. QED
    BY <1>1, <1>4, <1>5, <1>8, <1>9, ThresholdAssumption

(* A line tells its bug, its pair and its scope.                           *)
LEMMA LineInjective ==
  ASSUME NEW a, NEW b, NEW c, NEW n, NEW m, NEW x, NEW y, NEW z, NEW p, NEW q,
         a # b, x # y, BugLine(a, b, c, n, m) = BugLine(x, y, z, p, q)
  PROVE  a = x /\ b = y /\ c = z
<1>1. a = x /\ c = z /\ {a, b} = {x, y}
  BY DEF BugLine
<1>2. {x, b} = {x, y}
  BY <1>1
<1>3. QED
  BY <1>1, <1>2, PairInjective

(* A step that prints nothing and passes no bug keeps OutInv.              *)
LEMMA OutSame ==
  ASSUME OutInv, print # "idle", Graph' = Graph, out' = out,
         \A a, b, c \in Fun :
           IsBug(Graph, a, b, c) => (Pending(a, b, c)' <=> Pending(a, b, c))
  PROVE  OutInv'
<1>1. ASSUME NEW a \in Fun, NEW b \in Fun, NEW c \in Fun
      PROVE  /\ LineOf(a, b, c)' = LineOf(a, b, c)
             /\ IsBug(Graph, a, b, c)' <=> IsBug(Graph, a, b, c)
  BY DEF LineOf
<1>2. ASSUME NEW l
      PROVE  l \in out' <=> \E a, b, c \in Fun : /\ IsBug(Graph, a, b, c)'
                                                /\ ~ Pending(a, b, c)'
                                                /\ l = LineOf(a, b, c)'
  <2>1. l \in out <=> \E a, b, c \in Fun : /\ IsBug(Graph, a, b, c)
                                           /\ ~ Pending(a, b, c)
                                           /\ l = LineOf(a, b, c)
    BY DEF OutInv
  <2>2. QED
    BY <1>1, <2>1
<1>3. QED
  BY <1>2 DEF OutInv

(* The call of printBug.                                                   *)
LEMMA StartPrintStep ==
  ASSUME PrintInv, LocationIsExact, StartPrintBug, calls' = calls, location' = location
  PROVE  PrintInv'
<1>0. Graph' = Graph
  BY DEF Graph
<1>1. PrintTypeOK'
  BY DEF PrintInv, StartPrintBug, PrintTypeOK
<1>2. LoopInv'
  BY DEF PrintInv, StartPrintBug, LoopInv
<1>3. OutInv'
  <2>1. out' = {}
    BY DEF PrintInv, StartPrintBug, LoopInv
  <2>2. ASSUME NEW a \in Fun, NEW b \in Fun, NEW c \in Fun, IsBug(Graph, a, b, c)
        PROVE  a \in singleKeys'
    <3>1. location[{a}] # {}
      BY <2>2, BugExact DEF IsBug
    <3>2. QED
      BY <3>1, KeyFacts DEF StartPrintBug, keySet
  <2>3. QED
    BY <1>0, <2>1, <2>2 DEF OutInv, Pending
<1>4. CountInv'
  BY DEF PrintInv, StartPrintBug, CountInv
<1>5. QED
  BY <1>1, <1>2, <1>3, <1>4 DEF PrintInv

(* A line is printed for the bug that the loops have come to, and it is a  *)
(* new one.                                                                *)
LEMMA PrintedLine ==
  ASSUME PrintInv, LocationIsExact, NEW c \in Fun, PrintLine(c)
  PROVE  /\ singleKey \in Fun /\ pipairKey \in Fun
         /\ IsBug(Graph, singleKey, pipairKey, c)
         /\ out' = out \cup {LineOf(singleKey, pipairKey, c)}
         /\ LineOf(singleKey, pipairKey, c) \notin out
         /\ lines' = lines + 1
<1>1. /\ singleKey \in Fun /\ pipairKey \in Fun /\ c \in locationTemp
      /\ IsBug(Graph, singleKey, pipairKey, c)
  BY DEF PrintLine, PrintInv, LoopInv
<1> DEFINE l == LineOf(singleKey, pipairKey, c)
<1>2. out' = out \cup {l} /\ lines' = lines + 1
  BY <1>1, KeyFacts DEF PrintLine, LineOf, LocationIsExact, supportOf
<1>3. l \notin out
  <2> SUFFICES ASSUME l \in out PROVE FALSE
    OBVIOUS
  <2>1. PICK x \in Fun, y \in Fun, z \in Fun :
           /\ IsBug(Graph, x, y, z)
           /\ ~ Pending(x, y, z)
           /\ l = LineOf(x, y, z)
    BY DEF PrintInv, OutInv, PrintLine
  <2>2. x = singleKey /\ y = pipairKey /\ z = c
    BY <1>1, <2>1, LineInjective DEF LineOf, IsBug
  <2>3. QED
    BY <1>1, <2>1, <2>2 DEF Pending
<1>4. QED
  BY <1>1, <1>2, <1>3

(* The steps of printBug keep the invariant.                               *)
LEMMA PrintPhaseStep ==
  ASSUME PrintInv, LocationIsExact, PrintNext, calls' = calls, location' = location,
         location \in [Keys -> SUBSET Fun]
  PROVE  PrintInv'
<1>0. /\ PrintTypeOK /\ LoopInv /\ OutInv /\ CountInv
      /\ Graph' = Graph
  BY DEF PrintInv, Graph
<1>2. ASSUME NEW a \in Fun, TakeSingle(a) PROVE PrintTypeOK' /\ LoopInv' /\ OutInv'
  <2>1. PrintTypeOK'
    BY <1>0, <1>2 DEF TakeSingle, PrintTypeOK
  <2>2. LoopInv'
    BY <1>0, <1>2 DEF TakeSingle, LoopInv, PrintTypeOK, keySet
  <2>3. ASSUME NEW x \in Fun, NEW y \in Fun, NEW z \in Fun, IsBug(Graph, x, y, z)
        PROVE  Pending(x, y, z)' <=> Pending(x, y, z)
    <3>1. x # y /\ location[{x, y}] # {}
      BY <1>0, <2>3, BugExact DEF IsBug
    <3>2. x = a => y \in pipairKeys'
      BY <1>2, <3>1, KeyFacts DEF TakeSingle, keySet
    <3>3. QED
      BY <1>0, <1>2, <3>2, NoNodeAssumption DEF TakeSingle, LoopInv, Pending
  <2>4. OutInv'
    BY <1>0, <1>2, <2>3, OutSame DEF TakeSingle
  <2>5. QED
    BY <2>1, <2>2, <2>4
<1>3. ASSUME NEW b \in Fun, SkipPair(b) PROVE PrintTypeOK' /\ LoopInv' /\ OutInv'
  <2>1. PrintTypeOK'
    BY <1>0, <1>3 DEF SkipPair, PrintTypeOK
  <2>2. LoopInv'
    BY <1>0, <1>3 DEF SkipPair, LoopInv, PrintTypeOK
  <2>3. ASSUME NEW x \in Fun, NEW y \in Fun, NEW z \in Fun, IsBug(Graph, x, y, z)
        PROVE  Pending(x, y, z)' <=> Pending(x, y, z)
    <3>1. MeetsThresholds(x, y)
      BY <1>0, <2>3, BugExact DEF IsBug
    <3>2. ~ (x = singleKey /\ y = b)
      BY <1>3, <3>1 DEF SkipPair
    <3>3. QED
      BY <1>0, <1>3, <3>2 DEF SkipPair, LoopInv, Pending
  <2>4. OutInv'
    BY <1>0, <1>3, <2>3, OutSame DEF SkipPair
  <2>5. QED
    BY <2>1, <2>2, <2>4
<1>4. ASSUME NEW b \in Fun, TakePair(b) PROVE PrintTypeOK' /\ LoopInv' /\ OutInv'
  <2>1. /\ singleKey \in Fun /\ b # singleKey /\ location[{singleKey, b}] # {}
        /\ MeetsThresholds(singleKey, b)
    BY <1>0, <1>4 DEF TakePair, LoopInv
  <2>2. PrintTypeOK'
    BY <1>0, <1>4, <2>1, KeyFacts DEF TakePair, PrintTypeOK, InitTypeOK
  <2>3. ASSUME NEW c \in locationTemp' PROVE IsBug(Graph, singleKey, b, c)
    <3>1. c \in Fun /\ c \in location[{singleKey}] \ location[{singleKey, b}]
      BY <1>4, <2>2 DEF TakePair, PrintTypeOK
    <3>2. QED
      BY <1>0, <2>1, <3>1, BugExact
  <2>4. LoopInv'
    BY <1>0, <1>4, <2>1, <2>3 DEF TakePair, LoopInv, PrintTypeOK
  <2>5. ASSUME NEW x \in Fun, NEW y \in Fun, NEW z \in Fun, IsBug(Graph, x, y, z)
        PROVE  Pending(x, y, z)' <=> Pending(x, y, z)
    <3>1. x = singleKey /\ y = b => z \in locationTemp'
      BY <1>0, <1>4, <2>5, BugExact DEF IsBug, TakePair
    <3>2. QED
      BY <1>0, <1>4, <3>1, NoNodeAssumption DEF TakePair, LoopInv, Pending
  <2>6. OutInv'
    BY <1>0, <1>4, <2>5, OutSame DEF TakePair
  <2>7. QED
    BY <2>2, <2>4, <2>6
<1>5. ASSUME NEW c \in Fun, PrintLine(c) PROVE PrintTypeOK' /\ LoopInv' /\ OutInv'
  <2>1. PrintTypeOK'
    BY <1>0, <1>5 DEF PrintLine, PrintTypeOK
  <2>2. LoopInv'
    BY <1>0, <1>5 DEF PrintLine, LoopInv, PrintTypeOK
  <2>3. /\ singleKey \in Fun /\ pipairKey \in Fun
        /\ IsBug(Graph, singleKey, pipairKey, c)
    BY <1>0, <1>5 DEF PrintLine, LoopInv
  <2>4. out' = out \cup {LineOf(singleKey, pipairKey, c)}
    BY <1>0, <1>5, <2>3, KeyFacts DEF PrintLine, LineOf, LocationIsExact, supportOf
  <2>5. ASSUME NEW x \in Fun, NEW y \in Fun, NEW z \in Fun
        PROVE  /\ LineOf(x, y, z)' = LineOf(x, y, z)
               /\ IsBug(Graph', x, y, z) <=> IsBug(Graph, x, y, z)
               /\ ~ Pending(x, y, z)' <=>
                    \/ ~ Pending(x, y, z)
                    \/ x = singleKey /\ y = pipairKey /\ z = c
    <3>1. LineOf(x, y, z)' = LineOf(x, y, z)
      BY <1>0 DEF LineOf
    <3>2. QED
      BY <1>0, <1>5, <3>1 DEF PrintLine, Pending, LoopInv
  <2>6. ASSUME NEW l
        PROVE  l \in out' <=> \E x, y, z \in Fun : /\ IsBug(Graph', x, y, z)
                                                  /\ ~ Pending(x, y, z)'
                                                  /\ l = LineOf(x, y, z)'
    <3>1. l \in out <=> \E x, y, z \in Fun : /\ IsBug(Graph, x, y, z)
                                             /\ ~ Pending(x, y, z)
                                             /\ l = LineOf(x, y, z)
      BY <1>0, <1>5 DEF OutInv, PrintLine
    <3>2. QED
      BY <2>3, <2>4, <2>5, <3>1
  <2>7. OutInv'
    BY <2>6 DEF OutInv
  <2>8. QED
    BY <2>1, <2>2, <2>7
<1>6. ASSUME LeaveLocations PROVE PrintTypeOK' /\ LoopInv' /\ OutInv'
  <2>1. PrintTypeOK' /\ LoopInv'
    BY <1>0, <1>6 DEF LeaveLocations, PrintTypeOK, LoopInv
  <2>2. ASSUME NEW x \in Fun, NEW y \in Fun, NEW z \in Fun, IsBug(Graph, x, y, z)
        PROVE  Pending(x, y, z)' <=> Pending(x, y, z)
    BY <1>0, <1>6 DEF LeaveLocations, Pending
  <2>3. OutInv'
    BY <1>0, <1>6, <2>2, OutSame DEF LeaveLocations
  <2>4. QED
    BY <2>1, <2>3
<1>7. ASSUME LeavePairs PROVE PrintTypeOK' /\ LoopInv' /\ OutInv'
  <2>1. PrintTypeOK' /\ LoopInv'
    BY <1>0, <1>7 DEF LeavePairs, PrintTypeOK, LoopInv
  <2>2. ASSUME NEW x \in Fun, NEW y \in Fun, NEW z \in Fun, IsBug(Graph, x, y, z)
        PROVE  Pending(x, y, z)' <=> Pending(x, y, z)
    BY <1>0, <1>7, NoNodeAssumption DEF LeavePairs, Pending, LoopInv
  <2>3. OutInv'
    BY <1>0, <1>7, <2>2, OutSame DEF LeavePairs
  <2>4. QED
    BY <2>1, <2>3
<1>8. ASSUME EndPrintBug PROVE PrintTypeOK' /\ LoopInv' /\ OutInv'
  <2>1. PrintTypeOK' /\ LoopInv'
    BY <1>0, <1>8 DEF EndPrintBug, PrintTypeOK, LoopInv
  <2>2. ASSUME NEW x \in Fun, NEW y \in Fun, NEW z \in Fun, IsBug(Graph, x, y, z)
        PROVE  Pending(x, y, z)' <=> Pending(x, y, z)
    BY <1>8 DEF EndPrintBug, Pending
  <2>3. OutInv'
    BY <1>0, <1>8, <2>2, OutSame DEF EndPrintBug
  <2>4. QED
    BY <2>1, <2>3
<1>9. CountInv'
  <2>1. CASE \E c \in Fun : PrintLine(c)
    <3>1. PICK c \in Fun : PrintLine(c)
      BY <2>1
    <3> DEFINE l == LineOf(singleKey, pipairKey, c)
    <3>2. out' = out \cup {l} /\ l \notin out /\ lines' = lines + 1
      BY <3>1, PrintedLine
    <3> HIDE DEF l
    <3>3. IsFiniteSet(out') /\ Cardinality(out') = Cardinality(out) + 1
      BY <1>0, <3>2, FS_AddElement DEF CountInv
    <3>4. QED
      BY <1>0, <3>2, <3>3 DEF CountInv
  <2>2. CASE ~ \E c \in Fun : PrintLine(c)
    <3>1. out' = out /\ lines' = lines
      BY <2>2 DEF PrintNext, TakeSingle, SkipPair, TakePair, LeaveLocations, LeavePairs,
                  EndPrintBug
    <3>2. QED
      BY <1>0, <3>1 DEF CountInv
  <2>3. QED
    BY <2>1, <2>2
<1>10. QED
  BY <1>2, <1>3, <1>4, <1>5, <1>6, <1>7, <1>8, <1>9 DEF PrintNext, PrintInv

(* The lines of the report.                                                *)
LEMMA BugsAreLines ==
  /\ \A a, b, c \in Fun : IsBug(Graph, a, b, c) => LineOf(a, b, c) \in Bugs(Graph)
  /\ \A l \in Bugs(Graph) :
       \E a, b, c \in Fun : IsBug(Graph, a, b, c) /\ l = LineOf(a, b, c)
<1>1. ASSUME NEW a \in Fun, NEW b \in Fun, NEW c \in Fun, IsBug(Graph, a, b, c)
      PROVE  LineOf(a, b, c) \in Bugs(Graph)
  <2> DEFINE t == <<a, b, c>>
  <2>1. t \in Fun \X Fun \X Fun /\ t[1] = a /\ t[2] = b /\ t[3] = c
    OBVIOUS
  <2> HIDE DEF t
  <2>2. t \in BugTriples(Graph)
    BY <1>1, <2>1 DEF BugTriples
  <2>3. QED
    BY <2>1, <2>2 DEF Bugs, LineOf
<1>2. ASSUME NEW l \in Bugs(Graph)
      PROVE  \E a, b, c \in Fun : IsBug(Graph, a, b, c) /\ l = LineOf(a, b, c)
  <2>1. PICK t \in BugTriples(Graph) : l = LineOf(t[1], t[2], t[3])
    BY DEF Bugs, LineOf
  <2>2. t[1] \in Fun /\ t[2] \in Fun /\ t[3] \in Fun /\ IsBug(Graph, t[1], t[2], t[3])
    BY DEF BugTriples
  <2>3. QED
    BY <2>1, <2>2
<1>3. QED
  BY <1>1, <1>2

(* What printBug() has printed is part of the report, all of it at the end. *)
LEMMA OutBugs ==
  ASSUME PrintInv, print # "idle"
  PROVE  /\ out \subseteq Bugs(Graph)
         /\ (\A a, b, c \in Fun : IsBug(Graph, a, b, c) => ~ Pending(a, b, c))
              => out = Bugs(Graph)
<1>1. \A l : l \in out <=> \E a, b, c \in Fun : /\ IsBug(Graph, a, b, c)
                                                /\ ~ Pending(a, b, c)
                                                /\ l = LineOf(a, b, c)
  BY DEF PrintInv, OutInv
<1>2. QED
  BY <1>1, BugsAreLines

-----------------------------------------------------------------------------
(* The theorems. *)

Inv == ReadInv /\ InitInv /\ PrintInv

(* The invariant holds at the start...                                      *)
LEMMA StartInv == Init => Inv
<1> SUFFICES ASSUME Init PROVE Inv
  OBVIOUS
<1> USE DEF Init, OptInit, PrintInit
<1>1. ReadInv
  BY DEF ReadInv, ReadTypeOK, CallerInv, CalleesOf
<1>2. InitTypeOK
  BY DEF InitTypeOK, Empty
<1>3. PhaseInv
  BY DEF PhaseInv
<1>4. ExpandInv /\ FillInv
  BY DEF ExpandInv, FillInv
<1>5. PrintTypeOK /\ LoopInv /\ OutInv
  BY DEF PrintTypeOK, LoopInv, OutInv
<1>6. CountInv
  BY FS_EmptySet DEF CountInv
<1>7. QED
  BY <1>1, <1>2, <1>3, <1>4, <1>5, <1>6 DEF Inv, InitInv, PrintInv

(* What leaves a part of the program alone keeps its invariant.            *)
LEMMA ReadKept ==
  ASSUME ReadInv, UNCHANGED <<optVars, scanVars>>
  PROVE  ReadInv'
BY DEF ReadInv, ReadTypeOK, CallerInv, optVars, scanVars

(* ... nor does a step elsewhere change what the expansion has computed.    *)
LEMMA InitKept ==
  ASSUME InitInv, UNCHANGED <<optVars, scanVars, initVars>>, init = "done" \/ print' = print
  PROVE  InitInv'
<1>1. InitTypeOK /\ PhaseInv /\ ExpandInv /\ FillInv
  BY DEF InitInv
<1>2. /\ calls' = calls /\ scan' = scan /\ callerCallee' = callerCallee
      /\ init' = init /\ callers' = callers /\ root' = root /\ calling' = calling
      /\ result' = result /\ callerCalleeExtend' = callerCalleeExtend /\ location' = location
  BY DEF optVars, scanVars, initVars
<1>3. InitTypeOK'
  BY <1>1, <1>2 DEF InitTypeOK
<1>4. PhaseInv'
  BY <1>1, <1>2 DEF PhaseInv, Empty
<1>5. ExpandInv'
  BY <1>1, <1>2 DEF ExpandInv
<1>6. FillInv'
  BY <1>1, <1>2 DEF FillInv
<1>7. QED
  BY <1>3, <1>4, <1>5, <1>6 DEF InitInv

(* While nothing is printed the call graph may grow.                       *)
LEMMA PrintKept ==
  ASSUME PrintInv, UNCHANGED printVars, print = "idle" \/ (calls' = calls /\ location' = location)
  PROVE  PrintInv'
<1>1. PrintTypeOK /\ LoopInv /\ OutInv /\ CountInv
  BY DEF PrintInv
<1>2. /\ print' = print /\ singleKeys' = singleKeys /\ singleKey' = singleKey
      /\ pipairKeys' = pipairKeys /\ pipairKey' = pipairKey
      /\ locationTemp' = locationTemp /\ out' = out /\ lines' = lines
  BY DEF printVars
<1>3. PrintTypeOK' /\ CountInv'
  BY <1>1, <1>2 DEF PrintTypeOK, CountInv
<1>4. CASE print = "idle"
  <2>1. LoopInv' /\ OutInv'
    BY <1>1, <1>2, <1>4 DEF LoopInv, OutInv
  <2>2. QED
    BY <1>3, <2>1 DEF PrintInv
<1>5. CASE calls' = calls /\ location' = location
  <2>1. Graph' = Graph
    BY <1>5 DEF Graph
  <2>2. LoopInv'
    BY <1>1, <1>2, <1>5, <2>1 DEF LoopInv
  <2>3. \A a, b, c \in Fun : Pending(a, b, c)' <=> Pending(a, b, c)
    BY <1>2 DEF Pending
  <2>4. CASE print # "idle"
    <3>1. OutInv'
      BY <1>1, <1>2, <2>1, <2>3, <2>4, OutSame
    <3>2. QED
      BY <1>3, <2>2, <3>1 DEF PrintInv
  <2>5. QED
    BY <1>4, <2>4
<1>6. QED
  BY <1>4, <1>5

(* ... every step keeps it...                                               *)
LEMMA NextInv == Inv /\ [Next]_vars => Inv'
<1> SUFFICES ASSUME Inv, [Next]_vars PROVE Inv'
  OBVIOUS
<1>1. ReadInv /\ InitInv /\ PrintInv /\ PhaseInv
  BY DEF Inv, InitInv
<1>2. CASE Scan
  <2>1. scan # "closed"
    BY <1>2 DEF Scan, SkipLine, EnterCaller, AddCallee, IgnoreLine, LeaveCaller, EndOfInput
  <2>2. print = "idle" /\ UNCHANGED printVars
    BY <1>1, <1>2, <2>1 DEF PhaseInv, Scan
  <2>3. PrintInv'
    BY <1>1, <2>2, PrintKept
  <2>4. ReadInv' /\ InitInv'
    BY <1>1, <1>2, ReadStep, ScanKeepsInit
  <2>5. QED
    BY <2>3, <2>4 DEF Inv
<1>3. CASE InitInterLocation
  <2>1. UNCHANGED <<optVars, scanVars>> /\ UNCHANGED printVars
    BY <1>3 DEF InitInterLocation
  <2>2. print = "idle"
    BY <1>1, <1>3 DEF InitInterLocation, PhaseInv, StartExtend, ExtendCaller, ExtendCallee,
                      FillLocation, ReturnExtend, PutExtended, StartFill, EndFill
  <2>3. PrintInv'
    BY <1>1, <2>1, <2>2, PrintKept
  <2>4. ReadInv' /\ InitInv'
    BY <1>1, <1>3, <2>1, ReadKept, InitStep
  <2>5. QED
    BY <2>3, <2>4 DEF Inv
<1>4. CASE PrintStep
  <2>1. UNCHANGED <<optVars, scanVars, initVars>> /\ UNCHANGED <<optVars, scanVars>>
    BY <1>4 DEF PrintStep
  <2>2. init = "done"
    BY <1>1, <1>4 DEF PrintStep, PrintNext, PhaseInv, TakeSingle, SkipPair, TakePair, PrintLine,
                      LeaveLocations, LeavePairs, EndPrintBug
  <2>3. LocationIsExact /\ calls' = calls /\ location' = location
    BY <1>1, <2>1, <2>2, FilledIsExact DEF optVars, initVars
  <2>4. location \in [Keys -> SUBSET Fun]
    BY <1>1 DEF InitInv, InitTypeOK
  <2>5. PrintInv'
    BY <1>1, <1>4, <2>3, <2>4, StartPrintStep, PrintPhaseStep DEF PrintStep
  <2>6. QED
    BY <1>1, <2>1, <2>2, <2>5, ReadKept, InitKept DEF Inv
<1>5. CASE UNCHANGED vars
  <2>1. /\ UNCHANGED <<optVars, scanVars>> /\ UNCHANGED <<optVars, scanVars, initVars>>
        /\ UNCHANGED printVars /\ print' = print /\ calls' = calls /\ location' = location
    BY <1>5 DEF vars, optVars, initVars, printVars
  <2>2. QED
    BY <1>1, <2>1, ReadKept, InitKept, PrintKept DEF Inv
<1>6. QED
  BY <1>2, <1>3, <1>4, <1>5 DEF Next, Ended

(* ... so it always holds.                                                  *)
LEMMA Invariance == Spec => []Inv
BY StartInv, NextInv, PTL DEF Spec

(***************************************************************************)
(* Every variable of the program keeps its type: the count of a name in    *)
(* the list of getCalleeExtend() never falls below zero.                   *)
(***************************************************************************)
THEOREM TypeCorrect == Spec => []TypeOK
<1>1. Inv => TypeOK
  BY DEF Inv, ReadInv, ReadTypeOK, InitInv, InitTypeOK, PrintInv, TypeOK
<1>2. QED
  BY <1>1, Invariance, PTL

(***************************************************************************)
(* getCalleeExtend() leaves exactly the ends of the walks of a caller in   *)
(* its list, for every call graph, recursive or not, every expandLevel and *)
(* every order of the hash sets, although result.remove(caller) takes away *)
(* the first equal name, whichever branch of the recursion put it there.   *)
(***************************************************************************)
THEOREM ExtendIsExact == Spec => []ExtendExact
<1>1. Inv => ExtendExact
  BY DEF Inv, InitInv, FillInv, ExtendExact
<1>2. QED
  BY <1>1, Invariance, PTL

(***************************************************************************)
(* When printBug() returns it has printed the bugs of the expanded call    *)
(* graph, each of its lines once.                                          *)
(***************************************************************************)
THEOREM ReportIsExact == Spec => []ReportExact
<1>1. Inv => ReportExact
  <2> SUFFICES ASSUME Inv, print = "done"
               PROVE  out = Bugs(ExpandedGraph(calls)) /\ lines = Cardinality(out)
    BY DEF ReportExact
  <2>1. PrintInv
    BY DEF Inv
  <2>2. \A a, b, c \in Fun : ~ Pending(a, b, c)
    BY <2>1, NoNodeAssumption DEF PrintInv, LoopInv, Pending
  <2>3. out = Bugs(Graph)
    BY <2>1, <2>2, OutBugs
  <2>4. QED
    BY <2>1, <2>3 DEF PrintInv, CountInv, Graph
<1>2. QED
  BY <1>1, Invariance, PTL
==============================================================================
