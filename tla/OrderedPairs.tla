---------------------------- MODULE OrderedPairs -----------------------------
(***************************************************************************)
(* What the part D program promises, stated on the text of the call graph: *)
(* the order of two calls matters, so (A, B), (B, A) and (A, A) are three  *)
(* different pairs.  A call graph g is a set of call sites                 *)
(* <<caller, <<i, callee>>>>: the i-th call printed for the caller.        *)
(***************************************************************************)
EXTENDS LikelyPairs, Sequences

Pair == Fun \X Fun

(* location's keys: [A] and [A, B].                                        *)
Key == {<<f>> : f \in Fun} \cup Pair

reverse(p) == <<p[2], p[1]>>

(***************************************************************************)
(* The callers that make the calls of the key, one after the other, other  *)
(* calls in between included.                                              *)
(***************************************************************************)
HoldersOf(g, K) ==
  {c \in Fun :
     \E d, e \in {s[2] : s \in {t \in g : t[1] = c}} :
       /\ d[2] = K[1]
       /\ IF Len(K) = 1 THEN e = d ELSE d[1] < e[1] /\ e[2] = K[2]}

(* a is called in c, but the calls of the likely pair p are not made.      *)
IsOrderedBug(g, a, p, c) ==
  LET pair == HoldersOf(g, p)
      one  == HoldersOf(g, <<a>>)
  IN  /\ a \in {p[1], p[2]}
      /\ c \in one \ pair
      /\ pair # {}
      /\ Cardinality(pair) >= Support
      /\ 100 * Cardinality(pair) >= Confidence * Cardinality(one)

(***************************************************************************)
(* "bug: a in c, pair: p, support: n, confidence: x%", or with two pairs   *)
(* "pair: p, .. or pair: q, ..": which of the two is printed first is left *)
(* open, as it depends on the hash codes.                                  *)
(***************************************************************************)
PairText(p, n, m) == [pair |-> p, support |-> n, confidence |-> FormatPercent(n, m)]

OrderedBugLine(a, c, texts) == [bug |-> a, scope |-> c, pairs |-> texts]

(***************************************************************************)
(* The report g deserves: one line for a, c and the pair in either order,  *)
(* with each order that makes a bug of it.                                 *)
(***************************************************************************)
OrderedBugs(g) ==
  {OrderedBugLine(t[1], t[3],
     {PairText(q, Cardinality(HoldersOf(g, q)), Cardinality(HoldersOf(g, <<t[1]>>))) :
        q \in {r \in {t[2], reverse(t[2])} : IsOrderedBug(g, t[1], r, t[3])}}) :
     t \in {u \in Fun \X Pair \X Fun : IsOrderedBug(g, u[1], u[2], u[3])}}
=============================================================================
