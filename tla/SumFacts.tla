------------------------------ MODULE SumFacts ------------------------------
(***************************************************************************)
(* Facts about sums of integers over finite sets, as Functions and         *)
(* FiniteSetsExt define them: by a recursive function on the subsets of    *)
(* the set that takes its elements in the order of CHOOSE.  What it        *)
(* computes is proved by induction on the size of a set, in the form that  *)
(* every set of numbers that is not empty has a least element.             *)
(***************************************************************************)
EXTENDS Integers, FiniteSets, Functions, FiniteSetTheorems, WellFoundedInduction, TLAPS

(* The natural numbers are well-ordered.                                   *)
LEMMA LeastNumber ==
  ASSUME NEW T \in SUBSET Nat, T # {}
  PROVE  \E n \in T : \A m \in T : n <= m
<1> DEFINE R == {ss \in Nat \X Nat : ss[1] < ss[2]}
<1>1. IsWellFoundedOn(R, Nat)
  BY NatLessThanWellFounded, Zenon DEF OpToRel
<1> HIDE DEF R
<1>2. PICK n \in T : \A m \in T : ~ (<<m, n>> \in R)
  BY <1>1, WFMin, Zenon
<1>3. ASSUME NEW m \in T PROVE ~ m < n
  <2>1. <<m, n>> \in Nat \X Nat
    OBVIOUS
  <2>2. <<m, n>>[1] < <<m, n>>[2] <=> m < n
    OBVIOUS
  <2> QED
    BY <1>2, <2>1, <2>2 DEF R
<1> QED
  BY <1>3

(* Induction, for a property given as a set of numbers.                    *)
LEMMA AllNumbers ==
  ASSUME NEW P, 0 \in P, \A n \in Nat : n \in P => n + 1 \in P
  PROVE  Nat \subseteq P
<1> SUFFICES ASSUME Nat \ P # {} PROVE FALSE
  OBVIOUS
<1>1. PICK n \in Nat \ P : \A m \in Nat \ P : n <= m
  BY LeastNumber
<1>2. n - 1 \in Nat /\ n - 1 \notin Nat \ P
  BY <1>1
<1> QED
  BY <1>1, <1>2

(* Induction over the subsets of a finite set.                             *)
LEMMA AllSubsets ==
  ASSUME NEW D, IsFiniteSet(D), NEW P, {} \in P,
         \A S \in SUBSET D : S # {} /\ (\A x \in S : S \ {x} \in P) => S \in P
  PROVE  SUBSET D \subseteq P
<1> DEFINE Q == {k \in Nat : \A S \in SUBSET D : Cardinality(S) <= k => S \in P}
<1>1. ASSUME NEW S \in SUBSET D
      PROVE  /\ Cardinality(S) \in Nat
             /\ Cardinality(S) = 0 => S = {}
             /\ \A x \in S : Cardinality(S \ {x}) = Cardinality(S) - 1
  <2>1. IsFiniteSet(S)
    BY FS_Subset
  <2> QED
    BY <2>1, FS_CardinalityType, FS_EmptySet, FS_RemoveElement
<1>2. 0 \in Q
  <2>1. ASSUME NEW S \in SUBSET D, Cardinality(S) <= 0 PROVE S \in P
    <3>1. Cardinality(S) \in Nat /\ (Cardinality(S) = 0 => S = {})
      BY <1>1
    <3>2. S = {}
      BY <2>1, <3>1
    <3> QED
      BY <3>2
  <2> QED
    BY <2>1
<1>3. ASSUME NEW k \in Nat, k \in Q PROVE k + 1 \in Q
  <2>1. ASSUME NEW S \in SUBSET D, Cardinality(S) <= k + 1 PROVE S \in P
    <3>1. ASSUME NEW x \in S PROVE S \ {x} \in P
      <4>1. Cardinality(S \ {x}) <= k
        BY <1>1, <2>1
      <4> QED
        BY <1>3, <4>1
    <3> QED
      BY <3>1
  <2> QED
    BY <2>1
<1> HIDE DEF Q
<1>4. Nat \subseteq Q
  BY <1>2, <1>3, AllNumbers
<1>5. ASSUME NEW S \in SUBSET D PROVE S \in P
  BY <1>1, <1>4 DEF Q
<1> QED
  BY <1>5

-----------------------------------------------------------------------------
(* The element that the sum takes first.                                   *)
First(s) == CHOOSE x \in s : TRUE

Others(s) == s \ {First(s)}

(* g is the recursive function behind a sum of f, on the sets of at most n *)
(* elements of D.                                                          *)
Sums(g, f, D, n) ==
  \A s \in SUBSET D :
    Cardinality(s) <= n => g[s] = IF s = {} THEN 0 ELSE f[First(s)] + g[Others(s)]

(* The set without the element that is taken first is smaller by one.      *)
LEMMA OthersAreFewer ==
  ASSUME NEW s, IsFiniteSet(s), s # {}
  PROVE  /\ First(s) \in s
         /\ Others(s) \subseteq s
         /\ IsFiniteSet(Others(s))
         /\ Cardinality(s) \in Nat
         /\ Cardinality(Others(s)) = Cardinality(s) - 1
<1>1. First(s) \in s
  BY DEF First
<1>2. Cardinality(s) \in Nat
  BY FS_CardinalityType
<1>3. IsFiniteSet(Others(s)) /\ Cardinality(Others(s)) = Cardinality(s) - 1
  BY <1>1, FS_RemoveElement DEF Others
<1> QED
  BY <1>1, <1>2, <1>3 DEF Others

(* The recursive function exists: it can be extended from the sets of at   *)
(* most n elements to those of n + 1.                                      *)
LEMMA SumsExtend ==
  ASSUME NEW f, NEW D, IsFiniteSet(D), NEW n \in Nat,
         NEW g \in [SUBSET D -> Int], Sums(g, f, D, n),
         \A x \in D : f[x] \in Int
  PROVE  \E h \in [SUBSET D -> Int] : Sums(h, f, D, n + 1)
<1> DEFINE h == [s \in SUBSET D |->
                   IF Cardinality(s) = n + 1 THEN f[First(s)] + g[Others(s)] ELSE g[s]]
<1>1. h \in [SUBSET D -> Int]
  <2> SUFFICES ASSUME NEW s \in SUBSET D, Cardinality(s) = n + 1
               PROVE  f[First(s)] + g[Others(s)] \in Int
    OBVIOUS
  <2>1. IsFiniteSet(s)
    BY FS_Subset
  <2>2. s # {}
    BY FS_EmptySet
  <2>3. First(s) \in D /\ Others(s) \in SUBSET D
    BY <2>1, <2>2, OthersAreFewer
  <2> QED
    BY <2>3
<1>2. ASSUME NEW s \in SUBSET D, Cardinality(s) <= n + 1
      PROVE  h[s] = IF s = {} THEN 0 ELSE f[First(s)] + h[Others(s)]
  <2>1. IsFiniteSet(s)
    BY FS_Subset
  <2>2. CASE s = {}
    <3>1. Cardinality(s) = 0
      BY <2>2, FS_EmptySet
    <3>2. g[s] = 0
      BY <2>2, <3>1 DEF Sums
    <3> QED
      BY <2>2, <3>1, <3>2
  <2>3. CASE s # {}
    <3>1. /\ Others(s) \in SUBSET D
          /\ Cardinality(s) \in Nat
          /\ Cardinality(Others(s)) = Cardinality(s) - 1
      BY <2>1, <2>3, OthersAreFewer
    <3>2. h[Others(s)] = g[Others(s)]
      BY <3>1, <1>2
    <3>3. Cardinality(s) # n + 1 => g[s] = f[First(s)] + g[Others(s)]
      BY <2>3, <3>1, <1>2 DEF Sums
    <3> QED
      BY <2>3, <3>2, <3>3
  <2> QED
    BY <2>2, <2>3
<1> HIDE DEF h
<1> QED
  BY <1>1, <1>2 DEF Sums

(* So it exists on all the subsets of a finite set.                        *)
LEMMA SumsExist ==
  ASSUME NEW f, NEW D, IsFiniteSet(D), \A x \in D : f[x] \in Int, NEW n \in Nat
  PROVE  \E g \in [SUBSET D -> Int] : Sums(g, f, D, n)
<1> DEFINE P == {k \in Nat : \E g \in [SUBSET D -> Int] : Sums(g, f, D, k)}
<1>1. 0 \in P
  <2> DEFINE g == [s \in SUBSET D |-> 0]
  <2>1. ASSUME NEW s \in SUBSET D, Cardinality(s) <= 0
        PROVE  s = {}
    <3>1. IsFiniteSet(s)
      BY FS_Subset
    <3>2. Cardinality(s) = 0
      BY <3>1, <2>1, FS_CardinalityType
    <3> QED
      BY <3>1, <3>2, FS_EmptySet
  <2>2. g \in [SUBSET D -> Int] /\ \A s \in SUBSET D : g[s] = 0
    OBVIOUS
  <2> HIDE DEF g
  <2> QED
    BY <2>1, <2>2 DEF Sums
<1>2. ASSUME NEW k \in Nat, k \in P PROVE k + 1 \in P
  <2>1. PICK g \in [SUBSET D -> Int] : Sums(g, f, D, k)
    BY <1>2
  <2>2. \E h \in [SUBSET D -> Int] : Sums(h, f, D, k + 1)
    BY <2>1, SumsExtend
  <2> QED
    BY <2>2
<1> HIDE DEF P
<1>3. Nat \subseteq P
  BY <1>1, <1>2, AllNumbers
<1> QED
  BY <1>3 DEF P

(* There is only one: two recursive functions for the same f agree on the  *)
(* sets that both are defined for.                                         *)
LEMMA SumsAgree ==
  ASSUME NEW f, NEW D, IsFiniteSet(D), NEW g, NEW h, NEW E \in SUBSET D, NEW N \in Nat,
         Sums(g, f, D, N), Sums(h, f, E, N)
  PROVE  \A s \in SUBSET E : Cardinality(s) <= N => g[s] = h[s]
<1> DEFINE P == {k \in Nat : \A s \in SUBSET E : Cardinality(s) <= k /\ k <= N => g[s] = h[s]}
<1>1. 0 \in P
  <2> SUFFICES ASSUME NEW s \in SUBSET E, Cardinality(s) <= 0
               PROVE  g[s] = h[s]
    OBVIOUS
  <2>1. IsFiniteSet(s)
    BY FS_Subset
  <2>2. Cardinality(s) = 0
    BY <2>1, FS_CardinalityType
  <2>3. s = {}
    BY <2>1, <2>2, FS_EmptySet
  <2> QED
    BY <2>2, <2>3 DEF Sums
<1>2. ASSUME NEW k \in Nat, k \in P PROVE k + 1 \in P
  <2> SUFFICES ASSUME NEW s \in SUBSET E, Cardinality(s) <= k + 1, k + 1 <= N
               PROVE  g[s] = h[s]
    OBVIOUS
  <2>1. IsFiniteSet(s)
    BY FS_Subset
  <2>2. CASE s = {}
    <3>1. Cardinality(s) = 0
      BY <2>2, FS_EmptySet
    <3> QED
      BY <2>2, <3>1 DEF Sums
  <2>3. CASE s # {}
    <3>1. /\ Others(s) \in SUBSET E
          /\ Cardinality(s) \in Nat
          /\ Cardinality(Others(s)) = Cardinality(s) - 1
      BY <2>1, <2>3, OthersAreFewer
    <3>2. Cardinality(Others(s)) <= k /\ k <= N
      BY <3>1
    <3>3. g[Others(s)] = h[Others(s)]
      BY <1>2, <3>1, <3>2
    <3>4. Cardinality(s) <= N
      BY <3>1
    <3>5. /\ g[s] = f[First(s)] + g[Others(s)]
          /\ h[s] = f[First(s)] + h[Others(s)]
      BY <2>3, <3>4 DEF Sums
    <3> QED
      BY <3>3, <3>5
  <2> QED
    BY <2>2, <2>3
<1> HIDE DEF P
<1>3. Nat \subseteq P
  BY <1>1, <1>2, AllNumbers
<1> QED
  BY <1>3 DEF P

-----------------------------------------------------------------------------
(* What a sum is: 0 over the empty set, and otherwise the value of one     *)
(* element and the sum over the others.                                    *)
LEMMA SumFirst ==
  ASSUME NEW f, NEW D, IsFiniteSet(D), \A x \in D : f[x] \in Int
  PROVE  /\ SumFunctionOnSet(f, D) \in Int
         /\ SumFunctionOnSet(f, D) = IF D = {} THEN 0
                                     ELSE f[First(D)] + SumFunctionOnSet(f, Others(D))
<1> DEFINE R(g, S) == g = [s \in SUBSET S |-> IF s = {} THEN 0
                             ELSE f[First(s)] + g[Others(s)]]
<1> DEFINE it(S) == CHOOSE g : R(g, S)
<1>1. \A S : SumFunctionOnSet(f, S) = it(S)[S]
  BY DEF SumFunctionOnSet, FoldFunctionOnSet, MapThenFoldSet, First, Others
<1> HIDE DEF it
<1>2. ASSUME NEW S \in SUBSET D
      PROVE  /\ Sums(it(S), f, S, Cardinality(D))
             /\ it(S)[S] \in Int
             /\ Cardinality(S) <= Cardinality(D)
  <2>1. IsFiniteSet(S) /\ Cardinality(S) <= Cardinality(D) /\ Cardinality(D) \in Nat
    BY FS_Subset, FS_CardinalityType
  <2>2. PICK g \in [SUBSET S -> Int] : Sums(g, f, S, Cardinality(D))
    BY <2>1, SumsExist
  <2>3. \A s \in SUBSET S : Cardinality(s) <= Cardinality(D)
    BY FS_Subset
  <2>4. R(g, S)
    <3>1. \A s \in SUBSET S : g[s] = IF s = {} THEN 0 ELSE f[First(s)] + g[Others(s)]
      BY <2>2, <2>3 DEF Sums
    <3> QED
      BY <3>1
  <2>5. R(it(S), S)
    BY <2>4, Zenon DEF it
  <2>6. Sums(it(S), f, S, Cardinality(D))
    <3>1. \A s \in SUBSET S : it(S)[s] = IF s = {} THEN 0 ELSE f[First(s)] + it(S)[Others(s)]
      BY <2>5
    <3> QED
      BY <3>1 DEF Sums
  <2>7. it(S)[S] = g[S]
    <3> DEFINE h == it(S)
    <3> HIDE DEF h
    <3>1. Sums(h, f, S, Cardinality(D))
      BY <2>6 DEF h
    <3>2. \A s \in SUBSET S : Cardinality(s) <= Cardinality(D) => h[s] = g[s]
      BY <2>1, <2>2, <3>1, SumsAgree
    <3>3. h[S] = g[S]
      BY <2>1, <3>2
    <3> QED
      BY <3>3 DEF h
  <2> QED
    BY <2>1, <2>2, <2>6, <2>7
<1> HIDE DEF R
<1>3. Others(D) \in SUBSET D /\ Cardinality(D) \in Nat
  BY FS_CardinalityType DEF Others
<1>4. it(D)[D] = IF D = {} THEN 0 ELSE f[First(D)] + it(D)[Others(D)]
  BY <1>2 DEF Sums
<1>5. it(D)[Others(D)] = it(Others(D))[Others(D)]
  <2> DEFINE g == it(D)
  <2> DEFINE h == it(Others(D))
  <2>1. Sums(g, f, D, Cardinality(D)) /\ Sums(h, f, Others(D), Cardinality(D))
    BY <1>2, <1>3
  <2>2. Cardinality(Others(D)) <= Cardinality(D)
    BY <1>2, <1>3
  <2> HIDE DEF g, h
  <2>3. \A s \in SUBSET Others(D) : Cardinality(s) <= Cardinality(D) => g[s] = h[s]
    BY <1>3, <2>1, SumsAgree
  <2>4. g[Others(D)] = h[Others(D)]
    BY <2>2, <2>3
  <2> QED
    BY <2>4 DEF g, h
<1> QED
  BY <1>1, <1>2, <1>4, <1>5

(* A sum has the value that one of its elements, any, leaves to the others.*)
LEMMA SumTake ==
  ASSUME NEW f, NEW D, IsFiniteSet(D), \A x \in D : f[x] \in Int, NEW y \in D
  PROVE  SumFunctionOnSet(f, D) = f[y] + SumFunctionOnSet(f, D \ {y})
<1> DEFINE Sum(S) == SumFunctionOnSet(f, S)
<1> DEFINE P == {S \in SUBSET D : \A x \in S : Sum(S) = f[x] + Sum(S \ {x})}
<1>1. ASSUME NEW S \in SUBSET D
      PROVE  /\ Sum(S) \in Int
             /\ Sum(S) = IF S = {} THEN 0 ELSE f[First(S)] + Sum(Others(S))
             /\ S # {} => First(S) \in S
  <2>1. IsFiniteSet(S) /\ \A x \in S : f[x] \in Int
    BY FS_Subset
  <2>2. S # {} => First(S) \in S
    BY DEF First
  <2> HIDE DEF Sum
  <2>3. Sum(S) \in Int /\ Sum(S) = IF S = {} THEN 0 ELSE f[First(S)] + Sum(Others(S))
    BY <2>1, SumFirst DEF Sum
  <2> QED
    BY <2>2, <2>3
<1> HIDE DEF Sum
<1>2. {} \in P
  OBVIOUS
<1>3. ASSUME NEW S \in SUBSET D, S # {}, \A x \in S : S \ {x} \in P
      PROVE  S \in P
  <2> SUFFICES ASSUME NEW x \in S, x # First(S)
               PROVE  Sum(S) = f[x] + Sum(S \ {x})
    BY <1>1 DEF Others
  <2> DEFINE c == First(S)
  <2>1. c \in S /\ Sum(S) = f[c] + Sum(S \ {c})
    BY <1>1 DEF Others
  <2> HIDE DEF c
  <2>2. x \in S \ {c} /\ c \in S \ {x}
    BY <2>1 DEF c
  <2>3. Sum(S \ {c}) = f[x] + Sum((S \ {c}) \ {x})
    BY <1>3, <2>1, <2>2
  <2>4. Sum(S \ {x}) = f[c] + Sum((S \ {x}) \ {c})
    BY <1>3, <2>2
  <2>5. (S \ {c}) \ {x} = (S \ {x}) \ {c}
    OBVIOUS
  <2>6. f[x] \in Int /\ f[c] \in Int /\ Sum((S \ {x}) \ {c}) \in Int
    BY <1>1, <2>1
  <2>7. Sum(S) = f[c] + (f[x] + Sum((S \ {x}) \ {c}))
    BY <2>1, <2>3, <2>5
  <2> QED
    BY <2>4, <2>6, <2>7
<1> HIDE DEF P
<1>4. SUBSET D \subseteq P
  BY <1>2, <1>3, AllSubsets
<1>5. D \in P
  BY <1>4
<1>6. Sum(D) = f[y] + Sum(D \ {y})
  BY <1>5 DEF P
<1> QED
  BY <1>6 DEF Sum

(* A sum of numbers that are not negative is not negative.                 *)
LEMMA SumNotNegative ==
  ASSUME NEW f, NEW D, IsFiniteSet(D), \A x \in D : f[x] \in Nat
  PROVE  SumFunctionOnSet(f, D) \in Nat
<1> DEFINE P == {S \in SUBSET D : SumFunctionOnSet(f, S) \in Nat}
<1>1. {} \in P
  BY SumFirst, FS_EmptySet
<1>2. ASSUME NEW S \in SUBSET D, S # {}, \A x \in S : S \ {x} \in P
      PROVE  S \in P
  <2>1. IsFiniteSet(S) /\ \A x \in S : f[x] \in Int
    BY FS_Subset
  <2>2. PICK x \in S : TRUE
    BY <1>2
  <2>3. SumFunctionOnSet(f, S) = f[x] + SumFunctionOnSet(f, S \ {x})
    BY <2>1, SumTake
  <2> QED
    BY <1>2, <2>3
<1> HIDE DEF P
<1>3. SUBSET D \subseteq P
  BY <1>1, <1>2, AllSubsets
<1> QED
  BY <1>3 DEF P

(* It is zero only if each of them is.                                     *)
LEMMA SumZero ==
  ASSUME NEW f, NEW D, IsFiniteSet(D), \A x \in D : f[x] \in Nat,
         SumFunctionOnSet(f, D) = 0, NEW y \in D
  PROVE  f[y] = 0
<1>1. SumFunctionOnSet(f, D) = f[y] + SumFunctionOnSet(f, D \ {y})
  BY SumTake
<1>2. IsFiniteSet(D \ {y})
  BY FS_Subset
<1>3. SumFunctionOnSet(f, D \ {y}) \in Nat
  BY <1>2, SumNotNegative
<1> QED
  BY <1>1, <1>3

(* Only the values of the elements matter.                                 *)
LEMMA SumOfSame ==
  ASSUME NEW f, NEW g, NEW D, IsFiniteSet(D), \A x \in D : f[x] \in Int /\ g[x] = f[x]
  PROVE  SumFunctionOnSet(g, D) = SumFunctionOnSet(f, D)
<1> DEFINE P == {S \in SUBSET D : SumFunctionOnSet(g, S) = SumFunctionOnSet(f, S)}
<1>1. {} \in P
  <2>1. \A h : SumFunctionOnSet(h, {}) = 0
    BY SumFirst, FS_EmptySet
  <2> QED
    BY <2>1
<1>2. ASSUME NEW S \in SUBSET D, S # {}, \A x \in S : S \ {x} \in P
      PROVE  S \in P
  <2>1. IsFiniteSet(S) /\ (\A x \in S : f[x] \in Int) /\ (\A x \in S : g[x] \in Int)
    BY FS_Subset
  <2>2. PICK x \in S : TRUE
    BY <1>2
  <2>3. SumFunctionOnSet(f, S) = f[x] + SumFunctionOnSet(f, S \ {x})
    BY <2>1, SumTake
  <2>4. SumFunctionOnSet(g, S) = g[x] + SumFunctionOnSet(g, S \ {x})
    BY <2>1, SumTake
  <2> QED
    BY <1>2, <2>3, <2>4
<1> HIDE DEF P
<1>3. SUBSET D \subseteq P
  BY <1>1, <1>2, AllSubsets
<1> QED
  BY <1>3 DEF P

(* The sum over a set is that over a part of it and that over the rest.    *)
LEMMA SumOfParts ==
  ASSUME NEW f, NEW D, IsFiniteSet(D), \A x \in D : f[x] \in Int, NEW T \in SUBSET D
  PROVE  SumFunctionOnSet(f, D) = SumFunctionOnSet(f, T) + SumFunctionOnSet(f, D \ T)
<1> DEFINE Sum(S) == SumFunctionOnSet(f, S)
<1> DEFINE P == {S \in SUBSET D : Sum(D) = Sum(S) + Sum(D \ S)}
<1>1. ASSUME NEW S \in SUBSET D
      PROVE  /\ Sum(S) \in Int
             /\ \A x \in S : Sum(S) = f[x] + Sum(S \ {x})
  <2>1. IsFiniteSet(S) /\ \A x \in S : f[x] \in Int
    BY FS_Subset
  <2> QED
    BY <2>1, SumFirst, SumTake
<1>2. Sum({}) = 0
  BY SumFirst, FS_EmptySet
<1> HIDE DEF Sum
<1>3. {} \in P
  <2>1. D \ {} = D
    OBVIOUS
  <2> QED
    BY <1>1, <1>2, <2>1
<1>4. ASSUME NEW S \in SUBSET D, S # {}, \A x \in S : S \ {x} \in P
      PROVE  S \in P
  <2>1. PICK x \in S : TRUE
    BY <1>4
  <2>2. Sum(D) = Sum(S \ {x}) + Sum(D \ (S \ {x}))
    BY <1>4
  <2>3. x \in D \ (S \ {x}) /\ (D \ (S \ {x})) \ {x} = D \ S
    OBVIOUS
  <2>4. Sum(D \ (S \ {x})) = f[x] + Sum(D \ S)
    BY <1>1, <2>3
  <2>5. Sum(S) = f[x] + Sum(S \ {x})
    BY <1>1
  <2>6. f[x] \in Int /\ Sum(S \ {x}) \in Int /\ Sum(D \ S) \in Int
    BY <1>1
  <2> QED
    BY <2>2, <2>4, <2>5, <2>6
<1> HIDE DEF P
<1>5. SUBSET D \subseteq P
  BY <1>3, <1>4, AllSubsets
<1>6. Sum(D) = Sum(T) + Sum(D \ T)
  BY <1>5 DEF P
<1> QED
  BY <1>6 DEF Sum
=============================================================================
