----------------------------- MODULE LikelyPairs -----------------------------
(***************************************************************************)
(* What pipair promises, stated on the call graph itself and not on the    *)
(* tables the program builds from it.  A call graph g is a set of pairs    *)
(* <<caller, callee>>.  Two functions that are called together in at least *)
(* Support callers, and in at least Confidence percent of the callers of   *)
(* one of them, are believed to belong together; every caller that calls   *)
(* that one without the other is reported as a bug.                        *)
(***************************************************************************)
EXTENDS Integers, FiniteSets

CONSTANTS
  Fun,         \* the functions of the analysed program
  NoNode,      \* stands for "no function"
  Support,     \* threshold on the number of callers  (args[1], default 3)
  Confidence   \* threshold in percent                (args[2], default 65)

ASSUME FunAssumption == IsFiniteSet(Fun)
ASSUME NoNodeAssumption == NoNode \notin Fun
ASSUME ThresholdAssumption == Support \in Int /\ Confidence \in Int

(* The callers that call every function of the set K.                      *)
CallersOf(g, K) == {c \in Fun : \A f \in K : <<c, f>> \in g}

(***************************************************************************)
(* String.format("%.2f", 100 * n / m) as a number of hundredths of a       *)
(* percent: Java rounds the decimal expansion half up.  Doubles agree with *)
(* this exact rounding for fewer than 160 callers; from there on a product *)
(* can fall just below a tie.                                              *)
(***************************************************************************)
FormatPercent(n, m) == (20000 * n + m) \div (2 * m)

(***************************************************************************)
(* A line of the report: "bug: a in c, pair: (a, b), support: n,           *)
(* confidence: n/m%".  The program prints the smaller name of the pair     *)
(* first, so the pair is printed the same whichever of the two is the bug: *)
(* it is modelled as a set.                                                *)
(***************************************************************************)
BugLine(a, b, c, n, m) ==
  [bug |-> a, scope |-> c, pair |-> {a, b},
   support |-> n, confidence |-> FormatPercent(n, m)]

(***************************************************************************)
(* a without its partner b in c is a bug in the call graph g.  That the    *)
(* pair is seen somewhere matters only for thresholds of zero or less.     *)
(***************************************************************************)
IsBug(g, a, b, c) ==
  LET both == CallersOf(g, {a, b})
      one  == CallersOf(g, {a})
  IN  /\ a # b
      /\ c \in one \ both
      /\ both # {}
      /\ Cardinality(both) >= Support
      /\ 100 * Cardinality(both) >= Confidence * Cardinality(one)

BugTriples(g) == {t \in Fun \X Fun \X Fun : IsBug(g, t[1], t[2], t[3])}

(* The report that the call graph g deserves.                              *)
Bugs(g) ==
  {BugLine(t[1], t[2], t[3], Cardinality(CallersOf(g, {t[1], t[2]})),
           Cardinality(CallersOf(g, {t[1]}))) : t \in BugTriples(g)}
=============================================================================
