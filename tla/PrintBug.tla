------------------------------ MODULE PrintBug -------------------------------
(***************************************************************************)
(* printBug(support, confidence): three nested loops over the map location *)
(* that print the bug lines.  The loops iterate over HashMap and HashSet   *)
(* views, whose order is that of the hash codes: each iteration takes any  *)
(* element that is left.                                                   *)
(***************************************************************************)
EXTENDS Location

VARIABLES
  print,          \* "idle", loop "single", loop "pair", loop "location", "done"
  singleKeys,     \* what is left of the outer loop over location.keySet()
  singleKey,      \* the callee of the current single key (NoNode outside the loop)
  pipairKeys,     \* what is left of the middle loop: the other function of the pair
  pipairKey,      \* the other function of the current pair (NoNode outside the loop)
  locationTemp,   \* what is left of the inner loop
  out,            \* the lines printed, as a set
  lines           \* the number of lines printed

printVars == <<print, singleKeys, singleKey, pipairKeys, pipairKey,
               locationTemp, out, lines>>

supportOf(K) == Cardinality(location[K])

(* Seeded fault: supportPair>support.                                      *)
MeetsThresholdsStrict(a, b) ==
  /\ supportOf({a, b}) > Support
  /\ supportOf({a, b}) < supportOf({a})
  /\ 100 * supportOf({a, b}) >= Confidence * supportOf({a})

(***************************************************************************)
(* The test on support and confidence.  The program compares the double    *)
(* supportPair/supportKey with confidence/100; division rounds correctly   *)
(* and monotonically, so for counts below 10^13 and a whole percentage     *)
(* this is the comparison of the two fractions.                            *)
(***************************************************************************)
MeetsThresholds(a, b) ==
  LET supportKey  == supportOf({a})
      supportPair == supportOf({a, b})
  IN  /\ supportKey >= Support
      /\ supportPair >= Support
      /\ supportPair < supportKey
      /\ 100 * supportPair >= Confidence * supportKey

PrintInit ==
  /\ print = "idle"
  /\ singleKeys = {}
  /\ singleKey = NoNode
  /\ pipairKeys = {}
  /\ pipairKey = NoNode
  /\ locationTemp = {}
  /\ out = {}
  /\ lines = 0

StartPrintBug ==
  /\ print = "idle"
  /\ print' = "single"
  /\ singleKeys' = {a \in Fun : {a} \in keySet}
  /\ UNCHANGED <<singleKey, pipairKeys, pipairKey, locationTemp, out, lines>>

TakeSingle(a) ==
  /\ print = "single"
  /\ a \in singleKeys
  /\ print' = "pair"
  /\ singleKeys' = singleKeys \ {a}
  /\ singleKey' = a
  /\ pipairKeys' = {b \in Fun \ {a} : {a, b} \in keySet}
  /\ UNCHANGED <<pipairKey, locationTemp, out, lines>>

SkipPair(b) ==
  /\ print = "pair"
  /\ b \in pipairKeys
  /\ ~ MeetsThresholds(singleKey, b)
  /\ pipairKeys' = pipairKeys \ {b}
  /\ UNCHANGED <<print, singleKeys, singleKey, pipairKey, locationTemp, out, lines>>

(* Seeded fault: no locationTemp.removeAll().                              *)
TakePairAll(b) ==
  /\ print = "pair"
  /\ b \in pipairKeys
  /\ MeetsThresholds(singleKey, b)
  /\ print' = "location"
  /\ pipairKeys' = pipairKeys \ {b}
  /\ pipairKey' = b
  /\ locationTemp' = location[{singleKey}]
  /\ UNCHANGED <<singleKeys, singleKey, out, lines>>

TakePair(b) ==
  /\ print = "pair"
  /\ b \in pipairKeys
  /\ MeetsThresholds(singleKey, b)
  /\ print' = "location"
  /\ pipairKeys' = pipairKeys \ {b}
  /\ pipairKey' = b
  /\ locationTemp' = location[{singleKey}] \ location[{singleKey, b}]
  /\ UNCHANGED <<singleKeys, singleKey, out, lines>>

PrintLine(c) ==
  /\ print = "location"
  /\ c \in locationTemp
  /\ locationTemp' = locationTemp \ {c}
  /\ out' = out \cup {BugLine(singleKey, pipairKey, c,
                              supportOf({singleKey, pipairKey}),
                              supportOf({singleKey}))}
  /\ lines' = lines + 1
  /\ UNCHANGED <<print, singleKeys, singleKey, pipairKeys, pipairKey>>

LeaveLocations ==
  /\ print = "location"
  /\ locationTemp = {}
  /\ print' = "pair"
  /\ pipairKey' = NoNode
  /\ UNCHANGED <<singleKeys, singleKey, pipairKeys, locationTemp, out, lines>>

LeavePairs ==
  /\ print = "pair"
  /\ pipairKeys = {}
  /\ print' = "single"
  /\ singleKey' = NoNode
  /\ UNCHANGED <<singleKeys, pipairKeys, pipairKey, locationTemp, out, lines>>

EndPrintBug ==
  /\ print = "single"
  /\ singleKeys = {}
  /\ print' = "done"
  /\ UNCHANGED <<singleKeys, singleKey, pipairKeys, pipairKey, locationTemp, out, lines>>

PrintNext ==
  \/ \E a \in Fun : TakeSingle(a) \/ SkipPair(a) \/ TakePair(a) \/ PrintLine(a)
  \/ LeaveLocations
  \/ LeavePairs
  \/ EndPrintBug

PrintTypeOK ==
  /\ print \in {"idle", "single", "pair", "location", "done"}
  /\ singleKeys \in SUBSET Fun
  /\ singleKey \in Fun \cup {NoNode}
  /\ pipairKeys \in SUBSET Fun
  /\ pipairKey \in Fun \cup {NoNode}
  /\ locationTemp \in SUBSET Fun
  /\ lines \in Nat
=============================================================================
