------------------------------- MODULE PipairD -------------------------------
(***************************************************************************)
(* The part D program: pairs of callees are ordered and may repeat.  Its   *)
(* main() and printBug() are those of part A, with three differences: the  *)
(* callees seen so far are an ArrayList, a callee printed again is added   *)
(* again, and a bug that both orders of a pair tell of is printed once,    *)
(* with the help of the list visit.                                        *)
(***************************************************************************)
EXTENDS OrderedPairs, CallGraphText, SequencesExt

CONSTANT MaxCalls   \* bound: how many calls opt prints for one function

ASSUME MaxCallsAssumption == MaxCalls \in Nat

VARIABLES
  location,       \* the callers of each key; {} stands for an absent key
  scan,           \* main: "outer" loop, "inner" loop or "closed"
  caller,         \* main: caller_m.group(1)
  nearByCallees,  \* the callees of the caller read so far, in order
  print,          \* "idle", loop "single", loop "pair", loop "location", "done"
  singleKeys,     \* what is left of the outer loop
  singleKey,      \* singleKeyStr (NoNode outside the loop)
  pipairKeys,     \* what is left of the middle loop
  pipairKey,      \* the current pair (<<>> outside the loop)
  locationTemp,   \* what is left of the inner loop
  visit,          \* the bugs that were printed with two pairs
  out,            \* the lines printed, as a set
  lines           \* the number of lines printed

scanVars  == <<location, scan, caller, nearByCallees>>
printVars == <<print, singleKeys, singleKey, pipairKeys, pipairKey,
               locationTemp, visit, out, lines>>
vars == <<optVars, scanVars, printVars>>

keySet == {K \in Key : location[K] # {}}

Init ==
  /\ OptInit
  /\ location = [K \in Key |-> {}]
  /\ scan = "outer" /\ caller = NoNode /\ nearByCallees = <<>>
  /\ print = "idle"
  /\ singleKeys = {} /\ singleKey = NoNode
  /\ pipairKeys = {} /\ pipairKey = <<>>
  /\ locationTemp = {}
  /\ visit = {} /\ out = {} /\ lines = 0

-----------------------------------------------------------------------------
(* main: reading the call graph. *)

(* opt prints l, the next call of its node when it is a call.              *)
OptPrints(l) ==
  LET made == Cardinality({s \in calls : s[1] = node})
  IN  /\ l.kind = "call" => made < MaxCalls
      /\ OptText(l, <<made + 1, l.name>>)

SkipLine(l) ==
  /\ scan = "outer"
  /\ OptPrints(l)
  /\ ~ MatchesCaller(l)
  /\ UNCHANGED scanVars

EnterCaller(l) ==
  /\ scan = "outer"
  /\ OptPrints(l)
  /\ MatchesCaller(l)
  /\ scan' = "inner"
  /\ caller' = l.name
  /\ nearByCallees' = <<>>
  /\ UNCHANGED location

(* Seeded fault: a callee is not paired with an earlier call of itself.    *)
addValueToMapDistinct(addValue, addLocation) ==
  [K \in Key |->
     IF K = <<addValue>>
        \/ \E key \in ToSet(nearByCallees) \ {addValue} : K = <<key, addValue>>
     THEN location[K] \cup {addLocation}
     ELSE location[K]]

addValueToMap(addValue, addLocation) ==
  [K \in Key |->
     IF K = <<addValue>> \/ \E key \in ToSet(nearByCallees) : K = <<key, addValue>>
     THEN location[K] \cup {addLocation}
     ELSE location[K]]

AddCallee(l) ==
  /\ scan = "inner"
  /\ OptPrints(l)
  /\ MatchesCallee(l)
  /\ location' = addValueToMap(l.name, caller)
  /\ nearByCallees' = Append(nearByCallees, l.name)
  /\ UNCHANGED <<scan, caller>>

IgnoreLine(l) ==
  /\ scan = "inner"
  /\ OptPrints(l)
  /\ l.kind # "blank"
  /\ ~ MatchesCallee(l)
  /\ UNCHANGED scanVars

LeaveCaller(l) ==
  /\ scan = "inner"
  /\ OptPrints(l)
  /\ l.kind = "blank"
  /\ scan' = "outer"
  /\ UNCHANGED <<location, caller, nearByCallees>>

EndOfInput ==
  /\ scan # "closed"
  /\ scan' = "closed"
  /\ UNCHANGED <<optVars, location, caller, nearByCallees>>

Scan ==
  /\ \/ \E l \in Line :
          SkipLine(l) \/ EnterCaller(l) \/ AddCallee(l) \/ IgnoreLine(l) \/ LeaveCaller(l)
     \/ EndOfInput
  /\ UNCHANGED printVars

-----------------------------------------------------------------------------
(* printBug. *)

supportOf(K) == Cardinality(location[K])

(* The test on support and confidence, of the pair and of its reverse.     *)
MeetsThresholds(a, p) ==
  /\ supportOf(<<a>>) >= Support
  /\ supportOf(p) >= Support
  /\ supportOf(p) < supportOf(<<a>>)
  /\ 100 * supportOf(p) >= Confidence * supportOf(<<a>>)

StartPrintBug ==
  /\ scan = "closed"
  /\ print = "idle"
  /\ print' = "single"
  /\ singleKeys' = {a \in Fun : <<a>> \in keySet}
  /\ UNCHANGED <<singleKey, pipairKeys, pipairKey, locationTemp, visit, out, lines>>

TakeSingle(a) ==
  /\ print = "single"
  /\ a \in singleKeys
  /\ print' = "pair"
  /\ singleKeys' = singleKeys \ {a}
  /\ singleKey' = a
  /\ pipairKeys' = {p \in Pair \cap keySet : a \in {p[1], p[2]}}
  /\ UNCHANGED <<pipairKey, locationTemp, visit, out, lines>>

SkipPair(p) ==
  /\ print = "pair"
  /\ p \in pipairKeys
  /\ ~ MeetsThresholds(singleKey, p)
  /\ pipairKeys' = pipairKeys \ {p}
  /\ UNCHANGED <<print, singleKeys, singleKey, pipairKey, locationTemp, visit, out, lines>>

TakePair(p) ==
  /\ print = "pair"
  /\ p \in pipairKeys
  /\ MeetsThresholds(singleKey, p)
  /\ print' = "location"
  /\ pipairKeys' = pipairKeys \ {p}
  /\ pipairKey' = p
  /\ locationTemp' = location[<<singleKey>>] \ location[p]
  /\ UNCHANGED <<singleKeys, singleKey, visit, out, lines>>

(* Seeded fault: the scope is not looked for among those without pipairKey2.*)
ReverseTellsAnywhere(c) ==
  /\ pipairKey[1] # pipairKey[2]
  /\ location[reverse(pipairKey)] # {}
  /\ MeetsThresholds(singleKey, reverse(pipairKey))

(* pipairKey2, the pair in reverse order, makes a bug of the scope c too.  *)
ReverseTells(c) ==
  /\ pipairKey[1] # pipairKey[2]
  /\ location[reverse(pipairKey)] # {}
  /\ MeetsThresholds(singleKey, reverse(pipairKey))
  /\ c \in location[<<singleKey>>] \ location[reverse(pipairKey)]

PrintTexts(c, pairs) ==
  /\ out' = out \cup {OrderedBugLine(singleKey, c,
               {PairText(p, supportOf(p), supportOf(<<singleKey>>)) : p \in pairs})}
  /\ lines' = lines + 1

(* Seeded fault: what is looked up in visit is never found.                *)
PrintBothTwice(c) ==
  /\ print = "location"
  /\ c \in locationTemp
  /\ ReverseTells(c)
  /\ PrintTexts(c, {pipairKey, reverse(pipairKey)})
  /\ visit' = visit \cup {<<singleKey, pipairKey, c>>}
  /\ locationTemp' = locationTemp \ {c}
  /\ UNCHANGED <<print, singleKeys, singleKey, pipairKeys, pipairKey>>

PrintBoth(c) ==
  /\ print = "location"
  /\ c \in locationTemp
  /\ ReverseTells(c)
  /\ IF <<singleKey, reverse(pipairKey), c>> \in visit
     THEN UNCHANGED <<visit, out, lines>>
     ELSE /\ PrintTexts(c, {pipairKey, reverse(pipairKey)})
          /\ visit' = visit \cup {<<singleKey, pipairKey, c>>}
  /\ locationTemp' = locationTemp \ {c}
  /\ UNCHANGED <<print, singleKeys, singleKey, pipairKeys, pipairKey>>

PrintOther(c) ==
  /\ print = "location"
  /\ c \in locationTemp
  /\ ~ ReverseTells(c)
  /\ PrintTexts(c, {pipairKey})
  /\ locationTemp' = locationTemp \ {c}
  /\ UNCHANGED <<print, singleKeys, singleKey, pipairKeys, pipairKey, visit>>

LeaveLocations ==
  /\ print = "location"
  /\ locationTemp = {}
  /\ print' = "pair"
  /\ pipairKey' = <<>>
  /\ UNCHANGED <<singleKeys, singleKey, pipairKeys, locationTemp, visit, out, lines>>

LeavePairs ==
  /\ print = "pair"
  /\ pipairKeys = {}
  /\ print' = "single"
  /\ singleKey' = NoNode
  /\ UNCHANGED <<singleKeys, pipairKeys, pipairKey, locationTemp, visit, out, lines>>

EndPrintBug ==
  /\ print = "single"
  /\ singleKeys = {}
  /\ print' = "done"
  /\ UNCHANGED <<singleKeys, singleKey, pipairKeys, pipairKey, locationTemp, visit, out, lines>>

PrintStep ==
  /\ \/ StartPrintBug
     \/ \E a \in Fun : TakeSingle(a) \/ PrintBoth(a) \/ PrintOther(a)
     \/ \E p \in Pair : SkipPair(p) \/ TakePair(p)
     \/ LeaveLocations \/ LeavePairs \/ EndPrintBug
  /\ UNCHANGED <<optVars, scanVars>>

Ended == print = "done" /\ UNCHANGED vars

Next == Scan \/ PrintStep \/ Ended

Spec == Init /\ [][Next]_vars

-----------------------------------------------------------------------------
TypeOK ==
  /\ location \in [Key -> SUBSET Fun]
  /\ scan \in {"outer", "inner", "closed"}
  /\ caller \in Fun \cup {NoNode}
  /\ nearByCallees \in Seq(Fun)
  /\ print \in {"idle", "single", "pair", "location", "done"}
  /\ singleKeys \subseteq Fun
  /\ singleKey \in Fun \cup {NoNode}
  /\ pipairKeys \subseteq Pair
  /\ pipairKey \in Pair \cup {<<>>}
  /\ locationTemp \subseteq Fun
  /\ visit \subseteq Fun \X Pair \X Fun
  /\ lines \in Nat

(***************************************************************************)
(* README of part D: [A,B] is told from [B,A], and [A,A] is kept.  At any  *)
(* moment each key is mapped to the callers that make its calls in this    *)
(* order in the text opt printed, repeated calls and other calls in        *)
(* between included.                                                       *)
(***************************************************************************)
LocationExact == \A K \in Key : location[K] = HoldersOf(calls, K)

(***************************************************************************)
(* printBug at its end: every bug of either order of a pair is in exactly  *)
(* one line, and a line names the second pair just when the scope lacks it *)
(* too and it meets the thresholds, whichever of the two came first.       *)
(***************************************************************************)
ReportExact == print = "done" => out = OrderedBugs(calls)

(***************************************************************************)
(* The abstract report is implemented: the list visit keeps a bug told by  *)
(* both orders from being printed twice, and drops no other bug.           *)
(***************************************************************************)
phase == IF print = "idle" THEN "collect"
         ELSE IF print = "done" THEN "done" ELSE "report"

Site == (1 .. MaxCalls) \X Fun

Report == INSTANCE BugReport WITH Fun <- Fun \cup Site, Bugs <- OrderedBugs

ImplementsReport == Report!Spec
=============================================================================
