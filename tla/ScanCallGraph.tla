---------------------------- MODULE ScanCallGraph ----------------------------
(***************************************************************************)
(* main() of pipair up to scanner.close(): the loops that read what        *)
(* `opt -print-callgraph` prints and fill the map location.                *)
(***************************************************************************)
EXTENDS Location, CallGraphText

VARIABLES
  scan,           \* main: "outer" loop, "inner" loop or "closed"
  caller,         \* main: caller_m.group(1)
  nearByCallees   \* the callees of the caller seen so far

scanVars == <<scan, caller, nearByCallees, location>>

(* The call graph learnt from opt is a set of pairs <<caller, callee>>.    *)
OptPrints(l) == OptText(l, l.name)

(***************************************************************************)
(* addValueToMap(addValue, addLocation): the value of location after it.   *)
(***************************************************************************)
addValueToMap(addValue, addLocation) ==
  IF addValue \in nearByCallees
  THEN location
  ELSE [K \in Keys |->
          IF K = {addValue} \/ \E key \in nearByCallees : K = {addValue, key}
          THEN location[K] \cup {addLocation}
          ELSE location[K]]

(***************************************************************************)
(* The outer loop: lines up to the next caller are dropped.                *)
(***************************************************************************)
SkipLine(l) ==
  /\ scan = "outer"
  /\ OptPrints(l)
  /\ ~ MatchesCaller(l)
  /\ UNCHANGED scanVars

(* Seeded fault: no nearByCallees.clear().                                 *)
EnterCallerNoClear(l) ==
  /\ scan = "outer"
  /\ OptPrints(l)
  /\ MatchesCaller(l)
  /\ scan' = "inner"
  /\ caller' = l.name
  /\ UNCHANGED <<location, nearByCallees>>

EnterCaller(l) ==
  /\ scan = "outer"
  /\ OptPrints(l)
  /\ MatchesCaller(l)
  /\ scan' = "inner"
  /\ caller' = l.name
  /\ nearByCallees' = {}
  /\ UNCHANGED location

(***************************************************************************)
(* The inner loop: the callees of one caller, up to an empty line.         *)
(***************************************************************************)
AddCallee(l) ==
  /\ scan = "inner"
  /\ OptPrints(l)
  /\ MatchesCallee(l)
  /\ location' = addValueToMap(l.name, caller)
  /\ nearByCallees' = nearByCallees \cup {l.name}
  /\ UNCHANGED <<scan, caller>>

IgnoreLine(l) ==
  /\ scan = "inner"
  /\ OptPrints(l)
  /\ l.kind # "blank"
  /\ ~ MatchesCallee(l)
  /\ UNCHANGED scanVars

LeaveCaller(l) ==
  /\ scan = "inner"
  /\ OptPrints(l)
  /\ l.kind = "blank"
  /\ scan' = "outer"
  /\ UNCHANGED <<caller, nearByCallees, location>>

(***************************************************************************)
(* hasNext() is false: both loops end and the scanner is closed.  hasNext()*)
(* looks for a token, so empty lines at the very end are never read; that  *)
(* is the end of the input in front of them.                               *)
(***************************************************************************)
EndOfInput ==
  /\ scan # "closed"
  /\ scan' = "closed"
  /\ UNCHANGED <<caller, nearByCallees, location>>
  /\ UNCHANGED optVars

ScanInit ==
  /\ OptInit
  /\ scan = "outer"
  /\ caller = NoNode
  /\ nearByCallees = {}
  /\ location = [K \in Keys |-> {}]

ReadLine ==
  \E l \in Line :
    SkipLine(l) \/ EnterCaller(l) \/ AddCallee(l) \/ IgnoreLine(l) \/ LeaveCaller(l)

ScanNext == ReadLine \/ EndOfInput

ScanTypeOK ==
  /\ unprinted \in SUBSET (Fun \cup {NullNode})
  /\ node \in Fun \cup {NullNode, NoNode}
  /\ calls \in SUBSET (Fun \X Fun)
  /\ scan \in {"outer", "inner", "closed"}
  /\ caller \in Fun \cup {NoNode}
  /\ nearByCallees \in SUBSET Fun
  /\ location \in [Keys -> SUBSET Fun]

(***************************************************************************)
(* Whatever was read so far, and wherever opt stopped, location maps each  *)
(* callee and each pair of callees to exactly the callers that call them   *)
(* in the call graph opt printed: a callee printed twice, a node without   *)
(* callees, the calls of <<null function>> and a node cut short included.  *)
(***************************************************************************)
LocationExact == \A K \in Keys : location[K] = CallersOf(calls, K)
=============================================================================
