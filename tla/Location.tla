------------------------------ MODULE Location -------------------------------
(***************************************************************************)
(* The table every version of pipair is built around:                      *)
(*   Map<Set<String>,Set<String>> location                                 *)
(* from a callee, SET(A), or a pair of callees, SET(A,B), to the set of    *)
(* their callers.  A key is put into the map together with its first       *)
(* caller and no caller is ever removed, so a key that is absent is        *)
(* modelled as one that is mapped to the empty set.                        *)
(***************************************************************************)
EXTENDS LikelyPairs

VARIABLE location

Keys == {{a, b} : a, b \in Fun}

keySet == {K \in Keys : location[K] # {}}
=============================================================================
