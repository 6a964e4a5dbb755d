----------------------------- MODULE MCMemCache -----------------------------
(* MemCache for TLC: requests, keys and objects have no identity that the  *)
(* actions could tell apart.                                               *)
EXTENDS MemCache, TLC

Interchangeable ==
  Permutations(Request) \cup Permutations(Url) \cup Permutations(Obj)
=============================================================================
