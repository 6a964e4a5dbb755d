------------------------------ MODULE MCPipairD ------------------------------
(***************************************************************************)
(* The part D program for TLC; the instance is in PipairD.cfg.  The names  *)
(* of the functions are interchangeable: the program only tells whether    *)
(* two of them are equal, and every loop visits its elements in any order. *)
(***************************************************************************)
EXTENDS PipairD

NamesInterchangeable == Permutations(Fun)
=============================================================================
