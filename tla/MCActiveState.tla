--------------------------- MODULE MCActiveState ---------------------------
(***************************************************************************)
(* Instances of ActiveStateCache for TLC.                                  *)
(***************************************************************************)
EXTENDS ActiveStateCache, TLC

Interchangeable ==
  Permutations(Boards) \cup Permutations(Callers) \cup Permutations(Generations)
=============================================================================
