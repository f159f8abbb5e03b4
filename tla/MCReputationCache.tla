------------------------- MODULE MCReputationCache --------------------------
(***************************************************************************)
(* Two callers of three keys and a cache of two: a load, a joiner and a    *)
(* canceller at once, and an eviction.                                     *)
(***************************************************************************)
EXTENDS ReputationCache, TLC

Symmetry == Permutations(Callers) \cup Permutations(Keys)
=============================================================================
