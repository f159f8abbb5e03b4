--------------------------- MODULE MCHealthChecks ---------------------------
(***************************************************************************)
(* A configured host and one that the administrator lists; two names and a *)
(* cache for one of them; two checks that overlap.                         *)
(***************************************************************************)
EXTENDS HealthChecks, TLC

Symmetry == Permutations(Checks) \cup Permutations(Names) \cup Permutations(Messages)
=============================================================================
