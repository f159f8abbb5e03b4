--------------------------- MODULE MCAccessControl --------------------------
(***************************************************************************)
(* Two browsers at one address and two requests in flight: while a logout  *)
(* or a restart ends a session, one more request carries its cookie.       *)
(***************************************************************************)
EXTENDS AccessControl, TLC

Symmetry == Permutations(Browsers) \cup Permutations(Sessions) \cup Permutations(Requests)
=============================================================================
