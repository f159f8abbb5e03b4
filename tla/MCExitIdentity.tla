--------------------------- MODULE MCExitIdentity ---------------------------
(***************************************************************************)
(* Two proxies with two exits between them and two requests at once: a     *)
(* check and a reputation, or a late reputation and a new one.             *)
(***************************************************************************)
EXTENDS ExitIdentity, TLC

Symmetry == Permutations(Hosts) \cup Permutations(Addresses) \cup Permutations(Requests)
=============================================================================
