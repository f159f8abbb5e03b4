----------------------------- MODULE MCBanStore -----------------------------
(***************************************************************************)
(* Two addresses, limits of two or three failures, a window and a ban      *)
(* short enough to end within the clock's range.  The addresses are not    *)
(* symmetric here: symmetry is not sound for the cleanup, which is a       *)
(* liveness property.                                                      *)
(***************************************************************************)
EXTENDS BanStore
=============================================================================
