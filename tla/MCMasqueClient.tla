--------------------------- MODULE MCMasqueClient ---------------------------
(***************************************************************************)
(* Two requests without a body and an upload of four blocks: the answer    *)
(* comes before its first block, between two, or after the last.           *)
(***************************************************************************)
EXTENDS MasqueClient
=============================================================================
