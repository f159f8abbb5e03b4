-------------------------- MODULE MCTelegramProbe ---------------------------
(***************************************************************************)
(* The five data centres and three transports of the program; an answer    *)
(* comes in two pieces.                                                    *)
(***************************************************************************)
EXTENDS TelegramProbe
=============================================================================
