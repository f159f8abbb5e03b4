--------------------------- MODULE MCProxyTunnel ---------------------------
(***************************************************************************)
(* Calls with every protocol; a window and a limit that both run out.      *)
(***************************************************************************)
EXTENDS ProxyTunnel
=============================================================================
