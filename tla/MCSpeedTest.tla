---------------------------- MODULE MCSpeedTest -----------------------------
(***************************************************************************)
(* Two tabs and two requests: an aborted request still runs on the server  *)
(* while its own tab, or the other one, sends the next.  Two stages tell a *)
(* measurement that ends after its last one from one cut short.            *)
(***************************************************************************)
EXTENDS SpeedTest, TLC

Symmetry == Permutations(Tabs) \cup Permutations(Hosts) \cup Permutations(Requests)
=============================================================================
