-------------------------- MODULE MCSessionEvents --------------------------
(* SessionEvents for TLC: the clients are model values. *)
EXTENDS SessionEvents

CONSTANTS w1, r1
MCWatchers == {w1}
MCResumers == {r1}
NoClients == {}
=============================================================================
