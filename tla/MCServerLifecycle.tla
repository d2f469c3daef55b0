-------------------------- MODULE MCServerLifecycle --------------------------
(* A finite instance of ServerLifecycle for TLC. *)
EXTENDS ServerLifecycle

CONSTANTS c1, c2, c3, w1, w2

MCClients == {c1, c2, c3}
MCWorkers == {w1, w2}
==============================================================================
