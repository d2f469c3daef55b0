-------------------------- MODULE MCRequestHandling --------------------------
(* Finite instances of RequestHandling for TLC. *)
EXTENDS RequestHandling, TLC

CONSTANTS c1, c2, c3

MCClients == {c1, c2, c3}
TwoClients == {c1, c2}
MCSymmetry == Permutations(MCClients)
==============================================================================
