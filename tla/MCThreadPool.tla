---------------------------- MODULE MCThreadPool -----------------------------
(* A finite instance of ThreadPool for TLC. *)
EXTENDS ThreadPool, TLC

CONSTANTS w1, w2, w3, p1, p2, j1, j2, j3

MCWorkers == {w1, w2, w3}
MCProducers == {p1, p2}
MCJobs == {j1, j2, j3}
MCThrowing == {j3}
==============================================================================
