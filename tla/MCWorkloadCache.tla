--------------------------- MODULE MCWorkloadCache ---------------------------
(* Finite instances of WorkloadCache for TLC. *)
EXTENDS WorkloadCache, TLC

CONSTANTS k1, k2, k3

MCKeys == {k1, k2, k3}
MCSymmetry == Permutations(MCKeys)
==============================================================================
