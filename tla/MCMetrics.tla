------------------------------ MODULE MCMetrics ------------------------------
(***************************************************************************)
(* A small instance of Metrics.                                            *)
(***************************************************************************)
EXTENDS Metrics, TLC

CONSTANTS r1, r2, r3

Symmetry == Permutations(Reqs)
=============================================================================
