----------------------------- MODULE MCLifecycle -----------------------------
(***************************************************************************)
(* Small instances of Lifecycle: a pool smaller than the set of requests,  *)
(* so that requests wait for connections when it closes.                   *)
(***************************************************************************)
EXTENDS Lifecycle, TLC

CONSTANTS r1, r2, r3

Symmetry == Permutations(Reqs)
=============================================================================
