------------------------------ MODULE MCAvatars ------------------------------
(***************************************************************************)
(* Small instances of Avatars.                                             *)
(***************************************************************************)
EXTENDS Avatars, TLC

CONSTANTS u1, u2, f1, f2, f3, f4, r1, r2, r3

AllFaults == FaultKinds
NoFaults == {}

Symmetry == Permutations(Users) \cup Permutations(Files) \cup Permutations(Reqs)
=============================================================================
