----------------------------- MODULE MCAccounts -----------------------------
(***************************************************************************)
(* Small instances of Accounts.                                            *)
(***************************************************************************)
EXTENDS Accounts, TLC

CONSTANTS e1, e2, p1, p2, k1, k2, k3, r1, r2, r3

AllFaults == FaultKinds
NoFaults == {}

Symmetry == Permutations(Emails) \cup Permutations(Passwords)
            \cup Permutations(Links) \cup Permutations(Reqs)
=============================================================================
