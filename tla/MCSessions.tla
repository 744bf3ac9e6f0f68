----------------------------- MODULE MCSessions -----------------------------
(***************************************************************************)
(* Small instances of Sessions.  A scenario is a set of calls; a run       *)
(* combines one with the faults that may happen.                           *)
(***************************************************************************)
EXTENDS Sessions, TLC

CONSTANTS u1, u2, p1, p2, r1, r2, r3, t1, t2, t3, t4, k1, k2, s1, s2

\* A single account: an administrator (who may ban himself, as the code allows),
\* or one that may be banned already.
Person(role, banned, verified) == [pw |-> p1, role |-> role, banned |-> banned, verified |-> verified]
AnAdmin == {[u \in Users |-> Person("admin", FALSE, TRUE)]}
MaybeBanned == {[u \in Users |-> Person("admin", banned, TRUE)] : banned \in BOOLEAN}

CallsOf(ops) == ops \X Users
RotateAndLogout == CallsOf({"login", "refresh", "logout"})
RotateAndAdmin == CallsOf({"login", "refresh", "ban", "role"})
LoginAndReset == CallsOf({"login", "forgot", "confirm"})
ResetAndUnban == CallsOf({"login", "forgot", "confirm", "unban"})
RefreshOnly == CallsOf({"login", "refresh"})
ResetOnly == CallsOf({"forgot", "confirm"})

NoFaults == {}
AllFaults == FaultKinds
StatementFaults == {"failed", "unsure"}

Symmetry == Permutations(Reqs) \cup Permutations(Tokens) \cup Permutations(Salts) \cup Permutations(Links)
=============================================================================
