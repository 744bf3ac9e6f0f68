--------------------------- MODULE SessionFamilies ---------------------------
(***************************************************************************)
(* What the sessions of the auth service promise, without statements,      *)
(* locks, requests or failures.  A login founds a family of refresh        *)
(* tokens, named by its first token; a refresh replaces the head of the    *)
(* family by a new token; logout, ban and password reset end families of   *)
(* one user.  A family has one head or is over, no token is used twice,    *)
(* and a family that is over stays over.                                   *)
(***************************************************************************)
CONSTANTS Tokens, Users, NoUser

VARIABLES
  used,   \* tokens that have been given to somebody
  owner,  \* whose family it is, by its first token
  head    \* the tokens a family can be continued with: one, or none when it is over

vars == <<used, owner, head>>

Init ==
  /\ used = {}
  /\ owner = [f \in Tokens |-> NoUser]
  /\ head = [f \in Tokens |-> {}]

Found(u, t) ==
  /\ t \notin used
  /\ used' = used \cup {t}
  /\ owner' = [owner EXCEPT ![t] = u]
  /\ head' = [head EXCEPT ![t] = {t}]

Renew(f, t) ==
  /\ head[f] # {} /\ t \notin used
  /\ used' = used \cup {t}
  /\ head' = [head EXCEPT ![f] = {t}]
  /\ UNCHANGED owner

\* Not always all families of u: a revocation may fail, or miss one that is
\* renewed or founded while it runs.
End(u, families) ==
  /\ \A f \in families : owner[f] = u
  /\ head' = [f \in Tokens |-> IF f \in families THEN {} ELSE head[f]]
  /\ UNCHANGED <<used, owner>>

Next ==
  \/ \E u \in Users, t \in Tokens : Found(u, t)
  \/ \E f, t \in Tokens : Renew(f, t)
  \/ \E u \in Users, families \in SUBSET Tokens : End(u, families)

Spec == Init /\ [][Next]_vars
=============================================================================
