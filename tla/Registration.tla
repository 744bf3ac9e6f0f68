----------------------------- MODULE Registration -----------------------------
(***************************************************************************)
(* What signing up promises to those who own mailboxes, without requests,  *)
(* statements, tables of tokens or failures.  An address gets one account, *)
(* whose password never changes here; at most once is somebody told that   *)
(* the account is his, and it is the one who chose its password; a link is *)
(* mailed to one address only; and an address is verified, once and for    *)
(* ever, only after its owner has followed a link that was mailed to it.   *)
(***************************************************************************)
CONSTANTS Emails, Passwords, Links, NoPw

VARIABLES
  password, \* the password of an account, NoPw where there is none
  verified, \* the addresses that are verified
  inbox,    \* the links that were mailed to an address
  followed, \* the addresses a link of which was followed
  welcomed  \* the passwords of those who were told that they have the account

vars == <<password, verified, inbox, followed, welcomed>>

Init ==
  /\ password = [e \in Emails |-> NoPw]
  /\ verified = {} /\ followed = {}
  /\ inbox = [e \in Emails |-> {}]
  /\ welcomed = [e \in Emails |-> {}]

SignUp(e, p) ==
  /\ password[e] = NoPw
  /\ password' = [password EXCEPT ![e] = p]
  /\ UNCHANGED <<verified, inbox, followed, welcomed>>

\* The mail may be lost.
Mailed(e) ==
  \/ UNCHANGED inbox
  \/ \E k \in Links :
       /\ \A f \in Emails : k \notin inbox[f]
       /\ inbox' = [inbox EXCEPT ![e] = @ \cup {k}]

Invite(e) ==
  /\ password[e] # NoPw
  /\ Mailed(e)
  /\ UNCHANGED <<password, verified, followed, welcomed>>

Welcome(e) ==
  /\ password[e] # NoPw /\ welcomed[e] = {}
  /\ Mailed(e)
  /\ welcomed' = [welcomed EXCEPT ![e] = {password[e]}]
  /\ UNCHANGED <<password, verified, followed>>

Follow(e) ==
  /\ inbox[e] # {}
  /\ followed' = followed \cup {e}
  /\ UNCHANGED <<password, verified, inbox, welcomed>>

Confirm(e) ==
  /\ password[e] # NoPw /\ e \in followed
  /\ verified' = verified \cup {e}
  /\ UNCHANGED <<password, inbox, followed, welcomed>>

Next ==
  \E e \in Emails :
    \/ \E p \in Passwords : SignUp(e, p)
    \/ Invite(e) \/ Welcome(e) \/ Follow(e) \/ Confirm(e)

Spec == Init /\ [][Next]_vars
=============================================================================
