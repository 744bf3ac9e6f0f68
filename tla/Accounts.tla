------------------------------ MODULE Accounts ------------------------------
(***************************************************************************)
(* How an account comes to exist and to be verified: sign-up, the link it  *)
(* mails, a new link on demand, and the click on a link.  Every handler is *)
(* a sequence of statements that commit one by one; nothing is undone when *)
(* a later one fails, and the mail is the last step of both handlers.      *)
(*                                                                         *)
(* An account is named by its e-mail address: the column is CITEXT UNIQUE, *)
(* written and searched as LOWER($1), so two spellings are one address.    *)
(* What happens to an account afterwards (bans, password resets) is in     *)
(* Sessions.                                                               *)
(***************************************************************************)
EXTENDS Integers, FiniteSets

CONSTANTS
  Emails, Passwords,
  Links,    \* verification tokens that can be generated
  Reqs,     \* request goroutines that may run at the same time
  Faults,   \* what may go wrong: a subset of FaultKinds
  NoLink, NoEmail, NoPw

FaultKinds ==
  { "failed",   \* a statement fails and has no effect
    "unsure",   \* a statement takes effect and its caller gets an error
    "mail",     \* the SMTP server refuses a message
    "crash" }   \* the process dies

ASSUME AccountsAssumption ==
  /\ NoLink \notin Links /\ NoEmail \notin Emails /\ NoPw \notin Passwords
  /\ Faults \subseteq FaultKinds

VARIABLES
  password, \* table users: the password of an account, NoPw where there is none
  verified, \* table users: the accounts with email_verified
  verify,   \* table email_verify_tokens, by its unique key user_id
  issued,   \* tokens generated so far
  inbox,    \* the links that have reached a mailbox
  owed,     \* history: the newest link of an account, while unused and unexpired
  followed, \* history: the addresses of the links that clients have followed
  welcomed, \* history: the passwords of the sign-ups that were told of success, by address
  req       \* the local state of every request

linkVars == <<verify, issued, inbox, owed>>
vars == <<password, verified, verify, issued, inbox, owed, followed, welcomed, req>>

-----------------------------------------------------------------------------
Idle == [op |-> "none", pc |-> "idle", email |-> NoEmail, pw |-> NoPw, link |-> NoLink, status |-> 0]
Request == [op : {"none", "signup", "resend", "verify"},
            pc : {"idle", "insert", "read", "upsert", "mail", "update", "unlink", "done"},
            email : Emails \cup {NoEmail}, pw : Passwords \cup {NoPw}, link : Links \cup {NoLink},
            status : {0, 200, 400, 409, 500}]

Exists(e) == password[e] # NoPw
WriteOutcomes == {"ok"} \cup (Faults \cap {"failed", "unsure"})

At(r, ops, pc) == req[r].op \in ops /\ req[r].pc = pc
Goto(r, pc) == req' = [req EXCEPT ![r] = [@ EXCEPT !.pc = pc]]
Finish(r, status) == req' = [req EXCEPT ![r] = [[@ EXCEPT !.pc = "done"] EXCEPT !.status = status]]

-----------------------------------------------------------------------------
(* Sign-up; what the validation refuses changes nothing and is left out.  The  *)
(* token that a handler generates on its way is drawn when it starts.          *)

SignUpStart(r, e) ==
  /\ req[r] = Idle
  /\ \E p \in Passwords, k \in Links \ issued :
       /\ req' = [req EXCEPT ![r] = [Idle EXCEPT !.op = "signup", !.pc = "insert",
                                                 !.email = e, !.pw = p, !.link = k]]
       /\ issued' = issued \cup {k}
  /\ UNCHANGED <<password, verified, verify, inbox, owed, followed, welcomed>>

ConflictWithVerified(e) == e \in verified   \* mutant: an unverified account is replaced
\* The unique index on the address
Conflict(e) == Exists(e)

InsertedAnyhow(q, o) == [q EXCEPT !.pc = "upsert"]   \* mutant: the error is ignored
Inserted(q, o) == IF o = "ok" THEN [q EXCEPT !.pc = "upsert"]
                  ELSE [q EXCEPT !.pc = "done", !.status = 500]

\* CreateUser.  A statement of unknown outcome leaves the account behind.
SignUpInsert(r) ==
  /\ At(r, {"signup"}, "insert")
  /\ LET e == req[r].email
     IN \/ /\ Conflict(e)
           /\ Finish(r, 409)
           /\ UNCHANGED password
        \/ /\ ~Conflict(e)
           /\ \E o \in WriteOutcomes :
                /\ password' = IF o = "failed" THEN password ELSE [password EXCEPT ![e] = req[r].pw]
                /\ req' = [req EXCEPT ![r] = Inserted(@, o)]
        \/ /\ Conflict(e) /\ "failed" \in Faults
           /\ Finish(r, 500)
           /\ UNCHANGED password
  /\ UNCHANGED <<verified, linkVars, followed, welcomed>>

-----------------------------------------------------------------------------
(* A new link *)

ResendStart(r, e) ==
  /\ req[r] = Idle
  /\ \E k \in Links \ issued :
       /\ req' = [req EXCEPT ![r] = [Idle EXCEPT !.op = "resend", !.pc = "read", !.email = e, !.link = k]]
       /\ issued' = issued \cup {k}
  /\ UNCHANGED <<password, verified, verify, inbox, owed, followed, welcomed>>

\* GetByEmail: an error is answered like an unknown address.
ResendRead(r) ==
  /\ At(r, {"resend"}, "read")
  /\ \/ ~Exists(req[r].email) /\ Finish(r, 200)
     \/ Exists(req[r].email) /\ req[r].email \in verified /\ Finish(r, 400)
     \/ Exists(req[r].email) /\ req[r].email \notin verified /\ Goto(r, "upsert")
     \/ "failed" \in Faults /\ Finish(r, 200)
  /\ UNCHANGED <<password, verified, linkVars, followed, welcomed>>

-----------------------------------------------------------------------------
(* What both handlers end with *)

\* CreateVerifyToken: INSERT ... ON CONFLICT (user_id) DO UPDATE
UpsertLink(r) ==
  /\ At(r, {"signup", "resend"}, "upsert")
  /\ \E o \in WriteOutcomes :
       /\ IF o = "failed" THEN UNCHANGED <<verify, owed>>
          ELSE /\ verify' = [verify EXCEPT ![req[r].email] = req[r].link]
               /\ owed' = [owed EXCEPT ![req[r].email] = req[r].link]
       /\ IF o = "ok" THEN Goto(r, "mail") ELSE Finish(r, 500)
  /\ UNCHANGED <<password, verified, issued, inbox, followed, welcomed>>

\* SendVerificationEmail: an error is only logged.
MailLink(r) ==
  /\ At(r, {"signup", "resend"}, "mail")
  /\ \/ inbox' = [inbox EXCEPT ![req[r].email] = @ \cup {req[r].link}]
     \/ "mail" \in Faults /\ UNCHANGED inbox
  /\ welcomed' = IF req[r].op = "signup"
                 THEN [welcomed EXCEPT ![req[r].email] = @ \cup {req[r].pw}] ELSE welcomed
  /\ Finish(r, 200)
  /\ UNCHANGED <<password, verified, verify, issued, owed, followed>>

-----------------------------------------------------------------------------
(* The click on a link *)

\* A client follows a link it has received, or sends a token that never existed.
VerifyStart(r) ==
  /\ req[r] = Idle
  /\ \/ \E e \in Emails, k \in Links :
          /\ k \in inbox[e]
          /\ req' = [req EXCEPT ![r] = [Idle EXCEPT !.op = "verify", !.pc = "update", !.link = k]]
          /\ followed' = followed \cup {e}
     \/ /\ req' = [req EXCEPT ![r] = [Idle EXCEPT !.op = "verify", !.pc = "update"]]
        /\ UNCHANGED followed
  /\ UNCHANGED <<password, verified, linkVars, welcomed>>

HoldersOfAny(k) == {e \in Emails : verify[e] # NoLink}   \* mutant: no WHERE token
\* The accounts a token stands for: the subquery of VerifyEmail's UPDATE.
Holders(k) == {e \in Emails : k # NoLink /\ verify[e] = k}

\* UPDATE users SET email_verified; no row is answered 400.
VerifyUpdate(r) ==
  /\ At(r, {"verify"}, "update")
  /\ LET k == req[r].link
     IN \/ /\ Holders(k) = {}
           /\ Finish(r, 400)
           /\ UNCHANGED <<verified, owed>>
        \/ /\ Holders(k) # {}
           /\ \E o \in WriteOutcomes \ {"failed"} :
                /\ IF o = "ok" THEN Goto(r, "unlink") ELSE Finish(r, 500)
           /\ verified' = verified \cup Holders(k)
           /\ owed' = [e \in Emails |-> IF owed[e] = k THEN NoLink ELSE owed[e]]
        \/ /\ "failed" \in Faults
           /\ Finish(r, 500)
           /\ UNCHANGED <<verified, owed>>
  /\ UNCHANGED <<password, verify, issued, inbox, followed, welcomed>>

UnlinkedByUser(k) ==   \* mutant: DELETE of the row of the user who was verified
  [e \in Emails |-> IF e \in verified THEN NoLink ELSE verify[e]]
Unlinked(k) == [e \in Emails |-> IF verify[e] = k THEN NoLink ELSE verify[e]]

\* DELETE FROM email_verify_tokens WHERE token = $1, error ignored
VerifyUnlink(r) ==
  /\ At(r, {"verify"}, "unlink")
  /\ \/ verify' = Unlinked(req[r].link)
     \/ "failed" \in Faults /\ UNCHANGED verify
  /\ Finish(r, 200)
  /\ UNCHANGED <<password, verified, issued, inbox, owed, followed, welcomed>>

-----------------------------------------------------------------------------
(* Responses and the environment *)

Reply(r) ==
  /\ req[r].pc = "done"
  /\ req' = [req EXCEPT ![r] = Idle]
  /\ UNCHANGED <<password, verified, linkVars, followed, welcomed>>

\* A link expires after an hour; its row stays but no longer matches.
Expire(e) ==
  /\ verify[e] # NoLink
  /\ verify' = [verify EXCEPT ![e] = NoLink]
  /\ owed' = [owed EXCEPT ![e] = NoLink]
  /\ UNCHANGED <<password, verified, issued, inbox, followed, welcomed, req>>

Crash ==
  /\ "crash" \in Faults
  /\ \E r \in Reqs : req[r] # Idle
  /\ req' = [r \in Reqs |-> Idle]
  /\ UNCHANGED <<password, verified, linkVars, followed, welcomed>>

-----------------------------------------------------------------------------
Init ==
  /\ password = [e \in Emails |-> NoPw]
  /\ verified = {}
  /\ verify = [e \in Emails |-> NoLink]
  /\ issued = {}
  /\ inbox = [e \in Emails |-> {}]
  /\ owed = [e \in Emails |-> NoLink]
  /\ followed = {}
  /\ welcomed = [e \in Emails |-> {}]
  /\ req = [r \in Reqs |-> Idle]

Next ==
  \/ \E r \in Reqs :
       \/ \E e \in Emails : SignUpStart(r, e) \/ ResendStart(r, e)
       \/ VerifyStart(r)
       \/ SignUpInsert(r) \/ ResendRead(r) \/ UpsertLink(r) \/ MailLink(r)
       \/ VerifyUpdate(r) \/ VerifyUnlink(r) \/ Reply(r)
  \/ \E e \in Emails : Expire(e)
  \/ Crash

Spec == Init /\ [][Next]_vars
-----------------------------------------------------------------------------
(* Properties *)

\* Every variable holds what the tables and the handlers can hold, and only
\* accounts that exist have links or are verified.
TypeOK ==
  /\ password \in [Emails -> Passwords \cup {NoPw}]
  /\ verified \subseteq {e \in Emails : Exists(e)}
  /\ verify \in [Emails -> Links \cup {NoLink}]
  /\ owed \in [Emails -> Links \cup {NoLink}]
  /\ \A e \in Emails : verify[e] # NoLink => Exists(e)
  /\ issued \subseteq Links
  /\ inbox \in [Emails -> SUBSET Links]
  /\ followed \subseteq Emails
  /\ welcomed \in [Emails -> SUBSET Passwords]
  /\ req \in [Reqs -> Request]

\* Of all the sign-ups with one address, at once, one after the other or
\* repeated after an error, at most one is told of success, and it is the one
\* whose password the account has.
WinnerKeepsPassword == \A e \in Emails : welcomed[e] \subseteq {password[e]}

\* Nobody verifies an address without a link that was mailed to that address.
VerifiedThroughMail == verified \subseteq followed

\* The newest link of an account works until it is used, replaced or too old: a
\* click on an older link, whose DELETE comes late, does not take it away.
NewestLinkWorks == \A e \in Emails : owed[e] # NoLink => e \in Holders(owed[e])

\* Statements, retries, failures and crashes together do what Registration says:
\* one account for an address, one welcome for an account, links that reach one
\* mailbox, and a verification that its owner asked for, one account at a time.
Promised == INSTANCE Registration

ImplementsRegistration == Promised!Spec
=============================================================================
