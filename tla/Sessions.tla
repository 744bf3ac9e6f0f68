------------------------------ MODULE Sessions ------------------------------
(***************************************************************************)
(* Sessions of the hubigr auth service: login, refresh-token rotation,     *)
(* logout, ban, role change and password reset, interleaved at the         *)
(* granularity of single Postgres statements.                              *)
(*                                                                         *)
(* Every HTTP request runs in a goroutine of its own (Reqs).  A handler is *)
(* the sequence of the statements it executes; each statement commits by   *)
(* itself, except ValidateAndRotate, a transaction that holds the row lock *)
(* of SELECT ... FOR UPDATE from RefreshLookup to RefreshRotate.           *)
(* Middlewares that only refuse a request (CSRF, rate limit) are left out. *)
(***************************************************************************)
EXTENDS Integers, FiniteSets

CONSTANTS
  Users, Passwords, Roles,
  Reqs,       \* request goroutines that may run at the same time
  Tokens,     \* refresh tokens that can be generated
  Links,      \* password-reset tokens that can be generated
  Salts,      \* salts bcrypt may draw (2^128 of them in the program)
  Calls,      \* what clients ask for: pairs <<operation, user>>
  Faults,     \* what may go wrong: a subset of FaultKinds
  InitUsers,  \* the contents the users table may start with
  NoUser, NoPw, NoReq, NoToken, NoLink, NoSalt, NoRow

FaultKinds ==
  { "failed",   \* a statement fails and has no effect
    "unsure",   \* a statement takes effect and its caller gets an error
    "crash",    \* the process dies
    "lost",     \* a response never reaches its client
    "mail" }    \* the SMTP server refuses a message

\* RoleMiddleware lets these through to the admin routes
Staff == {"admin", "moderator"}
NoRole == "none"

UserRow == [pw : Passwords, role : Roles, banned : BOOLEAN, verified : BOOLEAN]

ASSUME ConstantsAssumption ==
  /\ NoUser \notin Users /\ NoPw \notin Passwords /\ NoReq \notin Reqs
  /\ NoToken \notin Tokens /\ NoLink \notin Links /\ NoSalt \notin Salts
  /\ NoRow \notin UserRow /\ NoRole \notin Roles
  /\ InitUsers \subseteq [Users -> UserRow]
  /\ Faults \subseteq FaultKinds

VARIABLES
  users,    \* table users
  refresh,  \* table refresh_tokens, by token
  lock,     \* the transaction holding the row lock of a token
  reset,    \* table password_reset_tokens, by its unique key user_id
  owed,     \* history: the newest link of a user, while unused and unexpired
  issued,   \* reset links generated so far
  mailed,   \* reset links that were sent
  spent,    \* history: whether a link has changed a password: 0 no, 1 yes and its
            \* DELETE is due or done, 2 yes and its DELETE has failed or never runs
  known,    \* refresh tokens clients have received
  access,   \* unexpired JWTs clients have received, by their claims
  req       \* the local state of every request

resetVars == <<reset, owed, issued, mailed, spent>>
clientVars == <<known, access>>
vars == <<users, refresh, lock, reset, owed, issued, mailed, spent, known, access, req>>

-----------------------------------------------------------------------------
(* Data *)

\* A row of refresh_tokens.  root and fate are history: root is the token of
\* the login the row descends from by rotation; fate is "doomed" once an
\* operation that ends the user's sessions has begun, "escaped" if the row was
\* derived from one of those, or if the revocation of the row failed.
Row == [state : {"absent", "live", "expired", "revoked"},
        user  : Users \cup {NoUser},
        salt  : Salts \cup {NoSalt},
        root  : Tokens \cup {NoToken},
        fate  : {"fine", "doomed", "escaped"}]

AbsentRow == [state |-> "absent", user |-> NoUser, salt |-> NoSalt,
              root |-> NoToken, fate |-> "fine"]

Unrevoked(t) == refresh[t].state \in {"live", "expired"}
RowsOfAnybody(u) == {t \in Tokens : Unrevoked(t)}   \* mutant: no WHERE user_id
RowsOfOneDevice(u) ==   \* mutant: LIMIT 1
  IF RowsOfAnybody(u) = {} THEN {} ELSE {CHOOSE t \in RowsOfAnybody(u) : TRUE}
RowsOf(u) == {t \in Tokens : refresh[t].user = u /\ Unrevoked(t)}

Idle == [op |-> "none", pc |-> "idle", user |-> NoUser, pw |-> NoPw, role |-> NoRole,
         tok |-> NoToken, fresh |-> NoToken, link |-> NoLink, copy |-> NoRow,
         snap |-> {}, seen |-> {}, late |-> FALSE, status |-> 0]

Ops == {"none", "login", "refresh", "logout", "ban", "unban", "role", "forgot", "confirm"}
Pcs == {"idle", "read", "insert", "lookup", "rotate", "user", "update", "upsert",
        "mail", "setpw", "unlink", "revoke", "apply", "done"}

Request == [op : Ops, pc : Pcs, user : Users \cup {NoUser}, pw : Passwords \cup {NoPw},
            role : Roles \cup {NoRole}, tok : Tokens \cup {NoToken},
            fresh : Tokens \cup {NoToken}, link : Links \cup {NoLink},
            copy : UserRow \cup {NoRow}, snap : SUBSET Tokens,
            seen : SUBSET UserRow, late : BOOLEAN,
            status : {0, 200, 401, 403, 404, 500}]

\* The outcomes of a statement that reads and of one that writes.
ReadOutcomes == {"ok"} \cup (Faults \cap {"failed"})
WriteOutcomes == {"ok"} \cup (Faults \cap {"failed", "unsure"})

\* GenerateRefreshToken never repeats a token: one that is neither in the table
\* nor about to be inserted.
FreeTokens == {t \in Tokens : refresh[t].state = "absent" /\ \A r \in Reqs : req[r].fresh # t}

-----------------------------------------------------------------------------
(* Control *)

Begin(r, op, pc, q) ==
  /\ req[r] = Idle
  /\ req' = [req EXCEPT ![r] = [q EXCEPT !.op = op, !.pc = pc]]

At(r, ops, pc) == req[r].op \in ops /\ req[r].pc = pc
Finished(q, status) == [q EXCEPT !.pc = "done", !.status = status]
Goto(r, pc) == req' = [req EXCEPT ![r] = [@ EXCEPT !.pc = pc]]
Finish(r, status) == req' = [req EXCEPT ![r] = Finished(@, status)]

\* An UPDATE of the row of user u by request r, which goes on as q.  History:
\* the other requests on u have now seen this row too; if the update ends the
\* user's sessions, a login that has already read the old row is late.
UpdateUser(r, q, u, row, ends) ==
  /\ users' = [users EXCEPT ![u] = row]
  /\ req' = [p \in Reqs |->
       IF p = r THEN q
       ELSE IF req[p].user = u /\ req[p].seen # {}
       THEN [req[p] EXCEPT !.seen = @ \cup {row},
                           !.late = @ \/ (ends /\ req[p].op = "login" /\ req[p].copy # NoRow)]
       ELSE req[p]]

\* History: the sessions of u are to end / the revocation of them has failed.
Doomed(u) == [t \in Tokens |->
  IF refresh[t].user = u /\ Unrevoked(t) THEN [refresh[t] EXCEPT !.fate = "doomed"] ELSE refresh[t]]
Escaped(us) == [t \in Tokens |->
  IF refresh[t].user \in us /\ refresh[t].fate = "doomed"
  THEN [refresh[t] EXCEPT !.fate = "escaped"] ELSE refresh[t]]

-----------------------------------------------------------------------------
(* Login *)

LoginStart(r, u) ==
  /\ <<"login", u>> \in Calls
  /\ \E p \in Passwords, f \in FreeTokens :
       Begin(r, "login", "read",
             [Idle EXCEPT !.user = u, !.pw = p, !.fresh = f, !.seen = {users[u]}])
  /\ UNCHANGED <<users, refresh, lock, resetVars, clientVars>>

LoginVerdictWithoutBan(row, pw) ==   \* mutant: the ban check is dropped
  IF row.pw = pw /\ row.verified THEN 200 ELSE 401

LoginVerdictWithoutPassword(row, pw) ==   \* mutant: the password is not compared
  IF row.banned THEN 403 ELSE IF row.verified THEN 200 ELSE 401

\* GetByEmail and the checks on the row it returns.  A failing query answers
\* 401, like a wrong password.
LoginVerdict(row, pw) ==
  CASE row.pw # pw -> 401
    [] row.pw = pw /\ row.banned -> 403
    [] row.pw = pw /\ ~row.banned /\ ~row.verified -> 401
    [] OTHER -> 200

LoginRead(r) ==
  /\ At(r, {"login"}, "read")
  /\ LET row == users[req[r].user]
         verdict == LoginVerdict(row, req[r].pw)
     IN \/ verdict = 200 /\ req' = [req EXCEPT ![r] = [@ EXCEPT !.pc = "insert", !.copy = row]]
        \/ verdict # 200 /\ Finish(r, verdict)
        \/ "failed" \in ReadOutcomes /\ Finish(r, 401)
  /\ UNCHANGED <<users, refresh, lock, resetVars, clientVars>>

\* RefreshTokenRepo.Create.  The JWT was signed from the copy read before.
LoginInsert(r) ==
  /\ At(r, {"login"}, "insert")
  /\ \E o \in WriteOutcomes, s \in Salts :
       /\ refresh' = IF o = "failed" THEN refresh
                     ELSE [refresh EXCEPT ![req[r].fresh] =
                            [state |-> "live", user |-> req[r].user, salt |-> s,
                             root |-> req[r].fresh,
                             fate |-> IF req[r].late THEN "escaped" ELSE "fine"]]
       /\ Finish(r, IF o = "ok" THEN 200 ELSE 500)
  /\ UNCHANGED <<users, lock, resetVars, clientVars>>

-----------------------------------------------------------------------------
(* Refresh: ValidateAndRotate, then the user row, then the new JWT *)

RefreshStart(r, t) ==
  /\ t \in known /\ <<"refresh", refresh[t].user>> \in Calls
  /\ \E f \in FreeTokens :
       Begin(r, "refresh", "lookup", [Idle EXCEPT !.tok = t, !.fresh = f])
  /\ UNCHANGED <<users, refresh, lock, resetVars, clientVars>>

RowFoundRevoked(t, s) ==   \* mutant: no "revoked_at IS NULL"
  refresh[t].state \in {"live", "revoked"} /\ refresh[t].salt = s

\* SELECT ... WHERE token_hash = <a new bcrypt hash> AND revoked_at IS NULL AND
\* expires_at > NOW() FOR UPDATE: the row is found only if the salt drawn for
\* the lookup is the salt the stored hash was made with, and it is waited for
\* while another transaction holds it.
RowFound(t, s) == refresh[t].state = "live" /\ refresh[t].salt = s

RowFreeWithoutForUpdate(t) == TRUE   \* mutant: a plain SELECT
RowFree(t) == lock[t] = NoReq

RefreshLookup(r) ==
  /\ At(r, {"refresh"}, "lookup")
  /\ \E s \in Salts :
       LET t == req[r].tok
           u == refresh[t].user
       IN \/ /\ RowFound(t, s)
             /\ RowFree(t)
             /\ lock' = [lock EXCEPT ![t] = r]
             /\ req' = [req EXCEPT ![r] = [@ EXCEPT !.pc = "rotate", !.user = u, !.seen = {users[u]}]]
          \/ /\ ~RowFound(t, s) \/ "failed" \in ReadOutcomes
             /\ Finish(r, 401)
             /\ UNCHANGED lock
  /\ UNCHANGED <<users, refresh, resetVars, clientVars>>

\* UPDATE of the old row, INSERT of the new one and COMMIT: other statements
\* see all or nothing.  Any error answers 401, also when the commit went through.
RotatedWithoutUser(t, f, s) ==   \* mutant: the new row belongs to nobody
  [refresh EXCEPT
     ![t].state = "revoked",
     ![f] = [state |-> "live", user |-> NoUser, salt |-> s, root |-> refresh[t].root,
             fate |-> IF refresh[t].fate = "fine" THEN "fine" ELSE "escaped"]]
Rotated(t, f, s) ==
  [refresh EXCEPT
     ![t].state = "revoked",
     ![f] = [state |-> "live", user |-> refresh[t].user, salt |-> s, root |-> refresh[t].root,
             fate |-> IF refresh[t].fate = "fine" THEN "fine" ELSE "escaped"]]

UnlockedOnCommit(r, o) ==   \* mutant: no rollback after an error
  IF o = "ok" THEN [lock EXCEPT ![req[r].tok] = NoReq] ELSE lock
Unlocked(r, o) == [lock EXCEPT ![req[r].tok] = NoReq]

RefreshRotate(r) ==
  /\ At(r, {"refresh"}, "rotate")
  /\ \E o \in WriteOutcomes, s \in Salts :
       /\ lock' = Unlocked(r, o)
       /\ refresh' = IF o = "failed" THEN refresh ELSE Rotated(req[r].tok, req[r].fresh, s)
       /\ IF o = "ok" THEN Goto(r, "user") ELSE Finish(r, 401)
  /\ UNCHANGED <<users, resetVars, clientVars>>

\* GetByID and the ban check come after the rotation has committed.
RefreshGetUser(r) ==
  /\ At(r, {"refresh"}, "user")
  /\ LET row == users[req[r].user]
     IN \/ row.banned /\ Finish(r, 403)
        \/ ~row.banned /\ req' = [req EXCEPT ![r] = Finished([@ EXCEPT !.copy = row], 200)]
        \/ "failed" \in ReadOutcomes /\ Finish(r, 404)
  /\ UNCHANGED <<users, refresh, lock, resetVars, clientVars>>

-----------------------------------------------------------------------------
(* RevokeUserTokens, called by logout, ban and reset, which all ignore its error *)

\* The UPDATE looks for rows in the snapshot taken when the statement starts ...
RevokeSnapshot(r) ==
  /\ At(r, {"logout", "ban", "unban", "confirm"}, "revoke")
  /\ \/ /\ req' = [req EXCEPT ![r] = [@ EXCEPT !.pc = "apply", !.snap = RowsOf(req[r].user)]]
        /\ UNCHANGED refresh
     \/ /\ "failed" \in WriteOutcomes
        /\ refresh' = Escaped({req[r].user})
        /\ Finish(r, 200)
  /\ UNCHANGED <<users, lock, resetVars, clientVars>>

\* ... and revokes those, once the transactions that hold their locks are over.
\* A row that was rotated meanwhile is revoked already; its successor is not in
\* the snapshot.
RevokeApply(r) ==
  /\ At(r, {"logout", "ban", "unban", "confirm"}, "apply")
  /\ \/ /\ \A t \in req[r].snap : RowFree(t)
        /\ refresh' = [t \in Tokens |-> IF t \in req[r].snap
                                        THEN [refresh[t] EXCEPT !.state = "revoked"]
                                        ELSE refresh[t]]
     \/ /\ "failed" \in WriteOutcomes
        /\ refresh' = Escaped({req[r].user})
  /\ Finish(r, 200)
  /\ UNCHANGED <<users, lock, resetVars, clientVars>>

-----------------------------------------------------------------------------
(* Logout, ban, role change: they need a JWT, which is not checked against the database *)

Bearer(u) == \E a \in access : a.user = u
StaffBearer == \E a \in access : a.role \in Staff

LogoutStart(r, u) ==
  /\ <<"logout", u>> \in Calls /\ Bearer(u)
  /\ Begin(r, "logout", "revoke", [Idle EXCEPT !.user = u])
  /\ refresh' = Doomed(u)
  /\ UNCHANGED <<users, lock, resetVars, clientVars>>

AdminStart(r, op, u) ==
  /\ <<op, u>> \in Calls /\ StaffBearer
  /\ \E role \in (IF op = "role" THEN Roles ELSE {NoRole}) :
       Begin(r, op, "update", [Idle EXCEPT !.user = u, !.role = role])
  /\ UNCHANGED <<users, refresh, lock, resetVars, clientVars>>

AfterBanInverted(q) ==   \* mutant: the tokens are revoked on unban
  IF q.op = "unban" THEN [q EXCEPT !.pc = "revoke"] ELSE Finished(q, 200)
\* Only a ban that succeeded goes on to revoke the tokens.
AfterBan(q) == IF q.op = "ban" THEN [q EXCEPT !.pc = "revoke"] ELSE Finished(q, 200)

\* UpdateUserBanStatus
BanUpdate(r) ==
  /\ At(r, {"ban", "unban"}, "update")
  /\ LET u == req[r].user
         ban == req[r].op = "ban"
         row == [users[u] EXCEPT !.banned = ban]
     IN \/ /\ UpdateUser(r, AfterBan(req[r]), u, row, ban)
           /\ refresh' = IF ban THEN Doomed(u) ELSE refresh
        \/ /\ "unsure" \in WriteOutcomes
           /\ UpdateUser(r, Finished(req[r], 500), u, row, FALSE)
           /\ UNCHANGED refresh
        \/ /\ "failed" \in WriteOutcomes
           /\ Finish(r, 500)
           /\ UNCHANGED <<users, refresh>>
  /\ UNCHANGED <<lock, resetVars, clientVars>>

RoleUpdate(r) ==
  /\ At(r, {"role"}, "update")
  /\ LET u == req[r].user
         row == [users[u] EXCEPT !.role = req[r].role]
     IN \/ UpdateUser(r, Finished(req[r], 200), u, row, FALSE)
        \/ "unsure" \in WriteOutcomes /\ UpdateUser(r, Finished(req[r], 500), u, row, FALSE)
        \/ "failed" \in WriteOutcomes /\ Finish(r, 500) /\ UNCHANGED users
  /\ UNCHANGED <<refresh, lock, resetVars, clientVars>>

-----------------------------------------------------------------------------
(* Password reset *)

ForgotStart(r, u) ==
  /\ <<"forgot", u>> \in Calls
  /\ \E k \in Links \ issued :
       /\ Begin(r, "forgot", "read", [Idle EXCEPT !.user = u, !.link = k])
       /\ issued' = issued \cup {k}
  /\ UNCHANGED <<users, refresh, lock, reset, owed, mailed, spent, clientVars>>

\* GetByEmail: an error is answered like an unknown address.
ForgotRead(r) ==
  /\ At(r, {"forgot"}, "read")
  /\ \/ Goto(r, "upsert")
     \/ "failed" \in ReadOutcomes /\ Finish(r, 200)
  /\ UNCHANGED <<users, refresh, lock, resetVars, clientVars>>

\* CreateResetToken: INSERT ... ON CONFLICT (user_id) DO UPDATE
ForgotUpsert(r) ==
  /\ At(r, {"forgot"}, "upsert")
  /\ \E o \in WriteOutcomes :
       /\ IF o = "failed" THEN UNCHANGED <<reset, owed>>
          ELSE /\ reset' = [reset EXCEPT ![req[r].user] = req[r].link]
               /\ owed' = [owed EXCEPT ![req[r].user] = req[r].link]
       /\ IF o = "ok" THEN Goto(r, "mail") ELSE Finish(r, 500)
  /\ UNCHANGED <<users, refresh, lock, issued, mailed, spent, clientVars>>

\* SendPasswordResetEmail: an error is only logged.
ForgotMail(r) ==
  /\ At(r, {"forgot"}, "mail")
  /\ \/ mailed' = mailed \cup {req[r].link}
     \/ "mail" \in Faults /\ UNCHANGED mailed
  /\ Finish(r, 200)
  /\ UNCHANGED <<users, refresh, lock, reset, owed, issued, spent, clientVars>>

\* A client follows a mailed link, or sends a token that never existed (NoLink).
ConfirmStart(r) ==
  /\ \E u \in Users : <<"confirm", u>> \in Calls
  /\ \E k \in mailed \cup {NoLink}, p \in Passwords :
       Begin(r, "confirm", "setpw", [Idle EXCEPT !.link = k, !.pw = p])
  /\ UNCHANGED <<users, refresh, lock, resetVars, clientVars>>

\* The users a reset token stands for: the subquery of ResetPassword's UPDATE.
Holders(k) == {u \in Users : reset[u] = k /\ k # NoLink}

\* UPDATE users ... RETURNING id.  No row is an error of Scan, answered 500
\* (ResetUnknown) and not the 400 of an unsuccessful reset: success is never false.
ResetUnknown(r) ==
  /\ At(r, {"confirm"}, "setpw")
  /\ Holders(req[r].link) = {} \/ "failed" \in WriteOutcomes
  /\ Finish(r, 500)
  /\ UNCHANGED <<users, refresh, lock, resetVars, clientVars>>

ResetUpdate(r) ==
  /\ At(r, {"confirm"}, "setpw")
  /\ \E u \in Holders(req[r].link) :
       LET k == req[r].link
           row == [users[u] EXCEPT !.pw = req[r].pw]
       IN /\ \/ /\ UpdateUser(r, [req[r] EXCEPT !.pc = "unlink", !.user = u], u, row, TRUE)
                /\ refresh' = Doomed(u)
                /\ spent' = [spent EXCEPT ![k] = 1]
             \/ /\ "unsure" \in WriteOutcomes
                /\ UpdateUser(r, Finished(req[r], 500), u, row, FALSE)
                /\ spent' = [spent EXCEPT ![k] = IF @ = 1 THEN 1 ELSE 2]
                /\ UNCHANGED refresh
          /\ owed' = [owed EXCEPT ![u] = IF @ = k THEN NoLink ELSE @]
  /\ UNCHANGED <<lock, reset, issued, mailed, clientVars>>

UnlinkedIfExpired(r) == reset   \* mutant: DELETE ... AND expires_at < NOW()
UnlinkedByUser(r) ==   \* mutant: DELETE ... WHERE user_id = $1
  [reset EXCEPT ![req[r].user] = NoLink]
Unlinked(r) == [u \in Users |-> IF reset[u] = req[r].link THEN NoLink ELSE reset[u]]

AfterUnlinkOrFail(q, deleted) ==   \* mutant: an error of the DELETE ends the handler
  IF deleted THEN [q EXCEPT !.pc = "revoke"] ELSE Finished(q, 500)
AfterUnlink(q, deleted) == [q EXCEPT !.pc = "revoke"]

\* DELETE FROM password_reset_tokens WHERE token = $1, error ignored
ResetUnlink(r) ==
  /\ At(r, {"confirm"}, "unlink")
  /\ \E deleted \in {TRUE} \cup {"failed" \notin WriteOutcomes} :
       /\ reset' = IF deleted THEN Unlinked(r) ELSE reset
       /\ spent' = IF deleted THEN spent ELSE [spent EXCEPT ![req[r].link] = 2]
       /\ req' = [req EXCEPT ![r] = AfterUnlink(@, deleted)]
  /\ UNCHANGED <<users, refresh, lock, owed, issued, mailed, clientVars>>

-----------------------------------------------------------------------------
(* Responses and the environment *)

ReturnedOld(q) == q.tok   \* mutant: the client is given its old token back
Returned(q) == q.fresh

Reply(r) ==
  /\ req[r].pc = "done"
  /\ req' = [req EXCEPT ![r] = Idle]
  /\ \/ /\ req[r].status = 200 /\ req[r].op \in {"login", "refresh"}
        /\ known' = known \cup {Returned(req[r])}
        /\ access' = access \cup {[user |-> req[r].user, role |-> req[r].copy.role]}
     \/ /\ req[r].status # 200 \/ req[r].op \notin {"login", "refresh"} \/ "lost" \in Faults
        /\ UNCHANGED clientVars
  /\ UNCHANGED <<users, refresh, lock, resetVars>>

ExpireRefresh(t) ==
  /\ refresh[t].state = "live"
  /\ refresh' = [refresh EXCEPT ![t].state = "expired"]
  /\ UNCHANGED <<users, lock, resetVars, clientVars, req>>

ExpireAccess(a) ==
  /\ access' = access \ {a}
  /\ UNCHANGED <<users, refresh, lock, resetVars, known, req>>

\* A reset link expires after an hour; its row stays but no longer matches.
ExpireReset(u) ==
  /\ reset[u] # NoLink
  /\ reset' = [reset EXCEPT ![u] = NoLink]
  /\ owed' = [owed EXCEPT ![u] = NoLink]
  /\ UNCHANGED <<users, refresh, lock, issued, mailed, spent, clientVars, req>>

\* The process dies: Postgres rolls the open transactions back.
Crash ==
  /\ "crash" \in Faults
  /\ \E r \in Reqs : req[r] # Idle
  /\ req' = [r \in Reqs |-> Idle]
  /\ lock' = [t \in Tokens |-> NoReq]
  /\ refresh' = Escaped(Users)
  /\ spent' = [k \in Links |-> IF spent[k] = 0 THEN 0 ELSE 2]
  /\ UNCHANGED <<users, reset, owed, issued, mailed, clientVars>>

-----------------------------------------------------------------------------
\* At first nobody has a refresh token any more, and everybody still has a JWT
\* of an earlier session.
Init ==
  /\ users \in InitUsers
  /\ refresh = [t \in Tokens |-> AbsentRow]
  /\ lock = [t \in Tokens |-> NoReq]
  /\ reset = [u \in Users |-> NoLink]
  /\ owed = [u \in Users |-> NoLink]
  /\ issued = {} /\ mailed = {}
  /\ spent = [k \in Links |-> 0]
  /\ known = {}
  /\ access = {[user |-> u, role |-> users[u].role] : u \in Users}
  /\ req = [r \in Reqs |-> Idle]

Start(r) ==
  \/ \E u \in Users :
       \/ LoginStart(r, u) \/ LogoutStart(r, u) \/ ForgotStart(r, u)
       \/ \E op \in {"ban", "unban", "role"} : AdminStart(r, op, u)
  \/ \E t \in Tokens : RefreshStart(r, t)
  \/ ConfirmStart(r)

\* Steps a request takes by itself, and those that may wait for a row lock.
Run(r) ==
  \/ LoginRead(r) \/ LoginInsert(r)
  \/ RefreshRotate(r) \/ RefreshGetUser(r)
  \/ RevokeSnapshot(r) \/ BanUpdate(r) \/ RoleUpdate(r)
  \/ ForgotRead(r) \/ ForgotUpsert(r) \/ ForgotMail(r)
  \/ ResetUnknown(r) \/ ResetUpdate(r) \/ ResetUnlink(r)
  \/ Reply(r)
Wait(r) == RefreshLookup(r) \/ RevokeApply(r)

Environment ==
  \/ \E t \in Tokens : ExpireRefresh(t)
  \/ \E a \in access : ExpireAccess(a)
  \/ \E u \in Users : ExpireReset(u)
  \/ Crash

Next == (\E r \in Reqs : Start(r) \/ Run(r) \/ Wait(r)) \/ Environment

Spec == Init /\ [][Next]_vars

\* The rows that r waits for are free, or its lookup finds none to wait for.
Granted(r) ==
  \/ /\ req[r].pc = "lookup"
     /\ RowFree(req[r].tok) \/ \A s \in Salts : ~RowFound(req[r].tok, s)
  \/ /\ req[r].pc = "apply"
     /\ \A t \in req[r].snap : RowFree(t)

\* Go schedules every runnable goroutine; Postgres queues the waiters of a row
\* lock, so one that waits is served although others ask for the row as well.
\* That a statement fails while it waits may end the wait, but need never happen.
Fairness == \A r \in Reqs : WF_vars(Run(r)) /\ SF_vars(Granted(r) /\ Wait(r))
FairSpec == Spec /\ Fairness
-----------------------------------------------------------------------------
(* Properties *)

\* Every variable holds what the tables and the handlers can hold; a stored
\* refresh token belongs to a user and to a family, and a lock to a running
\* rotation.
RowOK(t) == refresh[t].state = "absent" \/ (refresh[t].user \in Users /\ refresh[t].root \in Tokens)

TypeOK ==
  /\ users \in [Users -> UserRow]
  /\ refresh \in [Tokens -> Row]
  /\ \A t \in Tokens : RowOK(t)
  /\ lock \in [Tokens -> Reqs \cup {NoReq}]
  /\ reset \in [Users -> Links \cup {NoLink}]
  /\ owed \in [Users -> Links \cup {NoLink}]
  /\ issued \subseteq Links /\ mailed \subseteq Links
  /\ spent \in [Links -> 0..2]
  /\ known \subseteq Tokens
  /\ access \subseteq [user : Users, role : Roles]
  /\ req \in [Reqs -> Request]

\* The JWT of a successful login or refresh carries a role that the user held,
\* unbanned, at one single moment of the request - for login, a moment at which
\* the password was right and the address verified.  A request that starts
\* after a ban, a demotion or a password change has committed never gets the
\* rights of before, whatever runs in between.
MintsReflectOneRow ==
  \A r \in Reqs : At(r, {"login", "refresh"}, "done") /\ req[r].status = 200 =>
    \E row \in req[r].seen :
      /\ row.role = req[r].copy.role /\ ~row.banned
      /\ req[r].op = "login" => row.pw = req[r].pw /\ row.verified

\* Rotation never forks a session: of all the tokens that descend from one
\* login, at most one is not revoked (ValidateAndRotate, FOR UPDATE).
OneLiveHead ==
  \A t1, t2 \in Tokens :
    Unrevoked(t1) /\ Unrevoked(t2) /\ refresh[t1].root = refresh[t2].root => t1 = t2

\* A session that a logout, a ban or a password reset has set out to end, and
\* that was not renamed by a rotation on the way, is either revoked or about to
\* be: some request still in flight holds it in the snapshot of its
\* RevokeUserTokens, or has yet to take that snapshot.
Covers(r, t) ==
  \/ req[r].user = refresh[t].user /\ req[r].pc \in {"unlink", "revoke"}
  \/ req[r].pc = "apply" /\ t \in req[r].snap

RevocationComplete ==
  \A t \in Tokens : Unrevoked(t) /\ refresh[t].fate = "doomed" => \E r \in Reqs : Covers(r, t)

\* A session ends only by its own rotation or by an operation on its own user,
\* never because somebody else logged out, was banned or reset a password.
OnlyOwnSessionsEnd ==
  [][\A t \in Tokens : Unrevoked(t) /\ ~Unrevoked(t)' =>
       \E r \in Reqs : req[r].user = refresh[t].user /\ req[r].pc \in {"rotate", "apply"}]_vars

\* The newest reset link of a user works until it is used, replaced or too old:
\* a confirmation with an older link, whose DELETE comes late, does not take it
\* away (ResetPassword deletes by token, CreateResetToken upserts by user).
UnusedLinkSurvives == \A u \in Users : owed[u] # NoLink => reset[u] = owed[u]

\* A link that has changed a password is gone, or a confirmation that is still in
\* flight is about to delete it, or its DELETE has failed: until then a second
\* confirmation may use it again (UPDATE and DELETE commit one by one), but a
\* DELETE that succeeds never leaves a used link behind.
UsedLinkIsLeaving ==
  \A k \in Links : spent[k] = 1 /\ Holders(k) # {} =>
    \E r \in Reqs : req[r].pc = "unlink" /\ req[r].link = k

\* Unless something fails or an account operation ends the session, whoever has
\* a session can name its token: the head of a family is known to a client or
\* on its way in a response.
NoSilentOrphans ==
  \A t \in Tokens : Unrevoked(t) /\ refresh[t].fate = "fine" =>
    t \in known \/ \E r \in Reqs : req[r].fresh = t

\* Every request is answered (or dropped by a crash): no lock is waited for
\* forever.
RequestsFinish == \A r \in Reqs : req[r] # Idle ~> req[r] = Idle

\* What RevocationComplete promises does happen: a doomed session gets revoked,
\* or its revocation fails.
DoomedSessionsEnd ==
  \A t \in Tokens : (refresh[t].fate = "doomed" ~> ~Unrevoked(t) \/ refresh[t].fate # "doomed")

\* Statements, locks, failures and crashes together do what SessionFamilies says:
\* each step founds, renews or ends families or is invisible there.  A family is
\* never forked, and one that was ended is never continued.
Families == INSTANCE SessionFamilies WITH
  used  <- {t \in Tokens : refresh[t].state # "absent"},
  owner <- [t \in Tokens |-> IF refresh[t].root = t THEN refresh[t].user ELSE NoUser],
  head  <- [f \in Tokens |-> {t \in Tokens : Unrevoked(t) /\ refresh[t].root = f}]

ImplementsFamilies == Families!Spec

(* A claim of the documentation that the code does not keep *)

\* README.md:71: refresh tokens rotate.  A live token would then not be refused
\* as long as nothing fails.
LiveTokenIsAccepted ==
  \A r \in Reqs : At(r, {"refresh"}, "done") /\ req[r].status = 401 =>
    refresh[req[r].tok].state # "live"
=============================================================================
