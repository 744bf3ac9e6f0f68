-------------------------- MODULE SessionsGuarantees --------------------------
(***************************************************************************)
(* What Sessions promises to users, for every set of users, requests,      *)
(* tokens, links and salts and any faults: the rights in an answer, the    *)
(* end of sessions, and the life of reset links.  The last section, about  *)
(* sessions whose token somebody can name, is for faults of the mail only. *)
(***************************************************************************)
EXTENDS SessionsProofs

USE ConstantsAssumption

-----------------------------------------------------------------------------
(***************************************************************************)
(* How the local states of the requests change in a step                   *)
(***************************************************************************)
OthersSame(r) == \A p \in Reqs \ {r} : req'[p] = req[p]

\* Only the program counter and the status of r change.
Moves(r, pc, status) ==
  /\ req'[r].pc = pc /\ req'[r].status = status
  /\ req'[r].op = req[r].op /\ req'[r].user = req[r].user /\ req'[r].pw = req[r].pw
  /\ req'[r].link = req[r].link /\ req'[r].copy = req[r].copy
  /\ req'[r].snap = req[r].snap /\ req'[r].seen = req[r].seen

LEMMA StepOthers ==
  ASSUME IInv, NEW r \in Reqs, NEW q, req' = [req EXCEPT ![r] = q]
  PROVE  req'[r] = q /\ OthersSame(r)
  BY DEF OthersSame, IInv, TypeOK

LEMMA GotoMoves ==
  ASSUME IInv, NEW r \in Reqs, NEW pc, Goto(r, pc)
  PROVE  Moves(r, pc, req[r].status) /\ OthersSame(r)
<1>1. req \in [Reqs -> Request]
  BY DEF IInv, TypeOK
<1> DEFINE q == [req[r] EXCEPT !.pc = pc]
<1>2. /\ q.pc = pc /\ q.status = req[r].status /\ q.op = req[r].op /\ q.user = req[r].user
      /\ q.pw = req[r].pw /\ q.link = req[r].link /\ q.copy = req[r].copy
      /\ q.snap = req[r].snap /\ q.seen = req[r].seen
  BY <1>1 DEF Request
<1>3. req' = [req EXCEPT ![r] = q]
  BY DEF Goto
<1> HIDE DEF q
<1>4. req'[r] = q /\ OthersSame(r)
  BY <1>1, <1>3 DEF OthersSame
<1> QED
  BY <1>2, <1>4 DEF Moves

LEMMA FinishedFields ==
  ASSUME NEW x \in Request, NEW status
  PROVE  /\ Finished(x, status).pc = "done" /\ Finished(x, status).status = status
         /\ Finished(x, status).op = x.op /\ Finished(x, status).user = x.user
         /\ Finished(x, status).pw = x.pw /\ Finished(x, status).link = x.link
         /\ Finished(x, status).copy = x.copy /\ Finished(x, status).snap = x.snap
         /\ Finished(x, status).seen = x.seen
  BY DEF Finished, Request

LEMMA FinishMoves ==
  ASSUME IInv, NEW r \in Reqs, NEW status, Finish(r, status)
  PROVE  Moves(r, "done", status) /\ OthersSame(r)
<1>1. req \in [Reqs -> Request]
  BY DEF IInv, TypeOK
<1>2. req' = [req EXCEPT ![r] = Finished(req[r], status)]
  BY DEF Finish
<1>3. req'[r] = Finished(req[r], status) /\ OthersSame(r)
  BY <1>1, <1>2 DEF OthersSame
<1> QED
  BY <1>1, <1>3, FinishedFields DEF Moves

\* What a request is when it has just begun.
Begun(r, op, pc) ==
  /\ req[r] = Idle /\ OthersSame(r) /\ UNCHANGED users
  /\ req'[r].op = op /\ req'[r].pc = pc /\ req'[r].status = 0

LEMMA IdleFields ==
  /\ Idle.op = "none" /\ Idle.pc = "idle" /\ Idle.status = 0 /\ Idle.user = NoUser
  /\ Idle.link = NoLink /\ Idle.snap = {} /\ Idle.seen = {}
  BY DEF Idle

LEMMA LoginBegins ==
  ASSUME IInv, NEW r \in Reqs, NEW u \in Users, LoginStart(r, u)
  PROVE  /\ Begun(r, "login", "read")
         /\ req'[r].user = u /\ users[u] \in req'[r].seen
<1>1. PICK p, f : /\ req[r] = Idle
                  /\ req' = [req EXCEPT ![r] = [[Idle EXCEPT !.user = u, !.pw = p, !.fresh = f, !.seen = {users[u]}]
                                                 EXCEPT !.op = "login", !.pc = "read"]]
  BY Zenon DEF LoginStart, Begin
<1> DEFINE q == [[Idle EXCEPT !.user = u, !.pw = p, !.fresh = f, !.seen = {users[u]}]
                  EXCEPT !.op = "login", !.pc = "read"]
<1>2. q.op = "login" /\ q.pc = "read" /\ q.status = 0 /\ q.user = u /\ q.seen = {users[u]}
  BY DEF Idle
<1>3. req' = [req EXCEPT ![r] = q]
  BY <1>1, Zenon
<1> HIDE DEF q
<1>4. req'[r] = q /\ OthersSame(r)
  BY <1>3, StepOthers
<1> QED
  BY <1>1, <1>2, <1>4 DEF Begun, LoginStart

LEMMA LogoutBegins ==
  ASSUME IInv, NEW r \in Reqs, NEW u \in Users, LogoutStart(r, u)
  PROVE  Begun(r, "logout", "revoke") /\ req'[r].user = u
<1> DEFINE q == [[Idle EXCEPT !.user = u] EXCEPT !.op = "logout", !.pc = "revoke"]
<1>1. q.op = "logout" /\ q.pc = "revoke" /\ q.status = 0 /\ q.user = u
  BY DEF Idle
<1>2. req[r] = Idle /\ req' = [req EXCEPT ![r] = q]
  BY Zenon DEF LogoutStart, Begin
<1> HIDE DEF q
<1>3. req'[r] = q /\ OthersSame(r)
  BY <1>2, StepOthers
<1> QED
  BY <1>1, <1>2, <1>3 DEF Begun, LogoutStart

LEMMA AdminBegins ==
  ASSUME IInv, NEW r \in Reqs, NEW op, NEW u \in Users, AdminStart(r, op, u)
  PROVE  Begun(r, op, "update")
<1>1. PICK role : /\ req[r] = Idle
                  /\ req' = [req EXCEPT ![r] = [[Idle EXCEPT !.user = u, !.role = role]
                                                 EXCEPT !.op = op, !.pc = "update"]]
  BY Zenon DEF AdminStart, Begin
<1> DEFINE q == [[Idle EXCEPT !.user = u, !.role = role] EXCEPT !.op = op, !.pc = "update"]
<1>2. q.op = op /\ q.pc = "update" /\ q.status = 0
  BY DEF Idle
<1>3. req' = [req EXCEPT ![r] = q]
  BY <1>1, Zenon
<1> HIDE DEF q
<1>4. req'[r] = q /\ OthersSame(r)
  BY <1>3, StepOthers
<1> QED
  BY <1>1, <1>2, <1>4 DEF Begun, AdminStart

LEMMA RefreshBegins ==
  ASSUME IInv, NEW r \in Reqs, NEW t \in Tokens, RefreshStart(r, t)
  PROVE  Begun(r, "refresh", "lookup")
<1>1. PICK f : /\ req[r] = Idle
               /\ req' = [req EXCEPT ![r] = [[Idle EXCEPT !.tok = t, !.fresh = f]
                                              EXCEPT !.op = "refresh", !.pc = "lookup"]]
  BY Zenon DEF RefreshStart, Begin
<1> DEFINE q == [[Idle EXCEPT !.tok = t, !.fresh = f] EXCEPT !.op = "refresh", !.pc = "lookup"]
<1>2. q.op = "refresh" /\ q.pc = "lookup" /\ q.status = 0
  BY DEF Idle
<1>3. req' = [req EXCEPT ![r] = q]
  BY <1>1, Zenon
<1> HIDE DEF q
<1>4. req'[r] = q /\ OthersSame(r)
  BY <1>3, StepOthers
<1> QED
  BY <1>1, <1>2, <1>4 DEF Begun, RefreshStart

LEMMA ForgotBegins ==
  ASSUME IInv, NEW r \in Reqs, NEW u \in Users, ForgotStart(r, u)
  PROVE  /\ Begun(r, "forgot", "read") /\ req'[r].user = u
         /\ \E k \in Links \ issued : req'[r].link = k /\ issued' = issued \cup {k}
<1>1. PICK k \in Links \ issued :
        /\ req[r] = Idle /\ issued' = issued \cup {k}
        /\ req' = [req EXCEPT ![r] = [[Idle EXCEPT !.user = u, !.link = k]
                                       EXCEPT !.op = "forgot", !.pc = "read"]]
  BY Zenon DEF ForgotStart, Begin
<1> DEFINE q == [[Idle EXCEPT !.user = u, !.link = k] EXCEPT !.op = "forgot", !.pc = "read"]
<1>2. q.op = "forgot" /\ q.pc = "read" /\ q.status = 0 /\ q.user = u /\ q.link = k
  BY DEF Idle
<1>3. req' = [req EXCEPT ![r] = q]
  BY <1>1, Zenon
<1> HIDE DEF q
<1>4. req'[r] = q /\ OthersSame(r)
  BY <1>3, StepOthers
<1> QED
  BY <1>1, <1>2, <1>4 DEF Begun, ForgotStart

LEMMA ConfirmBegins ==
  ASSUME IInv, NEW r \in Reqs, ConfirmStart(r)
  PROVE  Begun(r, "confirm", "setpw") /\ req'[r].link \in mailed \cup {NoLink}
<1>1. PICK k \in mailed \cup {NoLink}, p \in Passwords :
        /\ req[r] = Idle
        /\ req' = [req EXCEPT ![r] = [[Idle EXCEPT !.link = k, !.pw = p]
                                       EXCEPT !.op = "confirm", !.pc = "setpw"]]
  BY Zenon DEF ConfirmStart, Begin
<1> DEFINE q == [[Idle EXCEPT !.link = k, !.pw = p] EXCEPT !.op = "confirm", !.pc = "setpw"]
<1>2. q.op = "confirm" /\ q.pc = "setpw" /\ q.status = 0 /\ q.link = k
  BY DEF Idle
<1>3. req' = [req EXCEPT ![r] = q]
  BY <1>1, Zenon
<1> HIDE DEF q
<1>4. req'[r] = q /\ OthersSame(r)
  BY <1>3, StepOthers
<1> QED
  BY <1>1, <1>2, <1>4 DEF Begun, ConfirmStart

LEMMA LookupEffect ==
  ASSUME IInv, NEW r \in Reqs, RefreshLookup(r)
  PROVE  \/ Finish(r, 401)
         \/ /\ OthersSame(r)
            /\ req'[r].op = "refresh" /\ req'[r].pc = "rotate" /\ req'[r].tok = req[r].tok
            /\ req[r].tok \in Tokens /\ req'[r].user = refresh[req[r].tok].user
            /\ req'[r].user \in Users /\ req'[r].seen = {users[req'[r].user]}
            /\ req'[r].status = req[r].status
<1>0. /\ req \in [Reqs -> Request] /\ ReqOK(r) /\ req[r].op = "refresh"
  BY DEF IInv, TypeOK, RefreshLookup, At
<1>1. PICK t \in Tokens, x \in Request : t = req[r].tok /\ x = req[r]
  BY <1>0 DEF ReqOK
<1> DEFINE u == refresh[t].user
<1>2. CASE /\ RowFound(t, CHOOSE s \in Salts : RowFound(t, s))
           /\ req' = [req EXCEPT ![r] = [x EXCEPT !.pc = "rotate", !.user = u, !.seen = {users[u]}]]
  <2>1. u \in Users
    BY <1>2 DEF RowFound, IInv, TypeOK, RowOK
  <2> DEFINE rows == {users[u]}
             q == [x EXCEPT !.pc = "rotate", !.user = u, !.seen = rows]
  <2>2. req'[r] = q /\ OthersSame(r)
    BY <1>2, StepOthers
  <2> HIDE DEF rows, u
  <2>3. /\ q.op = x.op /\ q.pc = "rotate" /\ q.tok = x.tok /\ q.user = u /\ q.seen = rows
        /\ q.status = x.status
    BY DEF Request
  <2> HIDE DEF q
  <2> QED
    BY <1>0, <1>1, <2>1, <2>2, <2>3 DEF rows, u
<1>3. CASE Finish(r, 401)
  BY <1>3
<1> QED
  <2>1. PICK s \in Salts :
          \/ /\ RowFound(t, s)
             /\ req' = [req EXCEPT ![r] = [x EXCEPT !.pc = "rotate", !.user = u, !.seen = {users[u]}]]
          \/ Finish(r, 401)
    BY <1>1, Zenon DEF RefreshLookup
  <2>2. RowFound(t, s) => RowFound(t, CHOOSE y \in Salts : RowFound(t, y))
    BY Zenon
  <2> QED
    BY <1>2, <1>3, <2>1, <2>2

LEMMA SnapshotEffect ==
  ASSUME IInv, NEW r \in Reqs, RevokeSnapshot(r)
  PROVE  \/ Finish(r, 200) /\ refresh' = Escaped({req[r].user})
         \/ /\ OthersSame(r) /\ UNCHANGED refresh
            /\ req'[r].op = req[r].op /\ req'[r].pc = "apply" /\ req'[r].link = req[r].link
            /\ req'[r].user = req[r].user /\ req'[r].snap = RowsOf(req[r].user)
<1>0. req[r] \in Request
  BY DEF IInv, TypeOK
<1>1. PICK x \in Request : x = req[r]
  BY <1>0
<1> DEFINE rows == RowsOf(x.user)
           q == [x EXCEPT !.pc = "apply", !.snap = rows]
<1>2. \/ Finish(r, 200) /\ refresh' = Escaped({req[r].user})
      \/ req' = [req EXCEPT ![r] = q] /\ UNCHANGED refresh
  BY <1>1, Zenon DEF RevokeSnapshot
<1> HIDE DEF rows
<1>3. q.op = x.op /\ q.pc = "apply" /\ q.link = x.link /\ q.user = x.user /\ q.snap = rows
  BY DEF Request
<1> HIDE DEF q
<1> QED
  BY <1>1, <1>2, <1>3, StepOthers DEF rows

LEMMA UnlinkEffect ==
  ASSUME IInv, NEW r \in Reqs, ResetUnlink(r)
  PROVE  Moves(r, "revoke", req[r].status) /\ OthersSame(r)
<1>1. Goto(r, "revoke")
  BY Zenon DEF ResetUnlink, AfterUnlink, Goto
<1> QED
  BY <1>1, GotoMoves

LEMMA ReplyEffect ==
  ASSUME IInv, NEW r \in Reqs, Reply(r)
  PROVE  req'[r] = Idle /\ OthersSame(r) /\ UNCHANGED <<users, refresh, lock, resetVars>>
  BY StepOthers DEF Reply

\* The two kinds of update of a user's row, by the request and the row that they
\* leave behind.
AccountUpdate(r, q) ==
  /\ q.op = req[r].op /\ q.user = req[r].user /\ q.link = req[r].link
  /\ q.pc \in {"revoke", "done"}
  /\ \E row \in UserRow, ends \in BOOLEAN : UpdateUser(r, q, req[r].user, row, ends)
  /\ UNCHANGED refresh \/ (refresh' = Doomed(req[r].user) /\ q.pc = "revoke")

LEMMA AccountUpdates ==
  ASSUME IInv, NEW r \in Reqs, BanUpdate(r) \/ RoleUpdate(r)
  PROVE  \/ \E q \in Request : AccountUpdate(r, q)
         \/ Finish(r, 500) /\ UNCHANGED <<users, refresh>>
<1>0. req[r] \in Request /\ req[r].op \in {"ban", "unban", "role"} /\ ReqOK(r)
  BY DEF IInv, TypeOK, BanUpdate, RoleUpdate, At
<1>1. PICK u \in Users, x \in Request : u = req[r].user /\ x = req[r]
  BY <1>0 DEF ReqOK
<1>2. users[u] \in UserRow
  BY <1>1 DEF IInv, TypeOK
<1>3. \A status \in {200, 500} :
        LET q == Finished(x, status)
        IN q \in Request /\ q.op = x.op /\ q.user = u /\ q.link = x.link /\ q.pc = "done"
  BY <1>1, FinishedIsRequest, FinishedFields
<1>4. CASE BanUpdate(r)
  <2> DEFINE ban == req[r].op = "ban"
  <2>1. PICK row \in UserRow : row = [users[u] EXCEPT !.banned = ban]
    <3>1. ban \in BOOLEAN
      OBVIOUS
    <3> HIDE DEF ban
    <3>2. [users[u] EXCEPT !.banned = ban] \in UserRow
      BY <1>2, <3>1 DEF UserRow
    <3> QED
      BY <3>2
  <2>2. CASE UpdateUser(r, AfterBan(x), u, row, ban) /\ refresh' = IF ban THEN Doomed(u) ELSE refresh
    <3> DEFINE q == AfterBan(x)
    <3>0. [x EXCEPT !.pc = "revoke"] \in Request
      BY FieldIsRequest DEF Pcs
    <3>1. /\ [x EXCEPT !.pc = "revoke"].op = x.op /\ [x EXCEPT !.pc = "revoke"].user = x.user
          /\ [x EXCEPT !.pc = "revoke"].link = x.link /\ [x EXCEPT !.pc = "revoke"].pc = "revoke"
      BY DEF Request
    <3>2. /\ q \in Request /\ q.op = x.op /\ q.user = u /\ q.link = x.link /\ q.pc \in {"revoke", "done"}
          /\ ban => q.pc = "revoke"
      BY <1>1, <1>3, <3>0, <3>1 DEF AfterBan
    <3>3. ban \in BOOLEAN
      OBVIOUS
    <3> HIDE DEF q
    <3>4. UpdateUser(r, q, u, row, ban)
      BY <2>2 DEF q
    <3>5. \E ends \in BOOLEAN : UpdateUser(r, q, u, row, ends)
      BY <3>3, <3>4, Zenon
    <3>6. UNCHANGED refresh \/ (refresh' = Doomed(u) /\ q.pc = "revoke")
      BY <2>2, <3>2
    <3> QED
      BY <1>1, <3>2, <3>5, <3>6, Zenon DEF AccountUpdate
  <2>3. CASE UpdateUser(r, Finished(x, 500), u, row, FALSE) /\ UNCHANGED refresh
    <3>1. FALSE \in BOOLEAN /\ 500 \in {200, 500}
      OBVIOUS
    <3>2. Finished(x, 500).pc \in {"revoke", "done"}
      BY <1>3
    <3> QED
      BY <1>1, <1>3, <2>3, <3>1, <3>2, Zenon DEF AccountUpdate
  <2> QED
    BY <1>1, <1>4, <2>1, <2>2, <2>3, Zenon DEF BanUpdate
<1>5. CASE RoleUpdate(r)
  <2>1. PICK row \in UserRow : row = [users[u] EXCEPT !.role = req[r].role]
    <3>1. req[r].role \in Roles
      BY <1>0, <1>5 DEF ReqOK, RoleUpdate, At
    <3>2. [users[u] EXCEPT !.role = req[r].role] \in UserRow
      BY <1>2, <3>1 DEF UserRow
    <3> QED
      BY <3>2
  <2>2. ASSUME NEW status \in {200, 500}, UpdateUser(r, Finished(x, status), u, row, FALSE), UNCHANGED refresh
        PROVE  \E q \in Request : AccountUpdate(r, q)
    <3>1. FALSE \in BOOLEAN
      OBVIOUS
    <3>2. Finished(x, status).pc \in {"revoke", "done"}
      BY <1>3
    <3> QED
      BY <1>1, <1>3, <2>2, <3>1, <3>2, Zenon DEF AccountUpdate
  <2>3. 200 \in {200, 500} /\ 500 \in {200, 500}
    OBVIOUS
  <2>4. UNCHANGED refresh
    BY <1>5 DEF RoleUpdate
  <2> QED
    BY <1>1, <1>5, <2>1, <2>2, <2>3, <2>4, Zenon DEF RoleUpdate
<1> QED
  BY <1>4, <1>5

ResetWrite(r, q, u) ==
  /\ q.op = req[r].op /\ q.link = req[r].link
  /\ \E row \in UserRow, ends \in BOOLEAN : UpdateUser(r, q, u, row, ends)
  /\ owed' = [owed EXCEPT ![u] = IF @ = req[r].link THEN NoLink ELSE @]
  /\ UNCHANGED <<lock, reset, issued, mailed, clientVars>>
  /\ \/ /\ q.pc = "unlink" /\ q.user = u /\ refresh' = Doomed(u)
        /\ spent' = [spent EXCEPT ![req[r].link] = 1]
     \/ /\ q.pc = "done" /\ UNCHANGED refresh
        /\ spent' = [spent EXCEPT ![req[r].link] = IF @ = 1 THEN 1 ELSE 2]

LEMMA ResetWrites ==
  ASSUME IInv, NEW r \in Reqs, ResetUpdate(r)
  PROVE  \E q \in Request, u \in Holders(req[r].link) : ResetWrite(r, q, u)
<1>0. req[r] \in Request /\ req[r].pw \in Passwords
  BY DEF IInv, TypeOK, ResetUpdate, At, ReqOK
<1>1. PICK x \in Request : x = req[r]
  BY <1>0
<1>2. PICK u \in Holders(x.link) :
        /\ \/ /\ UpdateUser(r, [x EXCEPT !.pc = "unlink", !.user = u], u,
                            [users[u] EXCEPT !.pw = x.pw], TRUE)
              /\ refresh' = Doomed(u)
              /\ spent' = [spent EXCEPT ![x.link] = 1]
           \/ /\ UpdateUser(r, Finished(x, 500), u, [users[u] EXCEPT !.pw = x.pw], FALSE)
              /\ spent' = [spent EXCEPT ![x.link] = IF @ = 1 THEN 1 ELSE 2]
              /\ UNCHANGED refresh
        /\ owed' = [owed EXCEPT ![u] = IF @ = x.link THEN NoLink ELSE @]
  BY <1>1, Zenon DEF ResetUpdate
<1>3. u \in Users
  BY DEF Holders
<1> DEFINE row == [users[u] EXCEPT !.pw = x.pw]
<1>4. row \in UserRow
  BY <1>0, <1>1, <1>3 DEF UserRow, IInv, TypeOK
<1>5. UNCHANGED <<lock, reset, issued, mailed, clientVars>>
  BY DEF ResetUpdate
<1>6. TRUE \in BOOLEAN /\ FALSE \in BOOLEAN
  OBVIOUS
<1>7. CASE /\ UpdateUser(r, [x EXCEPT !.pc = "unlink", !.user = u], u, row, TRUE)
           /\ refresh' = Doomed(u) /\ spent' = [spent EXCEPT ![x.link] = 1]
  <2> DEFINE y == [x EXCEPT !.pc = "unlink"]
             q == [y EXCEPT !.user = u]
  <2>1. y \in Request
    BY FieldIsRequest DEF Pcs
  <2>2. q.op = x.op /\ q.link = x.link /\ q.pc = "unlink" /\ q.user = u
    BY <1>3 DEF Request
  <2>3. UpdateUser(r, q, u, row, TRUE)
    BY <1>7
  <2> HIDE DEF y
  <2>4. q \in Request
    BY <1>3, <2>1, FieldIsRequest
  <2> HIDE DEF q
  <2> QED
    BY <1>1, <1>2, <1>4, <1>5, <1>6, <1>7, <2>2, <2>3, <2>4, Zenon DEF ResetWrite
<1>8. CASE /\ UpdateUser(r, Finished(x, 500), u, row, FALSE) /\ UNCHANGED refresh
           /\ spent' = [spent EXCEPT ![x.link] = IF @ = 1 THEN 1 ELSE 2]
  <2>1. Finished(x, 500) \in Request
    BY FinishedIsRequest
  <2>2. Finished(x, 500).op = x.op /\ Finished(x, 500).link = x.link /\ Finished(x, 500).pc = "done"
    BY FinishedFields
  <2>3. /\ spent' = [spent EXCEPT ![req[r].link] = IF @ = 1 THEN 1 ELSE 2]
        /\ owed' = [owed EXCEPT ![u] = IF @ = req[r].link THEN NoLink ELSE @]
        /\ u \in Holders(req[r].link)
    BY <1>1, <1>2, <1>8
  <2> DEFINE q == Finished(x, 500)
  <2>4. UpdateUser(r, q, u, row, FALSE)
    BY <1>8
  <2> HIDE DEF q, row
  <2>5. \E y \in UserRow, ends \in BOOLEAN : UpdateUser(r, q, u, y, ends)
    BY <1>4, <1>6, <2>4, Zenon
  <2>6. q \in Request /\ q.op = req[r].op /\ q.link = req[r].link /\ q.pc = "done"
    BY <1>1, <2>1, <2>2 DEF q
  <2>7. ResetWrite(r, q, u)
    BY <1>5, <1>8, <2>3, <2>5, <2>6, Zenon DEF ResetWrite
  <2> QED
    BY <2>3, <2>6, <2>7
<1> QED
  BY <1>2, <1>7, <1>8, Zenon

\* What an update of a user's row leaves alone in every other request.
OthersKeep(r) ==
  \A p \in Reqs \ {r} :
    /\ req'[p].op = req[p].op /\ req'[p].pc = req[p].pc /\ req'[p].user = req[p].user
    /\ req'[p].pw = req[p].pw /\ req'[p].link = req[p].link /\ req'[p].copy = req[p].copy
    /\ req'[p].snap = req[p].snap /\ req'[p].status = req[p].status /\ req'[p].tok = req[p].tok

LEMMA UpdateKeeps ==
  ASSUME IInv, NEW r \in Reqs, NEW q \in Request, NEW u \in Users,
         \E row \in UserRow, ends \in BOOLEAN : UpdateUser(r, q, u, row, ends)
  PROVE  req'[r] = q /\ OthersKeep(r)
<1>1. PICK row \in UserRow, ends \in BOOLEAN : UpdateUser(r, q, u, row, ends)
  OBVIOUS
<1> QED
  BY <1>1, UpdateUserStep DEF OthersKeep

LEMMA SameKeeps ==
  ASSUME NEW r \in Reqs, OthersSame(r)
  PROVE  OthersKeep(r)
  BY DEF OthersSame, OthersKeep

-----------------------------------------------------------------------------
(***************************************************************************)
(* The rights in an answer.  While a request goes on, seen holds the row   *)
(* of its user as it is now; once the row was copied, the copy is one of   *)
(* those, and it passed the checks.                                        *)
(***************************************************************************)
Watches(op, pc) ==
  \/ op = "login" /\ pc = "read"
  \/ op = "refresh" /\ pc \in {"rotate", "user"}
Minted(op, pc, status) ==
  \/ op = "login" /\ pc = "insert"
  \/ op \in {"login", "refresh"} /\ pc = "done" /\ status = 200

MintOK(r) ==
  /\ Watches(req[r].op, req[r].pc) => req[r].user \in Users /\ users[req[r].user] \in req[r].seen
  /\ Minted(req[r].op, req[r].pc, req[r].status) =>
       /\ req[r].copy \in req[r].seen /\ ~req[r].copy.banned
       /\ req[r].op = "login" => req[r].copy.pw = req[r].pw /\ req[r].copy.verified

MInv == \A r \in Reqs : MintOK(r)

LEMMA MintLocal ==
  ASSUME MInv, NEW r \in Reqs, UNCHANGED users, OthersSame(r), MintOK(r)'
  PROVE  MInv'
  BY DEF MInv, MintOK, OthersSame

\* The rows that a request has seen grow with every update of its user.
LEMMA MintUpdate ==
  ASSUME IInv, MInv, NEW r \in Reqs, NEW q \in Request, NEW u \in Users, MintOK(r)',
         \E row \in UserRow, ends \in BOOLEAN : UpdateUser(r, q, u, row, ends)
  PROVE  MInv'
<1>1. PICK row \in UserRow, ends \in BOOLEAN : UpdateUser(r, q, u, row, ends)
  OBVIOUS
<1>2. users \in [Users -> UserRow] /\ req \in [Reqs -> Request] /\ users' = [users EXCEPT ![u] = row]
  BY <1>1 DEF IInv, TypeOK, UpdateUser
<1>3. OthersKeep(r)
  BY UpdateKeeps
<1>4. ASSUME NEW p \in Reqs, p # r
      PROVE  req'[p].seen = IF req[p].user = u /\ req[p].seen # {} THEN req[p].seen \cup {row} ELSE req[p].seen
  <2> DEFINE late == req[p].late \/ (ends /\ req[p].op = "login" /\ req[p].copy # NoRow)
             seen == req[p].seen \cup {row}
  <2>1. req'[p] = IF req[p].user = u /\ req[p].seen # {} THEN [req[p] EXCEPT !.seen = seen, !.late = late]
                                                         ELSE req[p]
    BY <1>1, <1>4, Zenon DEF UpdateUser
  <2> HIDE DEF late, seen
  <2>2. [req[p] EXCEPT !.seen = seen, !.late = late].seen = seen
    <3>1. req[p] \in Request
      BY <1>2
    <3> QED
      BY <3>1 DEF Request
  <2> QED
    BY <2>1, <2>2 DEF seen
<1>5. ASSUME NEW p \in Reqs, p # r
      PROVE  MintOK(p)'
  <2>1. MintOK(p)
    BY DEF MInv
  <2>2. /\ req'[p].op = req[p].op /\ req'[p].pc = req[p].pc /\ req'[p].user = req[p].user
        /\ req'[p].pw = req[p].pw /\ req'[p].copy = req[p].copy /\ req'[p].status = req[p].status
    BY <1>3, <1>5 DEF OthersKeep
  <2>3. req[p].user \in Users /\ users[req[p].user] \in req[p].seen =>
          users'[req[p].user] \in req'[p].seen
    BY <1>2, <1>4, <1>5
  <2>4. req[p].seen \subseteq req'[p].seen
    BY <1>4, <1>5
  <2> QED
    BY <2>1, <2>2, <2>3, <2>4 DEF MintOK
<1> QED
  BY <1>5 DEF MInv

\* A request that neither reads nor answers with rights.
LEMMA NotMinting ==
  ASSUME NEW r \in Reqs, ~Watches(req'[r].op, req'[r].pc), ~Minted(req'[r].op, req'[r].pc, req'[r].status)
  PROVE  MintOK(r)'
  BY DEF MintOK

LEMMA LoginMints ==
  ASSUME IInv, MInv, NEW r \in Reqs, LoginRead(r) \/ LoginInsert(r)
  PROVE  MInv'
<1>0. req \in [Reqs -> Request] /\ ReqOK(r) /\ MintOK(r) /\ UNCHANGED users /\ req[r].op = "login"
  BY DEF IInv, TypeOK, MInv, LoginRead, LoginInsert, At
<1>1. CASE \E status \in {401, 403, 500} : Finish(r, status)
  <2>1. PICK status \in {401, 403, 500} : Finish(r, status)
    BY <1>1
  <2> QED
    BY <1>0, <2>1, FinishMoves, MintLocal, NotMinting DEF Moves, Watches, Minted
<1>2. CASE LoginInsert(r) /\ Finish(r, 200)
  <2>1. req[r].pc = "insert"
    BY <1>2 DEF LoginInsert, At
  <2>2. Moves(r, "done", 200) /\ OthersSame(r)
    BY <1>2, FinishMoves
  <2>3. Minted(req[r].op, req[r].pc, req[r].status)
    BY <1>0, <2>1 DEF Minted
  <2>4. /\ req'[r].copy = req[r].copy /\ req'[r].seen = req[r].seen /\ req'[r].pw = req[r].pw
        /\ req'[r].op = "login" /\ req'[r].pc = "done"
    BY <1>0, <2>2 DEF Moves
  <2>5. ~Watches(req'[r].op, req'[r].pc)
    BY <2>4 DEF Watches
  <2>6. /\ req'[r].copy \in req'[r].seen /\ ~req'[r].copy.banned
        /\ req'[r].copy.pw = req'[r].pw /\ req'[r].copy.verified
    BY <1>0, <2>3, <2>4, Zenon DEF MintOK
  <2>7. MintOK(r)'
    BY <2>5, <2>6 DEF MintOK
  <2> QED
    BY <1>0, <2>2, <2>7, MintLocal
<1>3. CASE /\ LoginRead(r) /\ LoginVerdict(users[req[r].user], req[r].pw) = 200
           /\ req' = [req EXCEPT ![r] = [@ EXCEPT !.pc = "insert", !.copy = users[req[r].user]]]
  <2>1. req[r].pc = "read" /\ req[r].user \in Users
    BY <1>0, <1>3 DEF LoginRead, At, ReqOK
  <2>2. PICK row \in UserRow : row = users[req[r].user]
    BY <2>1 DEF IInv, TypeOK
  <2> DEFINE q == [req[r] EXCEPT !.pc = "insert", !.copy = row]
  <2>3. q.pc = "insert" /\ q.copy = row /\ q.op = "login" /\ q.seen = req[r].seen /\ q.pw = req[r].pw
    BY <1>0 DEF Request
  <2>4. req' = [req EXCEPT ![r] = q]
    BY <1>3, <2>2
  <2> HIDE DEF q
  <2>5. req'[r] = q /\ OthersSame(r)
    BY <2>4, StepOthers
  <2>6. row.pw = req[r].pw /\ ~row.banned /\ row.verified
    BY <1>3, <2>2 DEF LoginVerdict, UserRow
  <2>7. MintOK(r)'
    BY <1>0, <2>1, <2>2, <2>3, <2>5, <2>6 DEF MintOK, Watches, Minted
  <2> QED
    BY <1>0, <2>5, <2>7, MintLocal
<1>4. CASE LoginRead(r)
  <2> DEFINE verdict == LoginVerdict(users[req[r].user], req[r].pw)
  <2>1. \/ /\ verdict = 200
           /\ req' = [req EXCEPT ![r] = [@ EXCEPT !.pc = "insert", !.copy = users[req[r].user]]]
        \/ verdict # 200 /\ Finish(r, verdict)
        \/ Finish(r, 401)
    BY <1>4, Zenon DEF LoginRead
  <2>2. verdict \in {200, 401, 403}
    BY DEF LoginVerdict
  <2>3. CASE /\ verdict = 200
             /\ req' = [req EXCEPT ![r] = [@ EXCEPT !.pc = "insert", !.copy = users[req[r].user]]]
    BY <1>3, <1>4, <2>3
  <2>4. CASE verdict # 200 /\ Finish(r, verdict)
    <3> HIDE DEF verdict
    <3> QED
      BY <1>1, <2>2, <2>4
  <2>5. CASE Finish(r, 401)
    BY <1>1, <2>5
  <2> QED
    BY <2>1, <2>3, <2>4, <2>5, Zenon
<1>5. CASE LoginInsert(r)
  BY <1>1, <1>2, <1>5 DEF LoginInsert
<1> QED
  BY <1>4, <1>5

LEMMA RefreshMints ==
  ASSUME IInv, MInv, NEW r \in Reqs, RefreshLookup(r) \/ RefreshRotate(r) \/ RefreshGetUser(r)
  PROVE  MInv'
<1>0. req \in [Reqs -> Request] /\ MintOK(r) /\ UNCHANGED users /\ req[r].op = "refresh"
  BY DEF IInv, TypeOK, MInv, RefreshLookup, RefreshRotate, RefreshGetUser, At
<1>1. CASE \E status \in {401, 403, 404} : Finish(r, status)
  <2>1. PICK status \in {401, 403, 404} : Finish(r, status)
    BY <1>1
  <2> QED
    BY <1>0, <2>1, FinishMoves, MintLocal, NotMinting DEF Moves, Watches, Minted
<1>2. CASE RefreshLookup(r)
  <2>1. CASE Finish(r, 401)
    BY <1>1, <2>1
  <2>2. CASE ~Finish(r, 401)
    <3>1. /\ OthersSame(r) /\ req'[r].pc = "rotate"
          /\ req'[r].user \in Users /\ req'[r].seen = {users[req'[r].user]}
      BY <1>2, <2>2, LookupEffect
    <3>2. MintOK(r)'
      BY <1>0, <3>1 DEF MintOK, Minted
    <3> QED
      BY <1>0, <3>1, <3>2, MintLocal
  <2> QED
    BY <2>1, <2>2
<1>3. CASE RefreshRotate(r)
  <2>1. CASE Goto(r, "user")
    <3>1. Moves(r, "user", req[r].status) /\ OthersSame(r)
      BY <2>1, GotoMoves
    <3>2. Watches(req[r].op, req[r].pc)
      BY <1>0, <1>3 DEF RefreshRotate, At, Watches
    <3>3. MintOK(r)'
      BY <1>0, <3>1, <3>2 DEF MintOK, Minted, Moves
    <3> QED
      BY <1>0, <3>1, <3>3, MintLocal
  <2> QED
    BY <1>1, <1>3, <2>1 DEF RefreshRotate
<1>4. CASE RefreshGetUser(r)
  <2>1. Watches(req[r].op, req[r].pc)
    BY <1>0, <1>4 DEF RefreshGetUser, At, Watches
  <2>2. PICK row \in UserRow : row = users[req[r].user]
    BY <1>0, <2>1 DEF MintOK, IInv, TypeOK
  <2>3. CASE ~row.banned /\ req' = [req EXCEPT ![r] = Finished([@ EXCEPT !.copy = row], 200)]
    <3> DEFINE x == [req[r] EXCEPT !.copy = row]
               q == Finished(x, 200)
    <3>1. x \in Request /\ x.op = "refresh" /\ x.copy = row /\ x.seen = req[r].seen
      BY <1>0, FieldIsRequest DEF Request
    <3>2. req' = [req EXCEPT ![r] = q]
      BY <2>3
    <3> HIDE DEF x
    <3>3. q.op = "refresh" /\ q.copy = row /\ q.seen = req[r].seen /\ q.pc = "done"
      BY <3>1, FinishedFields
    <3> HIDE DEF q
    <3>4. req'[r] = q /\ OthersSame(r)
      BY <3>2, StepOthers
    <3>5. MintOK(r)'
      BY <1>0, <2>1, <2>2, <2>3, <3>3, <3>4 DEF MintOK, Watches
    <3> QED
      BY <1>0, <3>4, <3>5, MintLocal
  <2>4. \/ Finish(r, 403) \/ Finish(r, 404)
        \/ ~row.banned /\ req' = [req EXCEPT ![r] = Finished([@ EXCEPT !.copy = row], 200)]
    BY <1>4, <2>2 DEF RefreshGetUser
  <2> QED
    BY <1>1, <2>3, <2>4
<1> QED
  BY <1>2, <1>3, <1>4

LEMMA UpdateMints ==
  ASSUME IInv, MInv, NEW r \in Reqs, BanUpdate(r) \/ RoleUpdate(r) \/ ResetUpdate(r)
  PROVE  MInv'
<1>0. req[r].op \in {"ban", "unban", "role", "confirm"} /\ ReqOK(r)
  BY DEF IInv, BanUpdate, RoleUpdate, ResetUpdate, At
<1>1. ASSUME NEW q \in Request, NEW u \in Users, q.op = req[r].op,
             \E row \in UserRow, ends \in BOOLEAN : UpdateUser(r, q, u, row, ends)
      PROVE  MInv'
  <2>1. req'[r] = q
    BY <1>1, UpdateKeeps
  <2>2. MintOK(r)'
    BY <1>0, <1>1, <2>1 DEF MintOK, Watches, Minted
  <2> QED
    BY <1>1, <2>2, MintUpdate
<1>2. CASE BanUpdate(r) \/ RoleUpdate(r)
  <2>1. req[r].user \in Users
    BY <1>0, <1>2 DEF ReqOK, BanUpdate, RoleUpdate, At
  <2>2. CASE Finish(r, 500) /\ UNCHANGED users
    BY <1>0, <2>2, FinishMoves, MintLocal, NotMinting DEF Moves, Watches, Minted
  <2> QED
    BY <1>1, <1>2, <2>1, <2>2, AccountUpdates DEF AccountUpdate
<1>3. CASE ResetUpdate(r)
  <2>1. PICK q \in Request, u \in Holders(req[r].link) : ResetWrite(r, q, u)
    BY <1>3, ResetWrites
  <2> QED
    BY <1>1, <2>1 DEF ResetWrite, Holders
<1> QED
  BY <1>2, <1>3

LEMMA StartMints ==
  ASSUME IInv, MInv, NEW r \in Reqs, Start(r)
  PROVE  MInv'
<1>1. CASE \E u \in Users : LoginStart(r, u)
  <2>1. PICK u \in Users : LoginStart(r, u)
    BY <1>1
  <2>2. Begun(r, "login", "read") /\ req'[r].user = u /\ users[u] \in req'[r].seen
    BY <2>1, LoginBegins
  <2>3. MintOK(r)'
    BY <2>2 DEF MintOK, Begun, Minted
  <2> QED
    BY <2>2, <2>3, MintLocal DEF Begun
<1>2. CASE \E op, pc : Begun(r, op, pc) /\ op # "login" /\ pc \notin {"rotate", "user"}
  <2>1. PICK op, pc : Begun(r, op, pc) /\ op # "login" /\ pc \notin {"rotate", "user"}
    BY <1>2
  <2>2. MintOK(r)'
    BY <2>1, NotMinting DEF Begun, Watches, Minted
  <2> QED
    BY <2>1, <2>2, MintLocal DEF Begun
<1> QED
  BY <1>1, <1>2, LogoutBegins, ForgotBegins, AdminBegins, RefreshBegins, ConfirmBegins DEF Start

LEMMA OtherMints ==
  ASSUME IInv, MInv, NEW r \in Reqs,
         \/ RevokeSnapshot(r) \/ RevokeApply(r) \/ ForgotRead(r) \/ ForgotUpsert(r) \/ ForgotMail(r)
         \/ ResetUnknown(r) \/ ResetUnlink(r) \/ Reply(r)
  PROVE  MInv'
<1>1. UNCHANGED users
  BY DEF RevokeSnapshot, RevokeApply, ForgotRead, ForgotUpsert, ForgotMail, ResetUnknown, ResetUnlink, Reply
<1>2. CASE Reply(r)
  <2>1. req'[r] = Idle /\ OthersSame(r)
    BY <1>2, ReplyEffect
  <2> QED
    BY <1>1, <2>1, MintLocal, NotMinting, IdleFields DEF Watches, Minted
<1>3. CASE ~Reply(r)
  <2>1. req[r].op \in {"logout", "ban", "unban", "forgot", "confirm"}
    BY <1>3 DEF RevokeSnapshot, RevokeApply, ForgotRead, ForgotUpsert, ForgotMail, ResetUnknown, ResetUnlink, At
  <2>2. req'[r].op = req[r].op /\ OthersSame(r)
    <3>1. CASE \E status : Finish(r, status)
      BY <3>1, FinishMoves DEF Moves
    <3>2. CASE \E pc : Goto(r, pc)
      BY <3>2, GotoMoves DEF Moves
    <3>3. CASE RevokeSnapshot(r)
      BY <3>1, <3>3, SnapshotEffect
    <3>4. CASE ResetUnlink(r)
      BY <3>4, UnlinkEffect DEF Moves
    <3>5. CASE RevokeApply(r)
      BY <3>1, <3>5 DEF RevokeApply
    <3>6. CASE ForgotRead(r) \/ ForgotUpsert(r) \/ ForgotMail(r) \/ ResetUnknown(r)
      BY <3>1, <3>2, <3>6 DEF ForgotRead, ForgotUpsert, ForgotMail, ResetUnknown
    <3> QED
      BY <1>3, <3>3, <3>4, <3>5, <3>6
  <2>3. MintOK(r)'
    BY <2>1, <2>2, NotMinting DEF Watches, Minted
  <2> QED
    BY <1>1, <2>2, <2>3, MintLocal
<1> QED
  BY <1>2, <1>3

LEMMA EnvironmentMints ==
  ASSUME IInv, MInv, Environment \/ UNCHANGED vars
  PROVE  MInv'
<1>1. CASE UNCHANGED <<users, req>>
  BY <1>1 DEF MInv, MintOK
<1>2. CASE Crash
  BY <1>2, IdleFields DEF Crash, MInv, MintOK, Watches, Minted
<1> QED
  BY <1>1, <1>2 DEF Environment, ExpireRefresh, ExpireAccess, ExpireReset, vars

LEMMA NextMInv == IInv /\ MInv /\ [Next]_vars => MInv'
<1> SUFFICES ASSUME IInv, MInv, [Next]_vars PROVE MInv'
  OBVIOUS
<1>1. ASSUME NEW r \in Reqs, Start(r) \/ Run(r) \/ Wait(r) PROVE MInv'
  BY <1>1, StartMints, LoginMints, RefreshMints, UpdateMints, OtherMints DEF Run, Wait
<1> QED
  BY <1>1, EnvironmentMints DEF Next

LEMMA InitMInv == Init => MInv
  BY IdleFields DEF Init, MInv, MintOK, Watches, Minted

LEMMA MInvHolds == Spec => []MInv
  BY InitMInv, NextMInv, IInvHolds, PTL DEF Spec

\* Whatever runs in between, the role in an answered JWT is one that its user
\* held, unbanned, at one moment of the request (and with that password, when it
\* is a login).
THEOREM RightsAreOfOneMoment == Spec => []MintsReflectOneRow
<1>1. Spec => []MInv
  BY MInvHolds
<1>2. MInv => MintsReflectOneRow
  <2> SUFFICES ASSUME MInv, NEW r \in Reqs, At(r, {"login", "refresh"}, "done"), req[r].status = 200
               PROVE  \E row \in req[r].seen :
                        /\ row.role = req[r].copy.role /\ ~row.banned
                        /\ req[r].op = "login" => row.pw = req[r].pw /\ row.verified
    BY DEF MintsReflectOneRow
  <2>1. MintOK(r) /\ Minted(req[r].op, req[r].pc, req[r].status)
    BY DEF MInv, At, Minted
  <2> QED
    BY <2>1, Zenon DEF MintOK
<1> QED
  BY <1>1, <1>2, PTL

-----------------------------------------------------------------------------
(***************************************************************************)
(* The end of sessions.  A doomed session is covered from the step that    *)
(* dooms it; only the request that covers it can stop doing so, when the   *)
(* session is revoked or its revocation fails.                             *)
(***************************************************************************)
Revoking == {"unlink", "revoke", "apply"}

\* Every session that is doomed after the step was so before.
NoneDoomed ==
  \A t \in Tokens : Unrevoked(t)' /\ refresh'[t].fate = "doomed" =>
    Unrevoked(t) /\ refresh[t].fate = "doomed" /\ refresh'[t].user = refresh[t].user

LEMMA CoveredByOthers ==
  ASSUME RevocationComplete, NEW r \in Reqs, OthersKeep(r), req[r].pc \notin Revoking, NoneDoomed
  PROVE  RevocationComplete'
<1> SUFFICES ASSUME NEW t \in Tokens, Unrevoked(t)', refresh'[t].fate = "doomed"
             PROVE  \E p \in Reqs : Covers(p, t)'
  BY DEF RevocationComplete
<1>1. Unrevoked(t) /\ refresh[t].fate = "doomed" /\ refresh'[t].user = refresh[t].user
  BY DEF NoneDoomed
<1>2. PICK p \in Reqs : Covers(p, t)
  BY <1>1 DEF RevocationComplete
<1>3. p # r
  BY <1>2 DEF Covers, Revoking
<1>4. Covers(p, t)'
  BY <1>1, <1>2, <1>3 DEF OthersKeep, Covers
<1> QED
  BY <1>4

LEMMA DoomedFates ==
  ASSUME IInv, NEW u, refresh' = Doomed(u), NEW t \in Tokens
  PROVE  /\ Unrevoked(t)' <=> Unrevoked(t)
         /\ refresh'[t].user = refresh[t].user
         /\ refresh'[t].fate = "doomed" => refresh[t].fate = "doomed" \/ refresh[t].user = u
<1>1. refresh[t] \in Row /\ refresh'[t] \in {refresh[t], [refresh[t] EXCEPT !.fate = "doomed"]}
  BY DEF IInv, TypeOK, Doomed
<1>2. refresh[t].user # u => refresh'[t] = refresh[t]
  BY DEF Doomed
<1> QED
  BY <1>1, <1>2 DEF Row, Unrevoked

LEMMA EscapedFates ==
  ASSUME IInv, NEW us, refresh' = Escaped(us), NEW t \in Tokens
  PROVE  /\ Unrevoked(t)' <=> Unrevoked(t)
         /\ refresh'[t].user = refresh[t].user
         /\ refresh'[t].fate = "doomed" => refresh[t].fate = "doomed" /\ refresh[t].user \notin us
<1>1. refresh[t] \in Row
  BY DEF IInv, TypeOK
<1>2. CASE refresh[t].user \in us /\ refresh[t].fate = "doomed"
  <2>1. refresh'[t] = [refresh[t] EXCEPT !.fate = "escaped"]
    BY <1>2 DEF Escaped
  <2> QED
    BY <1>1, <2>1 DEF Row, Unrevoked
<1>3. CASE ~(refresh[t].user \in us /\ refresh[t].fate = "doomed")
  <2>1. refresh'[t] = refresh[t]
    BY <1>3 DEF Escaped
  <2> QED
    BY <1>3, <2>1 DEF Unrevoked
<1> QED
  BY <1>2, <1>3

LEMMA SameFates ==
  ASSUME UNCHANGED refresh
  PROVE  NoneDoomed
  BY DEF NoneDoomed, Unrevoked

LEMMA CoveredByItself ==
  ASSUME IInv, RevocationComplete, NEW r \in Reqs, NEW u, OthersKeep(r), req[r].pc \notin Revoking,
         refresh' = Doomed(u), req'[r].user = u, req'[r].pc \in {"unlink", "revoke"}
  PROVE  RevocationComplete'
<1> SUFFICES ASSUME NEW t \in Tokens, Unrevoked(t)', refresh'[t].fate = "doomed"
             PROVE  \E p \in Reqs : Covers(p, t)'
  BY DEF RevocationComplete
<1>1. /\ Unrevoked(t) /\ refresh'[t].user = refresh[t].user
      /\ refresh[t].fate = "doomed" \/ refresh[t].user = u
  BY DoomedFates
<1>2. CASE refresh[t].user = u
  <2>1. Covers(r, t)'
    BY <1>1, <1>2 DEF Covers
  <2> QED
    BY <2>1
<1>3. CASE refresh[t].fate = "doomed"
  <2>1. PICK p \in Reqs : Covers(p, t)
    BY <1>1, <1>3 DEF RevocationComplete
  <2>2. p # r
    BY <2>1 DEF Covers, Revoking
  <2>3. Covers(p, t)'
    BY <1>1, <2>1, <2>2 DEF OthersKeep, Covers
  <2> QED
    BY <2>3
<1> QED
  BY <1>1, <1>2, <1>3

\* A request that hands a session on, from one way to cover it to the next.
LEMMA CoveredOn ==
  ASSUME RevocationComplete, NEW r \in Reqs, OthersKeep(r), NoneDoomed,
         \A t \in Tokens : Unrevoked(t)' /\ refresh'[t].fate = "doomed" /\ Covers(r, t) => Covers(r, t)'
  PROVE  RevocationComplete'
<1> SUFFICES ASSUME NEW t \in Tokens, Unrevoked(t)', refresh'[t].fate = "doomed"
             PROVE  \E p \in Reqs : Covers(p, t)'
  BY DEF RevocationComplete
<1>1. Unrevoked(t) /\ refresh[t].fate = "doomed" /\ refresh'[t].user = refresh[t].user
  BY DEF NoneDoomed
<1>2. PICK p \in Reqs : Covers(p, t)
  BY <1>1 DEF RevocationComplete
<1>3. Covers(p, t)'
  BY <1>1, <1>2 DEF OthersKeep, Covers
<1> QED
  BY <1>3

LEMMA StartCovers ==
  ASSUME IInv, RevocationComplete, NEW r \in Reqs, Start(r)
  PROVE  RevocationComplete'
<1>0. req[r] = Idle => req[r].pc \notin Revoking
  BY IdleFields DEF Revoking
<1>1. CASE \E u \in Users : LogoutStart(r, u)
  <2>1. PICK u \in Users : LogoutStart(r, u)
    BY <1>1
  <2>2. Begun(r, "logout", "revoke") /\ req'[r].user = u /\ refresh' = Doomed(u)
    BY <2>1, LogoutBegins DEF LogoutStart
  <2>3. req'[r].pc \in {"unlink", "revoke"} /\ req[r].pc \notin Revoking /\ OthersKeep(r)
    BY <1>0, <2>2, SameKeeps DEF Begun
  <2> QED
    BY <2>2, <2>3, CoveredByItself
<1>2. CASE UNCHANGED refresh /\ \E op, pc : Begun(r, op, pc)
  BY <1>0, <1>2, SameKeeps, SameFates, CoveredByOthers DEF Begun
<1>3. ASSUME NEW u \in Users, LoginStart(r, u) PROVE RevocationComplete'
  BY <1>2, <1>3, LoginBegins DEF LoginStart
<1>4. ASSUME NEW u \in Users, ForgotStart(r, u) PROVE RevocationComplete'
  BY <1>2, <1>4, ForgotBegins DEF ForgotStart
<1>5. ASSUME NEW op, NEW u \in Users, AdminStart(r, op, u) PROVE RevocationComplete'
  BY <1>2, <1>5, AdminBegins DEF AdminStart
<1>6. ASSUME NEW t \in Tokens, RefreshStart(r, t) PROVE RevocationComplete'
  BY <1>2, <1>6, RefreshBegins DEF RefreshStart
<1>7. CASE ConfirmStart(r)
  BY <1>2, <1>7, ConfirmBegins DEF ConfirmStart
<1> QED
  BY <1>1, <1>3, <1>4, <1>5, <1>6, <1>7 DEF Start

\* New rows are in no revocation's way: nothing has doomed them yet, or a
\* rotation carried them past it.
LEMMA InsertCovers ==
  ASSUME IInv, RevocationComplete, NEW r \in Reqs, LoginInsert(r) \/ RefreshRotate(r)
  PROVE  RevocationComplete'
<1>0. /\ refresh \in [Tokens -> Row] /\ ReqOK(r) /\ LockOK(r) /\ req[r].op \in {"login", "refresh"}
      /\ req[r].pc \notin Revoking
  BY DEF IInv, TypeOK, LoginInsert, RefreshRotate, At, Revoking
<1>1. OthersKeep(r)
  BY FinishMoves, GotoMoves, SameKeeps DEF LoginInsert, RefreshRotate
<1>2. PICK f \in Tokens : f = req[r].fresh
  BY <1>0 DEF ReqOK
<1>3. CASE LoginInsert(r)
  <2>1. PICK s \in Salts, u \in Users :
          \/ UNCHANGED refresh
          \/ refresh' = [refresh EXCEPT ![f] = [state |-> "live", user |-> u, salt |-> s, root |-> f,
                                                fate |-> IF req[r].late THEN "escaped" ELSE "fine"]]
    BY <1>0, <1>2, <1>3 DEF LoginInsert, ReqOK, At
  <2>2. NoneDoomed
    BY <1>0, <2>1 DEF NoneDoomed, Unrevoked
  <2> QED
    BY <1>0, <1>1, <2>2, CoveredByOthers
<1>4. CASE RefreshRotate(r)
  <2>0. PICK t \in Tokens : t = req[r].tok
    BY <1>0, <1>4 DEF ReqOK, RefreshRotate, At
  <2>1. PICK s \in Salts : UNCHANGED refresh \/ refresh' = Rotated(t, f, s)
    BY <1>2, <1>4, <2>0 DEF RefreshRotate
  <2>2. CASE refresh' = Rotated(t, f, s)
    <3> DEFINE new == [state |-> "live", user |-> refresh[t].user, salt |-> s, root |-> refresh[t].root,
                       fate |-> IF refresh[t].fate = "fine" THEN "fine" ELSE "escaped"]
               old == [refresh[t] EXCEPT !.state = "revoked"]
    <3>1. new.fate # "doomed" /\ old.state = "revoked"
      BY <1>0 DEF Row
    <3>2. refresh' = [refresh EXCEPT ![t] = old, ![f] = new]
      BY <2>2, Zenon DEF Rotated
    <3> HIDE DEF new, old
    <3>3. refresh'[f] = new /\ \A x \in Tokens \ {f} : refresh'[x] = IF x = t THEN old ELSE refresh[x]
      BY <1>0, <3>2
    <3>4. NoneDoomed
      BY <3>1, <3>3 DEF NoneDoomed, Unrevoked
    <3> QED
      BY <1>0, <1>1, <3>4, CoveredByOthers
  <2>3. CASE UNCHANGED refresh
    BY <1>0, <1>1, <2>3, SameFates, CoveredByOthers
  <2> QED
    BY <2>1, <2>2, <2>3
<1> QED
  BY <1>3, <1>4

LEMMA UpdateCovers ==
  ASSUME IInv, RevocationComplete, NEW r \in Reqs, BanUpdate(r) \/ RoleUpdate(r) \/ ResetUpdate(r)
  PROVE  RevocationComplete'
<1>0. req[r].pc \notin Revoking /\ ReqOK(r)
  BY DEF IInv, BanUpdate, RoleUpdate, ResetUpdate, At, Revoking
<1>1. CASE BanUpdate(r) \/ RoleUpdate(r)
  <2>1. req[r].user \in Users
    BY <1>0, <1>1 DEF ReqOK, BanUpdate, RoleUpdate, At
  <2>2. CASE Finish(r, 500) /\ UNCHANGED refresh
    BY <1>0, <2>2, FinishMoves, SameKeeps, SameFates, CoveredByOthers
  <2>3. ASSUME NEW q \in Request, AccountUpdate(r, q) PROVE RevocationComplete'
    <3>1. req'[r] = q /\ OthersKeep(r)
      BY <2>1, <2>3, UpdateKeeps DEF AccountUpdate
    <3>2. CASE UNCHANGED refresh
      BY <1>0, <3>1, <3>2, SameFates, CoveredByOthers
    <3>3. CASE refresh' = Doomed(req[r].user) /\ q.pc = "revoke"
      BY <1>0, <2>3, <3>1, <3>3, CoveredByItself DEF AccountUpdate
    <3> QED
      BY <2>3, <3>2, <3>3 DEF AccountUpdate
  <2> QED
    BY <1>1, <2>2, <2>3, AccountUpdates
<1>2. CASE ResetUpdate(r)
  <2>1. PICK q \in Request, u \in Holders(req[r].link) : ResetWrite(r, q, u)
    BY <1>2, ResetWrites
  <2>2. req'[r] = q /\ OthersKeep(r)
    BY <2>1, UpdateKeeps DEF ResetWrite, Holders
  <2>3. CASE UNCHANGED refresh
    BY <1>0, <2>2, <2>3, SameFates, CoveredByOthers
  <2>4. CASE q.pc = "unlink" /\ q.user = u /\ refresh' = Doomed(u)
    BY <1>0, <2>2, <2>4, CoveredByItself
  <2> QED
    BY <2>1, <2>3, <2>4 DEF ResetWrite
<1> QED
  BY <1>1, <1>2

\* A revocation that fails lets the sessions of its user escape, by the history;
\* one that succeeds revokes what it held.
LEMMA RevokeCovers ==
  ASSUME IInv, FInv, RevocationComplete, NEW r \in Reqs,
         ResetUnlink(r) \/ RevokeSnapshot(r) \/ RevokeApply(r)
  PROVE  RevocationComplete'
<1>0. /\ refresh \in [Tokens -> Row] /\ req[r] \in Request /\ ReqOK(r)
      /\ req[r].pc \in Revoking
  BY DEF IInv, TypeOK, ResetUnlink, RevokeSnapshot, RevokeApply, At, Revoking
<1>1. CASE Finish(r, 200) /\ refresh' = Escaped({req[r].user})
  <2>1. OthersKeep(r)
    BY <1>1, FinishMoves, SameKeeps
  <2>2. \A t \in Tokens : /\ Unrevoked(t)' <=> Unrevoked(t)
                          /\ refresh'[t].user = refresh[t].user
                          /\ refresh'[t].fate = "doomed" =>
                               refresh[t].fate = "doomed" /\ refresh[t].user # req[r].user
    BY <1>1, EscapedFates
  <2>3. NoneDoomed
    BY <2>2 DEF NoneDoomed
  <2>4. \A t \in Tokens : Covers(r, t) => refresh[t].user = req[r].user
    BY DEF Covers, FInv, SnapOK
  <2> QED
    BY <2>1, <2>2, <2>3, <2>4, CoveredOn
<1>2. CASE ResetUnlink(r)
  <2>1. Moves(r, "revoke", req[r].status) /\ OthersKeep(r) /\ UNCHANGED refresh /\ req[r].pc = "unlink"
    BY <1>2, UnlinkEffect, SameKeeps DEF ResetUnlink, At
  <2>2. \A t \in Tokens : Covers(r, t) => Covers(r, t)'
    BY <2>1 DEF Covers, Moves
  <2> QED
    BY <2>1, <2>2, SameFates, CoveredOn
<1>3. CASE RevokeSnapshot(r)
  <2>1. CASE /\ OthersSame(r) /\ UNCHANGED refresh
             /\ req'[r].pc = "apply" /\ req'[r].user = req[r].user /\ req'[r].snap = RowsOf(req[r].user)
    <3>1. req[r].pc = "revoke"
      BY <1>3 DEF RevokeSnapshot, At
    <3>2. \A t \in Tokens : Unrevoked(t)' /\ Covers(r, t) => Covers(r, t)'
      BY <2>1, <3>1 DEF Covers, RowsOf, Unrevoked
    <3> QED
      BY <2>1, <3>2, SameKeeps, SameFates, CoveredOn
  <2> QED
    BY <1>1, <1>3, <2>1, SnapshotEffect
<1>4. CASE RevokeApply(r) /\ refresh' = [t \in Tokens |-> IF t \in req[r].snap
                                                          THEN [refresh[t] EXCEPT !.state = "revoked"]
                                                          ELSE refresh[t]]
  <2>1. OthersKeep(r) /\ req[r].pc = "apply"
    BY <1>4, FinishMoves, SameKeeps DEF RevokeApply, At
  <2>2. ASSUME NEW t \in Tokens, Unrevoked(t)'
        PROVE  t \notin req[r].snap /\ refresh'[t] = refresh[t]
    <3>1. [refresh[t] EXCEPT !.state = "revoked"].state = "revoked"
      BY <1>0 DEF Row
    <3> QED
      BY <1>4, <2>2, <3>1 DEF Unrevoked
  <2>3. NoneDoomed
    BY <2>2 DEF NoneDoomed, Unrevoked
  <2>4. \A t \in Tokens : Unrevoked(t)' => ~Covers(r, t)
    BY <2>1, <2>2 DEF Covers
  <2> QED
    BY <2>1, <2>3, <2>4, CoveredOn
<1> QED
  BY <1>1, <1>2, <1>3, <1>4 DEF RevokeApply

LEMMA QuietCovers ==
  ASSUME IInv, RevocationComplete, NEW r \in Reqs,
         \/ LoginRead(r) \/ RefreshLookup(r) \/ RefreshGetUser(r)
         \/ ForgotRead(r) \/ ForgotUpsert(r) \/ ForgotMail(r) \/ ResetUnknown(r) \/ Reply(r)
  PROVE  RevocationComplete'
<1>1. UNCHANGED refresh /\ req[r].pc \notin Revoking
  BY DEF LoginRead, RefreshLookup, RefreshGetUser, ForgotRead, ForgotUpsert, ForgotMail, ResetUnknown,
         Reply, At, Revoking
<1>2. CASE \E q : req' = [req EXCEPT ![r] = q]
  BY <1>1, <1>2, StepOthers, SameKeeps, SameFates, CoveredByOthers
<1>3. \E q : req' = [req EXCEPT ![r] = q]
  <2>1. CASE \E status : Finish(r, status)
    BY <2>1, Zenon DEF Finish
  <2>2. CASE \E pc : Goto(r, pc)
    BY <2>2, Zenon DEF Goto
  <2>3. CASE LoginRead(r)
    BY <2>1, <2>3, Zenon DEF LoginRead
  <2>4. CASE RefreshLookup(r)
    BY <2>1, <2>4, Zenon DEF RefreshLookup
  <2>5. CASE RefreshGetUser(r)
    BY <2>1, <2>5, Zenon DEF RefreshGetUser
  <2>6. CASE Reply(r)
    BY <2>6, Zenon DEF Reply
  <2>7. CASE ForgotRead(r) \/ ForgotUpsert(r) \/ ForgotMail(r) \/ ResetUnknown(r)
    BY <2>1, <2>2, <2>7 DEF ForgotRead, ForgotUpsert, ForgotMail, ResetUnknown
  <2> QED
    BY <2>3, <2>4, <2>5, <2>6, <2>7
<1> QED
  BY <1>2, <1>3

LEMMA EnvironmentCovers ==
  ASSUME IInv, RevocationComplete, Environment \/ UNCHANGED vars
  PROVE  RevocationComplete'
<1>1. CASE Crash
  <2>1. \A t \in Tokens : refresh'[t].fate # "doomed" \/ ~Unrevoked(t)
    <3>1. \A t \in Tokens : refresh'[t].fate = "doomed" => refresh[t].fate = "doomed" /\ refresh[t].user \notin Users
      BY <1>1, EscapedFates DEF Crash
    <3> QED
      BY <3>1 DEF IInv, TypeOK, RowOK, Unrevoked
  <2>2. \A t \in Tokens : Unrevoked(t)' <=> Unrevoked(t)
    BY <1>1, EscapedFates DEF Crash
  <2> QED
    BY <2>1, <2>2 DEF RevocationComplete
<1>2. CASE UNCHANGED req /\ NoneDoomed
  BY <1>2 DEF RevocationComplete, NoneDoomed, Covers
<1>3. CASE \E t \in Tokens : ExpireRefresh(t)
  <2>1. PICK t \in Tokens : ExpireRefresh(t)
    BY <1>3
  <2>2. refresh \in [Tokens -> Row] /\ refresh' = [refresh EXCEPT ![t] = [refresh[t] EXCEPT !.state = "expired"]]
        /\ refresh[t].state = "live"
    BY <2>1 DEF ExpireRefresh, IInv, TypeOK
  <2>3. /\ [refresh[t] EXCEPT !.state = "expired"].fate = refresh[t].fate
        /\ [refresh[t] EXCEPT !.state = "expired"].user = refresh[t].user
    BY <2>2 DEF Row
  <2>4. NoneDoomed
    BY <2>2, <2>3 DEF NoneDoomed, Unrevoked
  <2> QED
    BY <1>2, <2>1, <2>4 DEF ExpireRefresh
<1> QED
  BY <1>1, <1>2, <1>3, SameFates DEF Environment, ExpireAccess, ExpireReset, vars

LEMMA NextCovers == IInv /\ FInv /\ RevocationComplete /\ [Next]_vars => RevocationComplete'
<1> SUFFICES ASSUME IInv, FInv, RevocationComplete, [Next]_vars PROVE RevocationComplete'
  OBVIOUS
<1>1. ASSUME NEW r \in Reqs, Start(r) \/ Run(r) \/ Wait(r) PROVE RevocationComplete'
  BY <1>1, StartCovers, InsertCovers, UpdateCovers, RevokeCovers, QuietCovers DEF Run, Wait
<1> QED
  BY <1>1, EnvironmentCovers DEF Next

LEMMA FInvHolds == Spec => []FInv
  BY InitFInv, NextFamilies, IInvHolds, PTL DEF Spec

\* A session that a logout, a ban or a reset has set out to end is always covered
\* by a request that is still going to revoke it, unless its revocation failed.
THEOREM RevocationIsComplete == Spec => []RevocationComplete
<1>1. Init => RevocationComplete
  BY DEF Init, RevocationComplete, AbsentRow, Unrevoked
<1> QED
  BY <1>1, NextCovers, IInvHolds, FInvHolds, PTL DEF Spec

-----------------------------------------------------------------------------
(***************************************************************************)
(* Whose sessions end.  A request that rotates goes on for the user of the *)
(* row it has locked, and nobody renames that row.                         *)
(***************************************************************************)
HInv == \A r \in Reqs : req[r].pc = "rotate" => req[r].user = refresh[req[r].tok].user

\* Only a look-up leaves its request before a rotation.
LEMMA RotatesAfterLookup ==
  ASSUME IInv, NEW r \in Reqs, Start(r) \/ Run(r) \/ Wait(r), ~RefreshLookup(r)
  PROVE  OthersKeep(r) /\ req'[r].pc # "rotate"
<1>0. req[r] \in Request /\ ReqOK(r)
  BY DEF IInv, TypeOK
<1>1. CASE \E q : req' = [req EXCEPT ![r] = q] /\ q.pc # "rotate"
  BY <1>1, StepOthers, SameKeeps
<1>2. CASE (\E status : Finish(r, status)) \/ (\E pc : Goto(r, pc) /\ pc # "rotate")
  BY <1>2, FinishMoves, GotoMoves, SameKeeps DEF Moves
<1>3. CASE Start(r)
  BY <1>3, LoginBegins, LogoutBegins, ForgotBegins, AdminBegins, RefreshBegins, ConfirmBegins,
     SameKeeps DEF Start, Begun
<1>4. CASE LoginRead(r)
  <2>1. \A row : [req[r] EXCEPT !.pc = "insert", !.copy = row].pc = "insert"
    BY <1>0 DEF Request
  <2>2. \/ \E row : req' = [req EXCEPT ![r] = [req[r] EXCEPT !.pc = "insert", !.copy = row]]
        \/ \E status : Finish(r, status)
    BY <1>4, Zenon DEF LoginRead
  <2> QED
    BY <1>1, <1>2, <2>1, <2>2
<1>5. CASE RefreshGetUser(r)
  <2>1. \A row : Finished([req[r] EXCEPT !.copy = row], 200).pc = "done"
    BY <1>0 DEF Finished, Request
  <2>2. \/ \E row : req' = [req EXCEPT ![r] = Finished([req[r] EXCEPT !.copy = row], 200)]
        \/ \E status : Finish(r, status)
    BY <1>5, Zenon DEF RefreshGetUser
  <2> QED
    BY <1>1, <1>2, <2>1, <2>2
<1>6. CASE BanUpdate(r) \/ RoleUpdate(r)
  <2>1. req[r].user \in Users
    BY <1>0, <1>6 DEF ReqOK, BanUpdate, RoleUpdate, At
  <2> QED
    BY <1>2, <1>6, <2>1, AccountUpdates, UpdateKeeps DEF AccountUpdate
<1>7. CASE ResetUpdate(r)
  <2>1. PICK q \in Request, u \in Holders(req[r].link) : ResetWrite(r, q, u)
    BY <1>7, ResetWrites
  <2> QED
    BY <2>1, UpdateKeeps DEF ResetWrite, Holders
<1>8. CASE RevokeSnapshot(r)
  BY <1>2, <1>8, SnapshotEffect, SameKeeps
<1>9. CASE ResetUnlink(r)
  BY <1>9, UnlinkEffect, SameKeeps DEF Moves
<1>10. CASE Reply(r)
  BY <1>10, ReplyEffect, SameKeeps, IdleFields
<1>11. CASE LoginInsert(r) \/ RefreshRotate(r) \/ RevokeApply(r)
  <2>1. (\E status : Finish(r, status)) \/ Goto(r, "user")
    BY <1>11, Zenon DEF LoginInsert, RefreshRotate, RevokeApply
  <2> QED
    BY <1>2, <2>1
<1>12. CASE ForgotRead(r) \/ ForgotUpsert(r) \/ ForgotMail(r) \/ ResetUnknown(r)
  BY <1>2, <1>12 DEF ForgotRead, ForgotUpsert, ForgotMail, ResetUnknown
<1> QED
  BY <1>3, <1>4, <1>5, <1>6, <1>7, <1>8, <1>9, <1>10, <1>11, <1>12 DEF Run, Wait

\* A row keeps its user, and is revoked by a rotation or a revocation for that
\* user.
RowsKept ==
  \A t \in Tokens : refresh[t].state # "absent" =>
    /\ refresh'[t].user = refresh[t].user
    /\ Unrevoked(t) /\ ~Unrevoked(t)' =>
         \E r \in Reqs : req[r].user = refresh[t].user /\ req[r].pc \in {"rotate", "apply"}

LEMMA InvisibleKeeps ==
  ASSUME Invisible
  PROVE  RowsKept
  BY DEF Invisible, SameRows, RowsKept

LEMMA InsertKeeps ==
  ASSUME IInv, HInv, NEW r \in Reqs, LoginInsert(r) \/ RefreshRotate(r)
  PROVE  RowsKept
<1>0. refresh \in [Tokens -> Row] /\ ReqOK(r) /\ LockOK(r)
  BY DEF IInv, TypeOK
<1>1. PICK f \in Tokens : f = req[r].fresh /\ refresh[f].state = "absent"
  BY <1>0 DEF ReqOK, LoginInsert, RefreshRotate, At, IInv, TypeOK
<1>2. CASE LoginInsert(r)
  <2>1. \A x \in Tokens : x # f => refresh'[x] = refresh[x]
    BY <1>0, <1>1, <1>2 DEF LoginInsert
  <2> QED
    BY <1>1, <2>1 DEF RowsKept, Unrevoked
<1>3. CASE RefreshRotate(r)
  <2>0. PICK t \in Tokens : t = req[r].tok
    BY <1>0, <1>3 DEF ReqOK, RefreshRotate, At
  <2>1. PICK s \in Salts : UNCHANGED refresh \/ refresh' = Rotated(t, f, s)
    BY <1>1, <1>3, <2>0 DEF RefreshRotate
  <2>2. CASE refresh' = Rotated(t, f, s)
    <3> DEFINE new == [state |-> "live", user |-> refresh[t].user, salt |-> s, root |-> refresh[t].root,
                       fate |-> IF refresh[t].fate = "fine" THEN "fine" ELSE "escaped"]
               old == [refresh[t] EXCEPT !.state = "revoked"]
    <3>1. old.user = refresh[t].user
      BY <1>0 DEF Row
    <3>2. refresh' = [refresh EXCEPT ![t] = old, ![f] = new]
      BY <2>2, Zenon DEF Rotated
    <3> HIDE DEF new, old
    <3>3. \A x \in Tokens \ {f} : refresh'[x] = IF x = t THEN old ELSE refresh[x]
      BY <1>0, <3>2
    <3>4. req[r].pc = "rotate" /\ req[r].user = refresh[t].user
      BY <1>3, <2>0 DEF HInv, RefreshRotate, At
    <3> QED
      BY <1>1, <3>1, <3>3, <3>4 DEF RowsKept, Unrevoked
  <2>3. CASE UNCHANGED refresh
    BY <2>3 DEF RowsKept, Unrevoked
  <2> QED
    BY <2>1, <2>2, <2>3
<1> QED
  BY <1>2, <1>3

LEMMA RevokeKeeps ==
  ASSUME IInv, FInv, NEW r \in Reqs, RevokeSnapshot(r) \/ RevokeApply(r)
  PROVE  RowsKept
<1>0. refresh \in [Tokens -> Row]
  BY DEF IInv, TypeOK
<1>1. CASE UNCHANGED refresh
  BY <1>1 DEF RowsKept, Unrevoked
<1>2. CASE \E us : refresh' = Escaped(us)
  BY <1>2, EscapedFates DEF RowsKept
<1>3. CASE RevokeApply(r) /\ refresh' = [t \in Tokens |-> IF t \in req[r].snap
                                                          THEN [refresh[t] EXCEPT !.state = "revoked"]
                                                          ELSE refresh[t]]
  <2>1. req[r].pc = "apply" /\ \A t \in req[r].snap : refresh[t].user = req[r].user
    BY <1>3 DEF RevokeApply, At, FInv, SnapOK
  <2>2. \A x \in Row : [x EXCEPT !.state = "revoked"].user = x.user
    BY DEF Row
  <2>3. \A t \in Tokens : /\ refresh'[t].user = refresh[t].user
                          /\ t \notin req[r].snap => refresh'[t] = refresh[t]
    BY <1>0, <1>3, <2>2
  <2> QED
    BY <2>1, <2>3 DEF RowsKept, Unrevoked
<1> QED
  BY <1>1, <1>2, <1>3 DEF RevokeSnapshot, RevokeApply

LEMMA NextKeeps ==
  ASSUME IInv, FInv, HInv, [Next]_vars
  PROVE  RowsKept
<1>1. ASSUME NEW r \in Reqs, Start(r) \/ Run(r) \/ Wait(r) PROVE RowsKept
  BY <1>1, InsertKeeps, RevokeKeeps, InvisibleKeeps, StartInvisible, LoginReadInvisible, LookupInvisible,
     GetUserInvisible, AccountInvisible, MailInvisible, ResetInvisible, ReplyInvisible DEF Run, Wait
<1>2. CASE UNCHANGED vars
  BY <1>2 DEF vars, RowsKept, Unrevoked
<1> QED
  BY <1>1, <1>2, EnvironmentInvisible, InvisibleKeeps DEF Next

LEMMA NextHInv == IInv /\ FInv /\ HInv /\ [Next]_vars => HInv'
<1> SUFFICES ASSUME IInv, FInv, HInv, [Next]_vars PROVE HInv'
  OBVIOUS
<1>1. RowsKept
  BY NextKeeps
<1>2. ASSUME NEW p \in Reqs, req'[p].pc = "rotate", req[p].pc = "rotate",
             req'[p].user = req[p].user, req'[p].tok = req[p].tok
      PROVE  req'[p].user = refresh'[req'[p].tok].user
  <2>1. req[p].tok \in Tokens /\ refresh[req[p].tok].state # "absent"
    BY <1>2 DEF IInv, ReqOK, LockOK, Unrevoked
  <2> QED
    BY <1>1, <1>2, <2>1 DEF RowsKept, HInv
<1>3. ASSUME NEW r \in Reqs, Start(r) \/ Run(r) \/ Wait(r) PROVE HInv'
  <2>1. CASE ~RefreshLookup(r)
    BY <1>2, <1>3, <2>1, RotatesAfterLookup DEF HInv, OthersKeep
  <2>2. CASE RefreshLookup(r)
    <3>1. CASE Finish(r, 401)
      BY <1>2, <3>1, FinishMoves, SameKeeps DEF HInv, Moves, OthersKeep
    <3>2. CASE ~Finish(r, 401)
      <4>1. /\ OthersKeep(r) /\ req[r].tok \in Tokens
            /\ req'[r].tok = req[r].tok /\ req'[r].user = refresh[req[r].tok].user
        BY <2>2, <3>2, LookupEffect, SameKeeps
      <4>2. UNCHANGED refresh
        BY <2>2 DEF RefreshLookup
      <4> QED
        BY <1>2, <4>1, <4>2 DEF HInv, OthersKeep
    <3> QED
      BY <3>1, <3>2
  <2> QED
    BY <2>1, <2>2
<1>4. CASE UNCHANGED req
  BY <1>2, <1>4 DEF HInv
<1>5. CASE Crash
  BY <1>5, IdleFields DEF HInv, Crash
<1> QED
  BY <1>3, <1>4, <1>5 DEF Next, Environment, ExpireRefresh, ExpireAccess, ExpireReset, vars

LEMMA HInvHolds == Spec => []HInv
<1>1. Init => HInv
  BY IdleFields DEF Init, HInv
<1> QED
  BY <1>1, NextHInv, IInvHolds, FInvHolds, PTL DEF Spec

\* A session ends by its own rotation or by a revocation for its own user, never
\* because of what somebody else did.
THEOREM OthersKeepTheirSessions == Spec => OnlyOwnSessionsEnd
<1>1. IInv /\ FInv /\ HInv /\ [Next]_vars =>
        [\A t \in Tokens : Unrevoked(t) /\ ~Unrevoked(t)' =>
           \E r \in Reqs : req[r].user = refresh[t].user /\ req[r].pc \in {"rotate", "apply"}]_vars
  <2> SUFFICES ASSUME IInv, FInv, HInv, [Next]_vars, NEW t \in Tokens, Unrevoked(t), ~Unrevoked(t)'
               PROVE  \E r \in Reqs : req[r].user = refresh[t].user /\ req[r].pc \in {"rotate", "apply"}
    OBVIOUS
  <2>1. RowsKept
    BY NextKeeps
  <2> QED
    BY <2>1 DEF RowsKept, Unrevoked
<1> QED
  BY <1>1, HInvHolds, IInvHolds, FInvHolds, PTL DEF Spec, OnlyOwnSessionsEnd

-----------------------------------------------------------------------------
(***************************************************************************)
(* Reset links.  A link stands for one user; while it is not stored yet    *)
(* nobody has it but the request that generated it, so that neither an     *)
(* upsert nor a DELETE that comes late can meet a link of somebody else.   *)
(***************************************************************************)
ForgotOK(r) ==
  req[r].op = "forgot" =>
    /\ req[r].link \in issued
    /\ req[r].pc \in {"read", "upsert"} =>
         req[r].link \notin mailed /\ spent[req[r].link] = 0 /\ \A u \in Users : reset[u] # req[r].link

ConfirmOK(r) ==
  /\ req[r].op = "confirm" => req[r].link \in mailed \cup {NoLink}
  /\ req[r].pc = "unlink" => req[r].link \in mailed /\ \A u \in Users : owed[u] # req[r].link

ForgotApart ==
  \A r1, r2 \in Reqs :
    req[r1].op = "forgot" /\ req[r2].op = "forgot" /\ req[r1].link = req[r2].link => r1 = r2

LinksOK ==
  /\ mailed \subseteq issued
  /\ \A u \in Users : reset[u] \in issued \cup {NoLink}
  /\ \A k \in Links : spent[k] # 0 => k \in mailed
  /\ \A u, v \in Users : reset[u] # NoLink /\ reset[u] = reset[v] => u = v

LInv ==
  /\ \A r \in Reqs : ForgotOK(r) /\ ConfirmOK(r)
  /\ ForgotApart /\ LinksOK /\ UnusedLinkSurvives /\ UsedLinkIsLeaving

LEMMA InitLInv == Init => LInv
  BY IdleFields DEF Init, LInv, ForgotOK, ConfirmOK, ForgotApart, LinksOK, UnusedLinkSurvives, UsedLinkIsLeaving

\* A request that has nothing to do with a link, or only moves past it.
Ignores(r) ==
  /\ req[r].pc # "unlink" /\ req'[r].pc # "unlink"
  /\ \/ req'[r].op \notin {"forgot", "confirm"}
     \/ /\ req'[r].op = req[r].op /\ req'[r].link = req[r].link
        /\ req'[r].pc \in {"read", "upsert"} => req[r].pc \in {"read", "upsert"}

LEMMA IgnoredLinks ==
  ASSUME LInv, NEW r \in Reqs, OthersKeep(r), Ignores(r), UNCHANGED resetVars
  PROVE  LInv'
<1>0. /\ \A p \in Reqs : ForgotOK(p) /\ ConfirmOK(p)
      /\ ForgotApart /\ LinksOK /\ UnusedLinkSurvives /\ UsedLinkIsLeaving
      /\ UNCHANGED <<reset, owed, issued, mailed, spent>>
  BY DEF LInv, resetVars
<1>1. ASSUME NEW p \in Reqs PROVE ForgotOK(p)' /\ ConfirmOK(p)'
  <2>1. CASE p = r
    BY <1>0, <2>1 DEF ForgotOK, ConfirmOK, Ignores
  <2>2. CASE p # r
    BY <1>0, <2>2 DEF ForgotOK, ConfirmOK, OthersKeep
  <2> QED
    BY <2>1, <2>2
<1>2. ForgotApart'
  BY <1>0 DEF ForgotApart, Ignores, OthersKeep
<1>3. LinksOK' /\ UnusedLinkSurvives'
  BY <1>0 DEF LinksOK, UnusedLinkSurvives
<1>4. UsedLinkIsLeaving'
  BY <1>0 DEF UsedLinkIsLeaving, Holders, Ignores, OthersKeep
<1> QED
  BY <1>1, <1>2, <1>3, <1>4 DEF LInv

LEMMA StartIgnores ==
  ASSUME IInv, NEW r \in Reqs, NEW op, NEW pc, Begun(r, op, pc), op \notin {"forgot", "confirm"}, pc # "unlink"
  PROVE  OthersKeep(r) /\ Ignores(r)
  BY IdleFields, SameKeeps DEF Begun, Ignores

\* The requests that go on and keep away from links.
LEMMA StepIgnores ==
  ASSUME IInv, NEW r \in Reqs,
         \/ LoginRead(r) \/ LoginInsert(r) \/ RefreshLookup(r) \/ RefreshRotate(r) \/ RefreshGetUser(r)
         \/ RevokeSnapshot(r) \/ RevokeApply(r) \/ BanUpdate(r) \/ RoleUpdate(r)
         \/ ForgotRead(r) \/ ResetUnknown(r) \/ Reply(r)
  PROVE  OthersKeep(r) /\ Ignores(r) /\ UNCHANGED resetVars
<1>0. req[r] \in Request /\ ReqOK(r) /\ req[r].pc # "unlink"
  BY DEF IInv, TypeOK, LoginRead, LoginInsert, RefreshLookup, RefreshRotate, RefreshGetUser, RevokeSnapshot,
         RevokeApply, BanUpdate, RoleUpdate, ForgotRead, ResetUnknown, Reply, At
<1>1. UNCHANGED resetVars
  BY DEF LoginRead, LoginInsert, RefreshLookup, RefreshRotate, RefreshGetUser, RevokeSnapshot,
         RevokeApply, BanUpdate, RoleUpdate, ForgotRead, ResetUnknown, Reply
<1>2. CASE \E status : Finish(r, status)
  BY <1>0, <1>1, <1>2, FinishMoves, SameKeeps DEF Moves, Ignores
<1>3. CASE LoginRead(r)
  <2>1. \A row : /\ [req[r] EXCEPT !.pc = "insert", !.copy = row].pc = "insert"
                 /\ [req[r] EXCEPT !.pc = "insert", !.copy = row].op = req[r].op
    BY <1>0 DEF Request
  <2>2. \/ \E row : req' = [req EXCEPT ![r] = [req[r] EXCEPT !.pc = "insert", !.copy = row]]
        \/ \E status : Finish(r, status)
    BY <1>3, Zenon DEF LoginRead
  <2>3. req[r].op = "login"
    BY <1>3 DEF LoginRead, At
  <2>4. CASE \E row : req' = [req EXCEPT ![r] = [req[r] EXCEPT !.pc = "insert", !.copy = row]]
    <3>0. PICK row : req' = [req EXCEPT ![r] = [req[r] EXCEPT !.pc = "insert", !.copy = row]]
      BY <2>4
    <3> DEFINE q == [req[r] EXCEPT !.pc = "insert", !.copy = row]
    <3>1. q.pc = "insert" /\ q.op = "login"
      BY <2>1, <2>3
    <3> HIDE DEF q
    <3>2. req'[r] = q /\ OthersKeep(r)
      BY <3>0, StepOthers, SameKeeps DEF q
    <3> QED
      BY <1>0, <1>1, <3>1, <3>2 DEF Ignores
  <2> QED
    BY <1>1, <1>2, <2>2, <2>4
<1>4. CASE RefreshGetUser(r)
  <2>1. \A row : /\ Finished([req[r] EXCEPT !.copy = row], 200).pc = "done"
                 /\ Finished([req[r] EXCEPT !.copy = row], 200).op = req[r].op
    BY <1>0 DEF Finished, Request
  <2>2. \/ \E row : req' = [req EXCEPT ![r] = Finished([req[r] EXCEPT !.copy = row], 200)]
        \/ \E status : Finish(r, status)
    BY <1>4, Zenon DEF RefreshGetUser
  <2>3. req[r].op = "refresh"
    BY <1>4 DEF RefreshGetUser, At
  <2>4. CASE \E row : req' = [req EXCEPT ![r] = Finished([req[r] EXCEPT !.copy = row], 200)]
    <3>0. PICK row : req' = [req EXCEPT ![r] = Finished([req[r] EXCEPT !.copy = row], 200)]
      BY <2>4
    <3> DEFINE q == Finished([req[r] EXCEPT !.copy = row], 200)
    <3>1. q.pc = "done" /\ q.op = "refresh"
      BY <2>1, <2>3
    <3> HIDE DEF q
    <3>2. req'[r] = q /\ OthersKeep(r)
      BY <3>0, StepOthers, SameKeeps DEF q
    <3> QED
      BY <1>0, <1>1, <3>1, <3>2 DEF Ignores
  <2> QED
    BY <1>1, <1>2, <2>2, <2>4
<1>5. CASE BanUpdate(r) \/ RoleUpdate(r)
  <2>1. req[r].user \in Users /\ req[r].op \in {"ban", "unban", "role"}
    BY <1>0, <1>5 DEF ReqOK, BanUpdate, RoleUpdate, At
  <2>2. ASSUME NEW q \in Request, AccountUpdate(r, q) PROVE OthersKeep(r) /\ Ignores(r)
    <3>1. req'[r] = q /\ OthersKeep(r)
      BY <2>1, <2>2, UpdateKeeps DEF AccountUpdate
    <3> QED
      BY <1>0, <2>1, <2>2, <3>1 DEF Ignores, AccountUpdate
  <2> QED
    BY <1>1, <1>2, <1>5, <2>2, AccountUpdates
<1>6. CASE RevokeSnapshot(r)
  BY <1>0, <1>1, <1>2, <1>6, SnapshotEffect, SameKeeps DEF Ignores
<1>7. CASE Reply(r)
  BY <1>0, <1>1, <1>7, ReplyEffect, SameKeeps, IdleFields DEF Ignores
<1>8. CASE RefreshLookup(r)
  BY <1>0, <1>1, <1>2, <1>8, LookupEffect, SameKeeps DEF Ignores
<1>9. CASE RefreshRotate(r)
  <2>1. (\E status : Finish(r, status)) \/ Goto(r, "user")
    BY <1>9, Zenon DEF RefreshRotate
  <2>2. req[r].op = "refresh"
    BY <1>9 DEF RefreshRotate, At
  <2> QED
    BY <1>0, <1>1, <1>2, <2>1, <2>2, GotoMoves, SameKeeps DEF Moves, Ignores
<1>10. CASE ForgotRead(r)
  <2>1. req[r].pc = "read" /\ (Goto(r, "upsert") \/ Finish(r, 200))
    BY <1>10 DEF ForgotRead, At
  <2> QED
    BY <1>0, <1>1, <1>2, <2>1, GotoMoves, SameKeeps DEF Moves, Ignores
<1>11. CASE LoginInsert(r) \/ RevokeApply(r) \/ ResetUnknown(r)
  <2>1. \E status : Finish(r, status)
    BY <1>11, Zenon DEF LoginInsert, RevokeApply, ResetUnknown
  <2> QED
    BY <1>1, <1>2, <2>1
<1> QED
  BY <1>3, <1>4, <1>5, <1>6, <1>7, <1>8, <1>9, <1>10, <1>11

\* A step of r that touches links keeps LInv as soon as r is in order afterwards
\* and what the others hold is left to them.
LEMMA LinkStep ==
  ASSUME LInv, NEW r \in Reqs, OthersKeep(r), ForgotOK(r)', ConfirmOK(r)', LinksOK',
         UnusedLinkSurvives', UsedLinkIsLeaving', issued \subseteq issued', mailed \subseteq mailed',
         req'[r].op = "forgot" => (req[r].op = "forgot" /\ req'[r].link = req[r].link) \/ req'[r].link \notin issued,
         \A p \in Reqs \ {r} : req[p].op = "forgot" /\ req[p].pc \in {"read", "upsert"} =>
           /\ req[p].link \notin mailed' /\ spent'[req[p].link] = 0
           /\ \A u \in Users : reset'[u] # req[p].link,
         \A p \in Reqs \ {r} : req[p].pc = "unlink" => \A u \in Users : owed'[u] # req[p].link
  PROVE  LInv'
<1>0. /\ \A p \in Reqs : ForgotOK(p) /\ ConfirmOK(p)
      /\ ForgotApart
  BY DEF LInv
<1>1. ASSUME NEW p \in Reqs, p # r PROVE ForgotOK(p)' /\ ConfirmOK(p)'
  <2>1. /\ req'[p].op = req[p].op /\ req'[p].pc = req[p].pc /\ req'[p].link = req[p].link
    BY <1>1 DEF OthersKeep
  <2>2. ForgotOK(p)'
    BY <1>0, <1>1, <2>1 DEF ForgotOK
  <2>3. ConfirmOK(p)'
    BY <1>0, <1>1, <2>1 DEF ConfirmOK
  <2> QED
    BY <2>2, <2>3
<1>2. ForgotApart'
  BY <1>0 DEF ForgotApart, ForgotOK, OthersKeep
<1> QED
  BY <1>1, <1>2 DEF LInv

LEMMA ForgotStartLinks ==
  ASSUME IInv, LInv, NEW r \in Reqs, NEW u \in Users, ForgotStart(r, u)
  PROVE  LInv'
<1>0. /\ \A p \in Reqs : ForgotOK(p) /\ ConfirmOK(p)
      /\ LinksOK /\ UnusedLinkSurvives /\ UsedLinkIsLeaving
      /\ UNCHANGED <<reset, owed, mailed, spent>>
  BY DEF LInv, ForgotStart
<1>1. PICK k \in Links \ issued : req'[r].link = k /\ issued' = issued \cup {k}
  BY ForgotBegins
<1>2. Begun(r, "forgot", "read") /\ OthersKeep(r)
  BY ForgotBegins, SameKeeps DEF Begun
<1>3. ForgotOK(r)' /\ ConfirmOK(r)'
  BY <1>0, <1>1, <1>2 DEF ForgotOK, ConfirmOK, Begun, LinksOK
<1>4. LinksOK' /\ UnusedLinkSurvives'
  BY <1>0, <1>1 DEF LinksOK, UnusedLinkSurvives
<1>5. UsedLinkIsLeaving'
  BY <1>0, <1>2, IdleFields DEF UsedLinkIsLeaving, Holders, Begun, OthersKeep
<1>6. \A p \in Reqs \ {r} : req[p].op = "forgot" /\ req[p].pc \in {"read", "upsert"} =>
        /\ req[p].link \notin mailed' /\ spent'[req[p].link] = 0
        /\ \A v \in Users : reset'[v] # req[p].link
  BY <1>0 DEF ForgotOK
<1>7. \A p \in Reqs \ {r} : req[p].pc = "unlink" => \A v \in Users : owed'[v] # req[p].link
  BY <1>0 DEF ConfirmOK
<1> QED
  BY <1>0, <1>1, <1>2, <1>3, <1>4, <1>5, <1>6, <1>7, LinkStep

LEMMA ConfirmStartLinks ==
  ASSUME IInv, LInv, NEW r \in Reqs, ConfirmStart(r)
  PROVE  LInv'
<1>0. /\ \A p \in Reqs : ForgotOK(p) /\ ConfirmOK(p)
      /\ LinksOK /\ UnusedLinkSurvives /\ UsedLinkIsLeaving
      /\ UNCHANGED <<reset, owed, issued, mailed, spent>>
  BY DEF LInv, ConfirmStart, resetVars
<1>1. Begun(r, "confirm", "setpw") /\ OthersKeep(r) /\ req'[r].link \in mailed \cup {NoLink}
  BY ConfirmBegins, SameKeeps DEF Begun
<1>2. ForgotOK(r)' /\ ConfirmOK(r)'
  BY <1>0, <1>1 DEF ForgotOK, ConfirmOK, Begun
<1>3. LinksOK' /\ UnusedLinkSurvives'
  BY <1>0 DEF LinksOK, UnusedLinkSurvives
<1>4. UsedLinkIsLeaving'
  BY <1>0, <1>1, IdleFields DEF UsedLinkIsLeaving, Holders, Begun, OthersKeep
<1>5. /\ \A p \in Reqs \ {r} : req[p].op = "forgot" /\ req[p].pc \in {"read", "upsert"} =>
           /\ req[p].link \notin mailed' /\ spent'[req[p].link] = 0
           /\ \A v \in Users : reset'[v] # req[p].link
      /\ \A p \in Reqs \ {r} : req[p].pc = "unlink" => \A v \in Users : owed'[v] # req[p].link
  BY <1>0 DEF ForgotOK, ConfirmOK
<1>6. req'[r].op # "forgot"
  BY <1>1 DEF Begun
<1> QED
  BY <1>0, <1>1, <1>2, <1>3, <1>4, <1>5, <1>6, LinkStep

\* The upsert stores a link that only its request knows.
LEMMA ForgotUpsertLinks ==
  ASSUME IInv, LInv, NEW r \in Reqs, ForgotUpsert(r)
  PROVE  LInv'
<1>0. /\ \A p \in Reqs : ForgotOK(p) /\ ConfirmOK(p)
      /\ ForgotApart /\ LinksOK /\ UnusedLinkSurvives /\ UsedLinkIsLeaving
      /\ UNCHANGED <<issued, mailed, spent>> /\ req[r].op = "forgot" /\ req[r].pc = "upsert"
      /\ req[r].user \in Users /\ req[r].link \in Links
      /\ reset \in [Users -> Links \cup {NoLink}] /\ owed \in [Users -> Links \cup {NoLink}]
  BY DEF LInv, ForgotUpsert, At, IInv, ReqOK, TypeOK
<1>1. PICK u \in Users, k \in Links : u = req[r].user /\ k = req[r].link
  BY <1>0
<1>2. OthersKeep(r) /\ req'[r].op = "forgot" /\ req'[r].link = k /\ req'[r].pc \in {"mail", "done"}
  <2>1. (\E status : Finish(r, status)) \/ Goto(r, "mail")
    BY Zenon DEF ForgotUpsert
  <2> QED
    BY <1>0, <1>1, <2>1, GotoMoves, FinishMoves, SameKeeps DEF Moves
<1>3. k \in issued /\ k \notin mailed /\ spent[k] = 0 /\ k # NoLink /\ \A v \in Users : reset[v] # k
  BY <1>0, <1>1 DEF ForgotOK
<1>4. \/ UNCHANGED <<reset, owed>>
      \/ reset' = [reset EXCEPT ![u] = k] /\ owed' = [owed EXCEPT ![u] = k]
  BY <1>1 DEF ForgotUpsert
<1>5. ForgotOK(r)' /\ ConfirmOK(r)'
  BY <1>0, <1>2, <1>3 DEF ForgotOK, ConfirmOK
<1>6. LinksOK' /\ UnusedLinkSurvives'
  BY <1>0, <1>3, <1>4 DEF LinksOK, UnusedLinkSurvives
<1>7. UsedLinkIsLeaving'
  <2> SUFFICES ASSUME NEW x \in Links, spent[x] = 1, NEW v \in Users, reset'[v] = x, x # NoLink
               PROVE  \E p \in Reqs : req'[p].pc = "unlink" /\ req'[p].link = x
    BY <1>0 DEF UsedLinkIsLeaving, Holders
  <2>1. reset[v] = x
    BY <1>0, <1>3, <1>4
  <2>2. PICK p \in Reqs : req[p].pc = "unlink" /\ req[p].link = x
    BY <1>0, <2>1 DEF UsedLinkIsLeaving, Holders
  <2> QED
    BY <1>0, <1>2, <2>2 DEF OthersKeep
<1>8. \A p \in Reqs \ {r} : req[p].op = "forgot" /\ req[p].pc \in {"read", "upsert"} =>
        /\ req[p].link \notin mailed' /\ spent'[req[p].link] = 0
        /\ \A v \in Users : reset'[v] # req[p].link
  BY <1>0, <1>1, <1>4 DEF ForgotOK, ForgotApart
<1>9. \A p \in Reqs \ {r} : req[p].pc = "unlink" => \A v \in Users : owed'[v] # req[p].link
  BY <1>0, <1>3, <1>4 DEF ConfirmOK
<1> QED
  BY <1>0, <1>1, <1>2, <1>5, <1>6, <1>7, <1>8, <1>9, LinkStep

LEMMA ForgotMailLinks ==
  ASSUME IInv, LInv, NEW r \in Reqs, ForgotMail(r)
  PROVE  LInv'
<1>0. /\ \A p \in Reqs : ForgotOK(p) /\ ConfirmOK(p)
      /\ ForgotApart /\ LinksOK /\ UnusedLinkSurvives /\ UsedLinkIsLeaving
      /\ UNCHANGED <<reset, owed, issued, spent>> /\ req[r].op = "forgot" /\ req[r].pc = "mail"
      /\ mailed' = mailed \/ mailed' = mailed \cup {req[r].link}
  BY DEF LInv, ForgotMail, At
<1>1. OthersKeep(r) /\ req'[r].op = "forgot" /\ req'[r].link = req[r].link /\ req'[r].pc = "done"
  BY <1>0, FinishMoves, SameKeeps DEF ForgotMail, Moves
<1>2. ForgotOK(r)' /\ ConfirmOK(r)'
  BY <1>0, <1>1 DEF ForgotOK, ConfirmOK
<1>3. LinksOK' /\ UnusedLinkSurvives'
  BY <1>0 DEF LinksOK, UnusedLinkSurvives, ForgotOK
<1>4. UsedLinkIsLeaving'
  BY <1>0, <1>1 DEF UsedLinkIsLeaving, Holders, OthersKeep
<1>5. /\ \A p \in Reqs \ {r} : req[p].op = "forgot" /\ req[p].pc \in {"read", "upsert"} =>
           /\ req[p].link \notin mailed' /\ spent'[req[p].link] = 0
           /\ \A v \in Users : reset'[v] # req[p].link
      /\ \A p \in Reqs \ {r} : req[p].pc = "unlink" => \A v \in Users : owed'[v] # req[p].link
  BY <1>0 DEF ForgotOK, ConfirmOK, ForgotApart
<1> QED
  BY <1>0, <1>1, <1>2, <1>3, <1>4, <1>5, LinkStep

\* A reset takes the link from its owner and from nobody else.
LEMMA ResetUpdateLinks ==
  ASSUME IInv, LInv, NEW r \in Reqs, ResetUpdate(r)
  PROVE  LInv'
<1>0. /\ \A p \in Reqs : ForgotOK(p) /\ ConfirmOK(p)
      /\ LinksOK /\ UnusedLinkSurvives /\ UsedLinkIsLeaving
      /\ req[r].op = "confirm" /\ req[r].pc = "setpw"
      /\ spent \in [Links -> 0..2] /\ owed \in [Users -> Links \cup {NoLink}]
      /\ mailed \subseteq Links
  BY DEF LInv, ResetUpdate, At, IInv, TypeOK
<1>1. PICK q \in Request, u \in Holders(req[r].link) : ResetWrite(r, q, u)
  BY ResetWrites
<1>2. PICK k \in Links : k = req[r].link /\ k \in mailed /\ k # NoLink /\ u \in Users /\ reset[u] = k
  BY <1>0, <1>1 DEF Holders, ConfirmOK
<1>3. UNCHANGED <<reset, issued, mailed>> /\ owed' = [owed EXCEPT ![u] = IF owed[u] = k THEN NoLink ELSE owed[u]]
  BY <1>1, <1>2 DEF ResetWrite
<1>4. req'[r] = q /\ OthersKeep(r) /\ q.op = "confirm" /\ q.link = k /\ q.pc \in {"unlink", "done"}
  BY <1>0, <1>1, <1>2, UpdateKeeps DEF ResetWrite
<1>5. PICK n \in 1..2 : /\ spent' = [spent EXCEPT ![k] = n]
                        /\ q.pc = "unlink" \/ (n = 1 => spent[k] = 1)
  <2>1. CASE spent' = [spent EXCEPT ![k] = 1] /\ q.pc = "unlink"
    BY <2>1
  <2>2. CASE spent' = [spent EXCEPT ![k] = IF spent[k] = 1 THEN 1 ELSE 2] /\ q.pc = "done"
    <3>1. 1 \in 1..2 /\ 2 \in 1..2
      OBVIOUS
    <3>2. CASE spent[k] = 1
      BY <2>2, <3>1, <3>2
    <3>3. CASE spent[k] # 1
      BY <2>2, <3>1, <3>3
    <3> QED
      BY <3>2, <3>3
  <2> QED
    BY <1>1, <1>2, <2>1, <2>2 DEF ResetWrite
<1>6. \A v \in Users : owed'[v] # k
  BY <1>0, <1>2, <1>3 DEF LinksOK, UnusedLinkSurvives
<1>7. ForgotOK(r)' /\ ConfirmOK(r)'
  BY <1>2, <1>3, <1>4, <1>6 DEF ForgotOK, ConfirmOK
<1>8. LinksOK' /\ UnusedLinkSurvives'
  BY <1>0, <1>2, <1>3, <1>5 DEF LinksOK, UnusedLinkSurvives
<1>9. UsedLinkIsLeaving'
  <2> SUFFICES ASSUME NEW x \in Links, spent'[x] = 1, Holders(x) # {}
               PROVE  \E p \in Reqs : req'[p].pc = "unlink" /\ req'[p].link = x
    BY <1>3 DEF UsedLinkIsLeaving, Holders
  <2>1. CASE x = k /\ q.pc = "unlink"
    BY <1>4, <2>1
  <2>2. CASE ~(x = k /\ q.pc = "unlink")
    <3>1. spent[x] = 1
      BY <1>0, <1>5, <2>2
    <3>2. PICK p \in Reqs : req[p].pc = "unlink" /\ req[p].link = x
      BY <1>0, <3>1 DEF UsedLinkIsLeaving
    <3> QED
      BY <1>0, <1>4, <3>2 DEF OthersKeep
  <2> QED
    BY <2>1, <2>2
<1>10. \A p \in Reqs \ {r} : req[p].op = "forgot" /\ req[p].pc \in {"read", "upsert"} =>
         /\ req[p].link \notin mailed' /\ spent'[req[p].link] = 0
         /\ \A v \in Users : reset'[v] # req[p].link
  BY <1>0, <1>2, <1>3, <1>5 DEF ForgotOK
<1>11. \A p \in Reqs \ {r} : req[p].pc = "unlink" => \A v \in Users : owed'[v] # req[p].link
  BY <1>0, <1>3 DEF ConfirmOK
<1> QED
  BY <1>3, <1>4, <1>7, <1>8, <1>9, <1>10, <1>11, LinkStep

\* The DELETE by token takes away a link that was used, and no other.
LEMMA ResetUnlinkLinks ==
  ASSUME IInv, LInv, NEW r \in Reqs, ResetUnlink(r)
  PROVE  LInv'
<1>0. /\ \A p \in Reqs : ForgotOK(p) /\ ConfirmOK(p)
      /\ LinksOK /\ UnusedLinkSurvives /\ UsedLinkIsLeaving
      /\ req[r].op = "confirm" /\ req[r].pc = "unlink" /\ UNCHANGED <<owed, issued, mailed>>
      /\ spent \in [Links -> 0..2] /\ reset \in [Users -> Links \cup {NoLink}] /\ mailed \subseteq Links
  BY DEF LInv, ResetUnlink, At, IInv, TypeOK
<1>1. PICK k \in Links : k = req[r].link /\ k \in mailed /\ \A u \in Users : owed[u] # k
  BY <1>0 DEF ConfirmOK
<1>2. OthersKeep(r) /\ req'[r].op = "confirm" /\ req'[r].link = k /\ req'[r].pc = "revoke"
  BY <1>0, <1>1, UnlinkEffect, SameKeeps DEF Moves
<1>3. \/ spent' = spent /\ \A u \in Users : reset'[u] = IF reset[u] = k THEN NoLink ELSE reset[u]
      \/ spent' = [spent EXCEPT ![k] = 2] /\ reset' = reset
  BY <1>1 DEF ResetUnlink, Unlinked
<1>4. ForgotOK(r)' /\ ConfirmOK(r)'
  BY <1>0, <1>1, <1>2 DEF ForgotOK, ConfirmOK
<1>5. LinksOK'
  BY <1>0, <1>1, <1>3 DEF LinksOK
<1>6. UnusedLinkSurvives'
  BY <1>0, <1>1, <1>3 DEF UnusedLinkSurvives
<1>7. UsedLinkIsLeaving'
  <2> SUFFICES ASSUME NEW x \in Links, spent'[x] = 1, NEW v \in Users, reset'[v] = x, x # NoLink
               PROVE  \E p \in Reqs : req'[p].pc = "unlink" /\ req'[p].link = x
    BY DEF UsedLinkIsLeaving, Holders
  <2>1. x # k /\ spent[x] = 1 /\ reset[v] = x
    BY <1>0, <1>1, <1>3
  <2>2. PICK p \in Reqs : req[p].pc = "unlink" /\ req[p].link = x
    BY <1>0, <2>1 DEF UsedLinkIsLeaving, Holders
  <2> QED
    BY <1>1, <1>2, <2>1, <2>2 DEF OthersKeep
<1>8. \A p \in Reqs \ {r} : req[p].op = "forgot" /\ req[p].pc \in {"read", "upsert"} =>
        /\ req[p].link \notin mailed' /\ spent'[req[p].link] = 0
        /\ \A v \in Users : reset'[v] # req[p].link
  <2> SUFFICES ASSUME NEW p \in Reqs, req[p].op = "forgot", req[p].pc \in {"read", "upsert"}
               PROVE  /\ req[p].link \notin mailed' /\ spent'[req[p].link] = 0
                      /\ \A v \in Users : reset'[v] # req[p].link
    OBVIOUS
  <2>1. req[p].link \in Links
    BY DEF IInv, ReqOK
  <2> QED
    BY <1>0, <1>1, <1>3, <2>1 DEF ForgotOK
<1>9. \A p \in Reqs \ {r} : req[p].pc = "unlink" => \A v \in Users : owed'[v] # req[p].link
  BY <1>0 DEF ConfirmOK
<1>10. req'[r].op # "forgot"
  BY <1>2
<1> QED
  BY <1>0, <1>2, <1>4, <1>5, <1>6, <1>7, <1>8, <1>9, <1>10, LinkStep

LEMMA EnvironmentLinks ==
  ASSUME IInv, LInv, Environment \/ UNCHANGED vars
  PROVE  LInv'
<1>0. /\ \A p \in Reqs : ForgotOK(p) /\ ConfirmOK(p)
      /\ ForgotApart /\ LinksOK /\ UnusedLinkSurvives /\ UsedLinkIsLeaving
      /\ reset \in [Users -> Links \cup {NoLink}] /\ owed \in [Users -> Links \cup {NoLink}]
      /\ mailed \subseteq Links
  BY DEF LInv, IInv, TypeOK
<1>1. CASE UNCHANGED <<reset, owed, issued, mailed, spent, req>>
  BY <1>0, <1>1 DEF LInv, ForgotOK, ConfirmOK, ForgotApart, LinksOK, UnusedLinkSurvives, UsedLinkIsLeaving, Holders
<1>2. CASE \E u \in Users : ExpireReset(u)
  <2>1. PICK u \in Users : /\ reset' = [reset EXCEPT ![u] = NoLink] /\ owed' = [owed EXCEPT ![u] = NoLink]
                           /\ UNCHANGED <<issued, mailed, spent, req>>
    BY <1>2 DEF ExpireReset
  <2>2. ASSUME NEW p \in Reqs PROVE ForgotOK(p)' /\ ConfirmOK(p)'
    <3>1. req[p].op = "forgot" => req[p].link \in Links
      BY DEF IInv, ReqOK
    <3> QED
      BY <1>0, <2>1, <3>1 DEF ForgotOK, ConfirmOK
  <2>3. ForgotApart' /\ LinksOK' /\ UnusedLinkSurvives'
    BY <1>0, <2>1 DEF ForgotApart, LinksOK, UnusedLinkSurvives
  <2>4. UsedLinkIsLeaving'
    BY <1>0, <2>1 DEF UsedLinkIsLeaving, Holders
  <2> QED
    BY <2>2, <2>3, <2>4 DEF LInv
<1>3. CASE Crash
  <2>1. /\ \A p \in Reqs : req'[p] = Idle
        /\ \A k \in Links : spent'[k] = IF spent[k] = 0 THEN 0 ELSE 2
        /\ UNCHANGED <<reset, owed, issued, mailed>>
    BY <1>3 DEF Crash
  <2> QED
    BY <1>0, <2>1, IdleFields DEF LInv, ForgotOK, ConfirmOK, ForgotApart, LinksOK, UnusedLinkSurvives, UsedLinkIsLeaving
<1> QED
  BY <1>1, <1>2, <1>3 DEF Environment, ExpireRefresh, ExpireAccess, vars, resetVars

LEMMA NextLInv == IInv /\ LInv /\ [Next]_vars => LInv'
<1> SUFFICES ASSUME IInv, LInv, [Next]_vars PROVE LInv'
  OBVIOUS
<1>1. ASSUME NEW r \in Reqs, Start(r) PROVE LInv'
  <2>1. CASE UNCHANGED resetVars /\ \E op, pc : Begun(r, op, pc) /\ op \notin {"forgot", "confirm"} /\ pc # "unlink"
    BY <2>1, StartIgnores, IgnoredLinks
  <2>2. ASSUME NEW u \in Users, LoginStart(r, u) PROVE LInv'
    BY <2>1, <2>2, LoginBegins DEF LoginStart
  <2>3. ASSUME NEW u \in Users, LogoutStart(r, u) PROVE LInv'
    BY <2>1, <2>3, LogoutBegins DEF LogoutStart
  <2>4. ASSUME NEW op \in {"ban", "unban", "role"}, NEW u \in Users, AdminStart(r, op, u) PROVE LInv'
    BY <2>1, <2>4, AdminBegins DEF AdminStart
  <2>5. ASSUME NEW t \in Tokens, RefreshStart(r, t) PROVE LInv'
    BY <2>1, <2>5, RefreshBegins DEF RefreshStart
  <2> QED
    BY <1>1, <2>2, <2>3, <2>4, <2>5, ForgotStartLinks, ConfirmStartLinks DEF Start
<1>2. ASSUME NEW r \in Reqs, Run(r) \/ Wait(r) PROVE LInv'
  BY <1>2, StepIgnores, IgnoredLinks, ForgotUpsertLinks, ForgotMailLinks, ResetUpdateLinks,
     ResetUnlinkLinks DEF Run, Wait
<1> QED
  BY <1>1, <1>2, EnvironmentLinks DEF Next

LEMMA LInvHolds == Spec => []LInv
  BY InitLInv, NextLInv, IInvHolds, PTL DEF Spec

\* The newest link of a user works until it is used, replaced or too old, however
\* late the DELETE of an older one comes.
THEOREM NewestResetLinkWorks == Spec => []UnusedLinkSurvives
<1>1. LInv => UnusedLinkSurvives
  BY DEF LInv
<1> QED
  BY <1>1, LInvHolds, PTL

\* A link that has changed a password is gone, or its DELETE is still to come, or
\* has failed.
THEOREM UsedResetLinkGoes == Spec => []UsedLinkIsLeaving
<1>1. LInv => UsedLinkIsLeaving
  BY DEF LInv
<1> QED
  BY <1>1, LInvHolds, PTL

-----------------------------------------------------------------------------
(***************************************************************************)
(* Sessions whose token somebody can name.  A token is in the hands of the *)
(* request that made its row until that request answers.  The request      *)
(* still answers with an error if it finds its user banned; that it cannot *)
(* strand a session then takes three more facts: a session that nothing    *)
(* has doomed has a user who is not banned (RowNamed), the request looks   *)
(* up the user of the row it made (UserOK), and a login that inserts a row *)
(* for a user banned meanwhile is marked late (InsertOK).                  *)
(***************************************************************************)
Sure == Faults \subseteq {"mail"}

Fine(t) == Unrevoked(t) /\ refresh[t].fate = "fine"

Carries(r, t) ==
  /\ req[r].fresh = t /\ req[r].op \in {"login", "refresh"}
  /\ req[r].pc = "user" \/ (req[r].pc = "done" /\ req[r].status = 200)

InsertOK(r) ==
  req[r].pc = "insert" =>
    /\ req[r].op = "login" /\ req[r].seen # {} /\ req[r].copy # NoRow
    /\ ~req[r].late => ~users[req[r].user].banned

UserOK(r) ==
  req[r].pc = "user" => req[r].op = "refresh" /\ refresh[req[r].fresh].user = req[r].user

RowNamed(t) ==
  Fine(t) => ~users[refresh[t].user].banned /\ (t \in known \/ \E r \in Reqs : Carries(r, t))

OInv ==
  /\ \A r \in Reqs : InsertOK(r) /\ UserOK(r)
  /\ \A t \in Tokens : RowNamed(t)

LEMMA SureOutcomes ==
  ASSUME Sure
  PROVE  /\ ReadOutcomes = {"ok"} /\ WriteOutcomes = {"ok"}
         /\ "lost" \notin Faults /\ "crash" \notin Faults
  BY DEF Sure, ReadOutcomes, WriteOutcomes

LEMMA GotoFresh ==
  ASSUME IInv, NEW r \in Reqs, NEW pc, Goto(r, pc)
  PROVE  req'[r].fresh = req[r].fresh
<1>1. req \in [Reqs -> Request]
  BY DEF IInv, TypeOK
<1>2. [req[r] EXCEPT !.pc = pc].fresh = req[r].fresh
  BY <1>1 DEF Request
<1> QED
  BY <1>1, <1>2 DEF Goto

LEMMA FinishedFresh ==
  ASSUME NEW x \in Request, NEW status
  PROVE  Finished(x, status).fresh = x.fresh
  BY DEF Finished, Request

LEMMA FinishFresh ==
  ASSUME IInv, NEW r \in Reqs, NEW status, Finish(r, status)
  PROVE  req'[r].fresh = req[r].fresh
<1>1. req \in [Reqs -> Request]
  BY DEF IInv, TypeOK
<1>2. Finished(req[r], status).fresh = req[r].fresh
  BY <1>1, FinishedFresh
<1> QED
  BY <1>1, <1>2 DEF Finish

\* A step of one request that leaves users alone and whatever it does to rows,
\* other than the one it inserts, does not make them fine.
LEMMA NamedStep ==
  ASSUME IInv, OInv, NEW r \in Reqs, UNCHANGED users, OthersSame(r), known \subseteq known',
         InsertOK(r)', UserOK(r)',
         \A t \in Tokens : refresh'[t].user = refresh[t].user \/ (t = req[r].fresh /\ t # NoToken),
         \A t \in Tokens : Fine(t)' =>
           \/ /\ Fine(t) /\ refresh'[t].user = refresh[t].user
              /\ Carries(r, t) => Carries(r, t)' \/ t \in known'
           \/ Carries(r, t)' /\ ~users[refresh'[t].user].banned
  PROVE  OInv'
<1>1. ASSUME NEW p \in Reqs, p # r PROVE InsertOK(p)' /\ UserOK(p)'
  <2>1. InsertOK(p) /\ UserOK(p) /\ req'[p] = req[p]
    BY <1>1 DEF OInv, OthersSame
  <2>2. req[p].op = "refresh" => req[p].fresh \in Tokens
    BY DEF IInv, ReqOK
  <2>3. req[p].op = "refresh" => refresh'[req[p].fresh].user = refresh[req[p].fresh].user
    BY <1>1, <2>2 DEF IInv, FreshApart
  <2> QED
    BY <2>1, <2>3 DEF InsertOK, UserOK
<1>2. ASSUME NEW t \in Tokens PROVE RowNamed(t)'
  <2> SUFFICES ASSUME Fine(t)'
               PROVE  ~users'[refresh'[t].user].banned /\ (t \in known' \/ \E p \in Reqs : Carries(p, t)')
    BY DEF RowNamed
  <2>1. CASE Carries(r, t)' /\ ~users[refresh'[t].user].banned
    BY <2>1
  <2>2. CASE /\ Fine(t) /\ refresh'[t].user = refresh[t].user
             /\ Carries(r, t) => Carries(r, t)' \/ t \in known'
    <3>1. ~users[refresh[t].user].banned /\ (t \in known \/ \E p \in Reqs : Carries(p, t))
      BY <2>2 DEF OInv, RowNamed
    <3>2. \A p \in Reqs \ {r} : Carries(p, t) => Carries(p, t)'
      BY DEF OthersSame, Carries
    <3> QED
      BY <2>2, <3>1, <3>2
  <2> QED
    BY <2>1, <2>2
<1> QED
  BY <1>1, <1>2 DEF OInv

\* Rows keep their users, and none becomes fine.
NothingFiner ==
  \A t \in Tokens : refresh'[t].user = refresh[t].user /\ (Fine(t)' => Fine(t))

\* A request that carried nothing, inserts nothing and is not about to.
LEMMA BystanderStep ==
  ASSUME IInv, OInv, NEW r \in Reqs, UNCHANGED <<users, known>>, OthersSame(r),
         req'[r].pc \notin {"insert", "user"}, \A t \in Tokens : ~Carries(r, t),
         NothingFiner
  PROVE  OInv'
<1>1. InsertOK(r)' /\ UserOK(r)'
  BY DEF InsertOK, UserOK
<1> QED
  BY <1>1, NamedStep DEF NothingFiner

LEMMA SameFine ==
  ASSUME UNCHANGED refresh
  PROVE  NothingFiner
  BY DEF NothingFiner, Fine, Unrevoked

\* A doomed row was there before, and is not one of the user whose rows were
\* doomed.
LEMMA DoomedFine ==
  ASSUME IInv, NEW u, refresh' = Doomed(u), NEW t \in Tokens
  PROVE  /\ refresh'[t].user = refresh[t].user
         /\ Fine(t)' => Fine(t) /\ refresh[t].user # u
<1>1. refresh[t] \in Row
  BY DEF IInv, TypeOK
<1>2. CASE refresh[t].user = u /\ Unrevoked(t)
  <2>1. refresh'[t] = [refresh[t] EXCEPT !.fate = "doomed"]
    BY <1>2 DEF Doomed
  <2> QED
    BY <1>1, <2>1 DEF Row, Fine
<1>3. CASE ~(refresh[t].user = u /\ Unrevoked(t))
  <2>1. refresh'[t] = refresh[t]
    BY <1>3 DEF Doomed
  <2> QED
    BY <1>3, <2>1 DEF Fine, Unrevoked
<1> QED
  BY <1>2, <1>3

LEMMA StartNames ==
  ASSUME IInv, OInv, NEW r \in Reqs, Start(r)
  PROVE  OInv'
<1>1. CASE UNCHANGED known /\ NothingFiner /\ \E op, pc : Begun(r, op, pc) /\ pc \notin {"insert", "user"}
  <2>1. PICK op, pc : Begun(r, op, pc) /\ pc \notin {"insert", "user"}
    BY <1>1
  <2>2. \A t \in Tokens : ~Carries(r, t)
    BY <2>1, IdleFields DEF Begun, Carries
  <2> QED
    BY <1>1, <2>1, <2>2, BystanderStep DEF Begun
<1>2. UNCHANGED known /\ NothingFiner
  <2>1. CASE \E u \in Users : LogoutStart(r, u)
    <3>1. PICK u \in Users : LogoutStart(r, u)
      BY <2>1
    <3>2. NothingFiner
      BY <3>1, DoomedFine DEF LogoutStart, NothingFiner
    <3> QED
      BY <3>1, <3>2 DEF LogoutStart, clientVars
  <2>2. CASE ~\E u \in Users : LogoutStart(r, u)
    <3>1. UNCHANGED <<refresh, known>>
      BY <2>2, Zenon DEF Start, LoginStart, ForgotStart, AdminStart, RefreshStart, ConfirmStart, clientVars
    <3> QED
      BY <3>1, SameFine
  <2> QED
    BY <2>1, <2>2
<1>3. \E op, pc : Begun(r, op, pc) /\ pc \notin {"insert", "user"}
  BY LoginBegins, LogoutBegins, ForgotBegins, AdminBegins, RefreshBegins, ConfirmBegins DEF Start
<1> QED
  BY <1>1, <1>2, <1>3

\* The login that inserts a row hands its token on in the answer.
LEMMA LoginNames ==
  ASSUME IInv, MInv, OInv, Sure, NEW r \in Reqs, LoginRead(r) \/ LoginInsert(r)
  PROVE  OInv'
<1>0. /\ req \in [Reqs -> Request] /\ refresh \in [Tokens -> Row] /\ req[r].op = "login"
      /\ ReqOK(r) /\ MintOK(r) /\ InsertOK(r) /\ UNCHANGED <<users, known>>
      /\ req[r].pc \in {"read", "insert"} /\ req[r].user \in Users
      /\ NoToken \notin Tokens /\ NoRow \notin UserRow
  BY DEF IInv, TypeOK, MInv, OInv, LoginRead, LoginInsert, At, clientVars, ReqOK
<1>1. \A t \in Tokens : ~Carries(r, t)
  BY <1>0 DEF Carries
<1>2. CASE LoginRead(r)
  <2>1. NothingFiner /\ req[r].pc = "read"
    BY <1>2, SameFine DEF LoginRead, At
  <2>2. CASE \E status : Finish(r, status)
    BY <1>0, <1>1, <2>1, <2>2, FinishMoves, BystanderStep DEF Moves
  <2>3. CASE /\ LoginVerdict(users[req[r].user], req[r].pw) = 200
             /\ req' = [req EXCEPT ![r] = [@ EXCEPT !.pc = "insert", !.copy = users[req[r].user]]]
    <3>1. PICK row \in UserRow : row = users[req[r].user]
      BY <1>0 DEF IInv, TypeOK
    <3> DEFINE q == [req[r] EXCEPT !.pc = "insert", !.copy = row]
    <3>2. q.pc = "insert" /\ q.copy = row /\ q.op = "login" /\ q.seen = req[r].seen /\ q.user = req[r].user
      BY <1>0 DEF Request
    <3>3. req' = [req EXCEPT ![r] = q]
      BY <2>3, <3>1
    <3> HIDE DEF q
    <3>4. req'[r] = q /\ OthersSame(r)
      BY <3>3, StepOthers
    <3>5. ~row.banned /\ req[r].seen # {}
      BY <1>0, <2>1, <2>3, <3>1 DEF LoginVerdict, UserRow, MintOK, Watches
    <3>6. InsertOK(r)' /\ UserOK(r)'
      BY <1>0, <3>1, <3>2, <3>4, <3>5 DEF InsertOK, UserOK
    <3> QED
      BY <1>0, <1>1, <2>1, <3>4, <3>6, NamedStep DEF NothingFiner
  <2> QED
    BY <1>2, <2>2, <2>3, Zenon DEF LoginRead
<1>3. CASE LoginInsert(r)
  <2>1. PICK f \in Tokens, u \in Users : f = req[r].fresh /\ u = req[r].user
    BY <1>0 DEF ReqOK
  <2>2. req[r].pc = "insert" /\ Finish(r, 200)
    BY <1>3, SureOutcomes DEF LoginInsert, At
  <2>3. PICK s \in Salts :
          refresh' = [refresh EXCEPT ![f] = [state |-> "live", user |-> u, salt |-> s, root |-> f,
                                             fate |-> IF req[r].late THEN "escaped" ELSE "fine"]]
    BY <1>3, <2>1, SureOutcomes DEF LoginInsert
  <2>4. OthersSame(r) /\ Moves(r, "done", 200) /\ req'[r].fresh = f
    BY <2>1, <2>2, FinishMoves, FinishFresh
  <2>5. Carries(r, f)' /\ InsertOK(r)' /\ UserOK(r)'
    BY <1>0, <2>4 DEF Carries, InsertOK, UserOK, Moves
  <2>6. \A t \in Tokens \ {f} : refresh'[t] = refresh[t]
    BY <1>0, <2>3
  <2>7. Fine(f)' => ~users[refresh'[f].user].banned
    BY <1>0, <2>1, <2>2, <2>3 DEF Fine, InsertOK
  <2>8. \A t \in Tokens \ {f} : Fine(t)' => Fine(t) /\ refresh'[t].user = refresh[t].user
    BY <2>6 DEF Fine, Unrevoked
  <2> QED
    BY <1>0, <1>1, <2>1, <2>4, <2>5, <2>6, <2>7, <2>8, NamedStep
<1> QED
  BY <1>2, <1>3

\* A rotation hands on the session of the row that it revokes.
LEMMA RotateNames ==
  ASSUME IInv, HInv, OInv, Sure, NEW r \in Reqs, RefreshRotate(r)
  PROVE  OInv'
<1>0. /\ refresh \in [Tokens -> Row] /\ req[r].op = "refresh" /\ req[r].pc = "rotate"
      /\ ReqOK(r) /\ LockOK(r) /\ UNCHANGED <<users, known>> /\ NoToken \notin Tokens
  BY DEF IInv, TypeOK, RefreshRotate, At, clientVars
<1>1. PICK f \in Tokens, t \in Tokens : f = req[r].fresh /\ t = req[r].tok
  BY <1>0 DEF ReqOK
<1>2. Unrevoked(t) /\ f # t /\ req[r].user = refresh[t].user
  BY <1>0, <1>1 DEF LockOK, ReqOK, Unrevoked, HInv
<1>3. Goto(r, "user") /\ \E s \in Salts : refresh' = Rotated(t, f, s)
  BY <1>1, SureOutcomes DEF RefreshRotate
<1>4. PICK s \in Salts : refresh' = Rotated(t, f, s)
  BY <1>3
<1> DEFINE new == [state |-> "live", user |-> refresh[t].user, salt |-> s, root |-> refresh[t].root,
                   fate |-> IF refresh[t].fate = "fine" THEN "fine" ELSE "escaped"]
           old == [refresh[t] EXCEPT !.state = "revoked"]
<1>5. /\ old.user = refresh[t].user /\ old.state = "revoked" /\ new.user = refresh[t].user
      /\ new.fate = "fine" => refresh[t].fate = "fine"
  BY <1>0 DEF Row
<1>6. refresh' = [refresh EXCEPT ![t] = old, ![f] = new]
  BY <1>4, Zenon DEF Rotated
<1> HIDE DEF new, old
<1>7. refresh'[f] = new /\ \A x \in Tokens \ {f} : refresh'[x] = IF x = t THEN old ELSE refresh[x]
  BY <1>0, <1>6
<1>8. OthersSame(r) /\ Moves(r, "user", req[r].status) /\ req'[r].fresh = f
  BY <1>1, <1>3, GotoMoves, GotoFresh
<1>9. Carries(r, f)' /\ InsertOK(r)' /\ UserOK(r)'
  BY <1>0, <1>2, <1>5, <1>7, <1>8 DEF Carries, InsertOK, UserOK, Moves
<1>10. Fine(f)' => ~users[refresh'[f].user].banned
  BY <1>2, <1>5, <1>7 DEF Fine, OInv, RowNamed
<1>11. \A x \in Tokens \ {f} : /\ refresh'[x].user = refresh[x].user
                               /\ Fine(x)' => Fine(x)
  BY <1>5, <1>7 DEF Fine, Unrevoked
<1>12. \A x \in Tokens : ~Carries(r, x)
  BY <1>0 DEF Carries
<1> QED
  BY <1>0, <1>1, <1>8, <1>9, <1>10, <1>11, <1>12, NamedStep

\* The only row that a rotation could strand here is doomed: its user is banned.
LEMMA GetUserNames ==
  ASSUME IInv, OInv, Sure, NEW r \in Reqs, RefreshGetUser(r)
  PROVE  OInv'
<1>0. /\ req[r] \in Request /\ req[r].op = "refresh" /\ req[r].pc = "user" /\ ReqOK(r) /\ UserOK(r)
      /\ UNCHANGED <<users, known, refresh>> /\ NothingFiner
  BY SameFine DEF IInv, TypeOK, OInv, RefreshGetUser, At, clientVars
<1>1. PICK f \in Tokens, u \in Users : f = req[r].fresh /\ u = req[r].user /\ refresh[f].user = u
  BY <1>0 DEF ReqOK, UserOK
<1>2. CASE users[u].banned /\ Finish(r, 403)
  <2>1. OthersSame(r) /\ Moves(r, "done", 403)
    BY <1>2, FinishMoves
  <2>2. InsertOK(r)' /\ UserOK(r)'
    BY <2>1 DEF InsertOK, UserOK, Moves
  <2>3. \A t \in Tokens : Fine(t) => ~Carries(r, t)
    BY <1>1, <1>2 DEF OInv, RowNamed, Carries
  <2> QED
    BY <1>0, <2>1, <2>2, <2>3, NamedStep DEF NothingFiner
<1>3. CASE req' = [req EXCEPT ![r] = Finished([@ EXCEPT !.copy = users[u]], 200)]
  <2>0. PICK row \in UserRow : row = users[u]
    BY DEF IInv, TypeOK
  <2> DEFINE x == [req[r] EXCEPT !.copy = row]
             q == Finished(x, 200)
  <2>1. x \in Request /\ x.op = "refresh" /\ x.fresh = f
    BY <1>0, <1>1, FieldIsRequest DEF Request
  <2>2. req' = [req EXCEPT ![r] = q]
    BY <1>3, <2>0
  <2> HIDE DEF x
  <2>3. q.op = "refresh" /\ q.fresh = f /\ q.pc = "done" /\ q.status = 200
    BY <2>1, FinishedFields, FinishedFresh
  <2> HIDE DEF q
  <2>4. req'[r] = q /\ OthersSame(r)
    BY <2>2, StepOthers
  <2>5. InsertOK(r)' /\ UserOK(r)' /\ Carries(r, f)'
    BY <2>3, <2>4 DEF InsertOK, UserOK, Carries
  <2>6. \A t \in Tokens : Carries(r, t) => t = f
    BY <1>1 DEF Carries
  <2> QED
    BY <1>0, <2>4, <2>5, <2>6, NamedStep DEF NothingFiner
<1> QED
  BY <1>1, <1>2, <1>3, SureOutcomes DEF RefreshGetUser

LEMMA ReplyNames ==
  ASSUME IInv, OInv, Sure, NEW r \in Reqs, Reply(r)
  PROVE  OInv'
<1>0. /\ req'[r] = Idle /\ OthersSame(r) /\ UNCHANGED users /\ NothingFiner /\ req[r].pc = "done"
      /\ "lost" \notin Faults
  BY ReplyEffect, SameFine, SureOutcomes DEF Reply
<1>1. InsertOK(r)' /\ UserOK(r)'
  BY <1>0, IdleFields DEF InsertOK, UserOK
<1>2. /\ known \subseteq known'
      /\ req[r].status = 200 /\ req[r].op \in {"login", "refresh"} => req[r].fresh \in known'
  BY <1>0 DEF Reply, Returned, clientVars
<1>3. \A t \in Tokens : Carries(r, t) => t \in known'
  BY <1>0, <1>2 DEF Carries
<1> QED
  BY <1>0, <1>1, <1>2, <1>3, NamedStep DEF NothingFiner

\* The other steps of requests that leave users alone.
LEMMA OtherNames ==
  ASSUME IInv, OInv, Sure, NEW r \in Reqs,
         \/ RefreshLookup(r) \/ RevokeSnapshot(r) \/ RevokeApply(r)
         \/ ForgotRead(r) \/ ForgotUpsert(r) \/ ForgotMail(r) \/ ResetUnknown(r) \/ ResetUnlink(r)
  PROVE  OInv'
<1>0. /\ refresh \in [Tokens -> Row] /\ UNCHANGED <<users, known>>
      /\ req[r].op \in {"login", "refresh"} => req[r].pc = "lookup"
  BY DEF IInv, TypeOK, At, RefreshLookup, RevokeSnapshot, RevokeApply, ForgotRead, ForgotUpsert,
         ForgotMail, ResetUnknown, ResetUnlink, clientVars
<1>1. \A t \in Tokens : ~Carries(r, t)
  BY <1>0 DEF Carries
<1>2. NothingFiner
  <2>1. CASE RevokeApply(r)
    <3>1. refresh' = [t \in Tokens |-> IF t \in req[r].snap THEN [refresh[t] EXCEPT !.state = "revoked"]
                                       ELSE refresh[t]]
      BY <2>1, SureOutcomes DEF RevokeApply
    <3>2. \A x \in Row : /\ [x EXCEPT !.state = "revoked"].user = x.user
                         /\ [x EXCEPT !.state = "revoked"].state = "revoked"
      BY DEF Row
    <3> QED
      BY <1>0, <3>1, <3>2 DEF NothingFiner, Fine, Unrevoked
  <2>2. CASE RevokeSnapshot(r)
    <3>1. UNCHANGED refresh
      BY <2>2, SureOutcomes DEF RevokeSnapshot
    <3> QED
      BY <3>1, SameFine
  <2>3. CASE ~RevokeApply(r) /\ ~RevokeSnapshot(r)
    <3>1. UNCHANGED refresh
      BY <2>3, Zenon DEF RefreshLookup, ForgotRead, ForgotUpsert, ForgotMail, ResetUnknown, ResetUnlink
    <3> QED
      BY <3>1, SameFine
  <2> QED
    BY <2>1, <2>2, <2>3
<1>3. OthersSame(r) /\ req'[r].pc \notin {"insert", "user"}
  <2>1. CASE \E status : Finish(r, status)
    BY <2>1, FinishMoves DEF Moves
  <2>2. CASE \E pc : Goto(r, pc) /\ pc \notin {"insert", "user"}
    BY <2>2, GotoMoves DEF Moves
  <2>3. CASE RefreshLookup(r)
    BY <2>1, <2>3, LookupEffect
  <2>4. CASE RevokeSnapshot(r)
    BY <2>1, <2>4, SnapshotEffect
  <2>5. CASE ResetUnlink(r)
    BY <2>5, UnlinkEffect DEF Moves
  <2>6. CASE RevokeApply(r)
    BY <2>1, <2>6 DEF RevokeApply
  <2>7. CASE ForgotRead(r) \/ ForgotUpsert(r) \/ ForgotMail(r) \/ ResetUnknown(r)
    BY <2>1, <2>2, <2>7 DEF ForgotRead, ForgotUpsert, ForgotMail, ResetUnknown
  <2> QED
    BY <2>3, <2>4, <2>5, <2>6, <2>7
<1> QED
  BY <1>0, <1>1, <1>2, <1>3, BystanderStep

\* What an update of a user's row leaves in the other requests: the history of
\* those on the same user goes on.
LEMMA UpdateHistory ==
  ASSUME IInv, NEW r \in Reqs, NEW q \in Request, NEW u \in Users, NEW row \in UserRow,
         NEW ends \in BOOLEAN, UpdateUser(r, q, u, row, ends), NEW p \in Reqs, p # r
  PROVE  /\ req[p].seen # {} => req'[p].seen # {}
         /\ req[p].late => req'[p].late
         /\ req[p].user = u /\ req[p].seen # {} /\ ends /\ req[p].op = "login" /\ req[p].copy # NoRow =>
              req'[p].late
<1> DEFINE late == req[p].late \/ (ends /\ req[p].op = "login" /\ req[p].copy # NoRow)
           seen == req[p].seen \cup {row}
<1>1. req[p] \in Request
  BY DEF IInv, TypeOK
<1>2. req'[p] = IF req[p].user = u /\ req[p].seen # {} THEN [req[p] EXCEPT !.seen = seen, !.late = late]
                                                       ELSE req[p]
  BY Zenon DEF UpdateUser
<1>3. seen # {} /\ (req[p].late => late) /\ (ends /\ req[p].op = "login" /\ req[p].copy # NoRow => late)
  OBVIOUS
<1> HIDE DEF late, seen
<1>4. [req[p] EXCEPT !.seen = seen, !.late = late].seen = seen /\ [req[p] EXCEPT !.seen = seen, !.late = late].late = late
  BY <1>1 DEF Request
<1> QED
  BY <1>2, <1>3, <1>4

\* An update that bans a user dooms the sessions of that user and makes the
\* logins late that have read the row before.
LEMMA UpdateNames ==
  ASSUME IInv, OInv, NEW r \in Reqs, NEW q \in Request, NEW u \in Users, NEW row \in UserRow,
         NEW ends \in BOOLEAN, UpdateUser(r, q, u, row, ends), UNCHANGED known,
         UNCHANGED refresh \/ refresh' = Doomed(u),
         row.banned => users[u].banned \/ (ends /\ refresh' = Doomed(u)),
         req[r].op \notin {"login", "refresh"}, q.pc \notin {"insert", "user"}
  PROVE  OInv'
<1>0. users' = [users EXCEPT ![u] = row] /\ users \in [Users -> UserRow]
  <2>1. users' = [users EXCEPT ![u] = row]
    BY Zenon DEF UpdateUser
  <2> QED
    BY <2>1 DEF IInv, TypeOK
<1>1. /\ req'[r] = q
      /\ \A p \in Reqs \ {r} :
           /\ req'[p].op = req[p].op /\ req'[p].pc = req[p].pc /\ req'[p].user = req[p].user
           /\ req'[p].fresh = req[p].fresh /\ req'[p].copy = req[p].copy /\ req'[p].status = req[p].status
  BY UpdateUserStep
<1>2. NothingFiner
  BY SameFine, DoomedFine DEF NothingFiner
<1>3. ASSUME NEW p \in Reqs, p # r PROVE InsertOK(p)' /\ UserOK(p)'
  <2>1. InsertOK(p) /\ UserOK(p) /\ ReqOK(p)
    BY DEF OInv, IInv
  <2>2. InsertOK(p)'
    <3> SUFFICES ASSUME req[p].pc = "insert"
                 PROVE  /\ req'[p].seen # {} /\ req'[p].copy # NoRow
                        /\ ~req'[p].late => ~users'[req[p].user].banned
      BY <1>1, <1>3, <2>1 DEF InsertOK
    <3>1. /\ req[p].op = "login" /\ req[p].seen # {} /\ req[p].copy # NoRow /\ req[p].user \in Users
          /\ ~req[p].late => ~users[req[p].user].banned
      BY <2>1 DEF InsertOK, ReqOK
    <3>2. /\ req'[p].seen # {} /\ (req[p].late => req'[p].late)
          /\ req[p].user = u /\ ends => req'[p].late
      BY <1>3, <3>1, UpdateHistory
    <3> QED
      BY <1>0, <1>1, <1>3, <3>1, <3>2
  <2>3. UserOK(p)'
    <3>1. req[p].op = "refresh" => req[p].fresh \in Tokens
      BY <2>1 DEF ReqOK
    <3> QED
      BY <1>1, <1>2, <1>3, <2>1, <3>1 DEF UserOK, NothingFiner
  <2> QED
    BY <2>2, <2>3
<1>4. InsertOK(r)' /\ UserOK(r)'
  BY <1>1 DEF InsertOK, UserOK
<1>5. ASSUME NEW t \in Tokens PROVE RowNamed(t)'
  <2> SUFFICES ASSUME Fine(t)'
               PROVE  ~users'[refresh'[t].user].banned /\ (t \in known' \/ \E p \in Reqs : Carries(p, t)')
    BY DEF RowNamed
  <2>1. Fine(t) /\ refresh'[t].user = refresh[t].user
    BY <1>2 DEF NothingFiner
  <2>2. ~users[refresh[t].user].banned /\ (t \in known \/ \E p \in Reqs : Carries(p, t))
    BY <2>1 DEF OInv, RowNamed
  <2>3. \A p \in Reqs : Carries(p, t) => Carries(p, t)'
    BY <1>1 DEF Carries
  <2>4. refresh[t].user \in Users
    BY <2>1 DEF Fine, Unrevoked, IInv, TypeOK, RowOK
  <2>5. refresh[t].user = u => ~row.banned
    <3>1. refresh' = Doomed(u) => refresh[t].user # u
      BY DoomedFine
    <3> QED
      BY <2>2, <3>1
  <2> QED
    BY <1>0, <2>1, <2>2, <2>3, <2>4, <2>5
<1> QED
  BY <1>3, <1>4, <1>5 DEF OInv

LEMMA AccountNames ==
  ASSUME IInv, OInv, Sure, NEW r \in Reqs, BanUpdate(r) \/ RoleUpdate(r)
  PROVE  OInv'
<1>0. /\ req[r] \in Request /\ req[r].op \in {"ban", "unban", "role"} /\ ReqOK(r) /\ UNCHANGED known
  BY DEF IInv, TypeOK, BanUpdate, RoleUpdate, At, clientVars
<1>1. PICK u \in Users, x \in Request : u = req[r].user /\ x = req[r]
  BY <1>0 DEF ReqOK
<1>2. users[u] \in UserRow
  BY DEF IInv, TypeOK
<1>3. CASE BanUpdate(r)
  <2> DEFINE ban == x.op = "ban"
             row == [users[u] EXCEPT !.banned = ban]
             q == AfterBan(x)
  <2>0. ban \in BOOLEAN
    OBVIOUS
  <2>1. UpdateUser(r, q, u, row, ban) /\ refresh' = IF ban THEN Doomed(u) ELSE refresh
    <3>1. "unsure" \notin WriteOutcomes /\ "failed" \notin WriteOutcomes
      BY SureOutcomes
    <3> QED
      BY <1>1, <1>3, <3>1, Zenon DEF BanUpdate
  <2>2. q \in Request /\ q.pc \notin {"insert", "user"}
    <3>1. [x EXCEPT !.pc = "revoke"] \in Request /\ [x EXCEPT !.pc = "revoke"].pc = "revoke"
      <4>1. [x EXCEPT !.pc = "revoke"] \in Request
        BY FieldIsRequest DEF Pcs
      <4>2. [x EXCEPT !.pc = "revoke"].pc = "revoke"
        BY DEF Request
      <4> QED
        BY <4>1, <4>2
    <3>2. Finished(x, 200) \in Request /\ Finished(x, 200).pc = "done"
      BY FinishedIsRequest, FinishedFields
    <3> QED
      BY <3>1, <3>2 DEF AfterBan
  <2>3. UNCHANGED refresh \/ refresh' = Doomed(u)
    BY <2>1
  <2>4. ban => refresh' = Doomed(u)
    BY <2>1
  <2> HIDE DEF ban, q
  <2>5. row \in UserRow /\ row.banned = ban
    BY <1>2, <2>0 DEF UserRow
  <2> HIDE DEF row
  <2> QED
    BY <1>0, <2>0, <2>1, <2>2, <2>3, <2>4, <2>5, UpdateNames
<1>4. CASE RoleUpdate(r)
  <2>0. x.role \in Roles
    BY <1>0, <1>1, <1>4 DEF ReqOK, RoleUpdate, At
  <2> DEFINE row == [users[u] EXCEPT !.role = x.role]
             q == Finished(x, 200)
  <2>1. UpdateUser(r, q, u, row, FALSE) /\ UNCHANGED refresh
    <3>1. "unsure" \notin WriteOutcomes /\ "failed" \notin WriteOutcomes
      BY SureOutcomes
    <3> QED
      BY <1>1, <1>4, <3>1, Zenon DEF RoleUpdate
  <2>2. q \in Request /\ q.pc = "done"
    BY FinishedIsRequest, FinishedFields
  <2>3. row \in UserRow /\ row.banned = users[u].banned
    BY <1>2, <2>0 DEF UserRow
  <2>4. FALSE \in BOOLEAN
    OBVIOUS
  <2> HIDE DEF row, q
  <2> QED
    BY <1>0, <2>1, <2>2, <2>3, <2>4, UpdateNames
<1> QED
  BY <1>3, <1>4

LEMMA ResetNames ==
  ASSUME IInv, OInv, Sure, NEW r \in Reqs, ResetUpdate(r)
  PROVE  OInv'
<1>0. /\ req[r] \in Request /\ req[r].pw \in Passwords /\ req[r].op = "confirm" /\ UNCHANGED known
  BY DEF IInv, TypeOK, ResetUpdate, At, ReqOK, clientVars
<1>1. PICK x \in Request : x = req[r]
  BY <1>0
<1>2. PICK u \in Holders(x.link) :
        /\ UpdateUser(r, [x EXCEPT !.pc = "unlink", !.user = u], u, [users[u] EXCEPT !.pw = x.pw], TRUE)
        /\ refresh' = Doomed(u)
  <2>1. "unsure" \notin WriteOutcomes
    BY SureOutcomes
  <2> QED
    BY <1>1, <2>1, Zenon DEF ResetUpdate
<1>3. u \in Users
  BY DEF Holders
<1> DEFINE row == [users[u] EXCEPT !.pw = x.pw]
           y == [x EXCEPT !.pc = "unlink"]
           q == [y EXCEPT !.user = u]
<1>4. row \in UserRow /\ row.banned = users[u].banned
  BY <1>0, <1>1, <1>3 DEF UserRow, IInv, TypeOK
<1>5. y \in Request
  BY FieldIsRequest DEF Pcs
<1>6. q.pc = "unlink"
  BY <1>3 DEF Request
<1>7. UpdateUser(r, q, u, row, TRUE)
  BY <1>2
<1> HIDE DEF y
<1>8. q \in Request
  BY <1>3, <1>5, FieldIsRequest
<1>9. TRUE \in BOOLEAN
  OBVIOUS
<1> HIDE DEF q, row
<1> QED
  BY <1>0, <1>2, <1>3, <1>4, <1>6, <1>7, <1>8, <1>9, UpdateNames

LEMMA EnvironmentNames ==
  ASSUME IInv, OInv, Sure, Environment \/ UNCHANGED vars
  PROVE  OInv'
<1>1. CASE UNCHANGED <<users, known, req>> /\ NothingFiner
  <2>1. ASSUME NEW p \in Reqs PROVE InsertOK(p)' /\ UserOK(p)'
    <3>1. InsertOK(p) /\ UserOK(p) /\ (req[p].op = "refresh" => req[p].fresh \in Tokens)
      BY DEF OInv, IInv, ReqOK
    <3> QED
      BY <1>1, <3>1 DEF InsertOK, UserOK, NothingFiner
  <2>2. ASSUME NEW t \in Tokens PROVE RowNamed(t)'
    BY <1>1 DEF OInv, RowNamed, NothingFiner, Carries
  <2> QED
    BY <2>1, <2>2 DEF OInv
<1>2. CASE \E t \in Tokens : ExpireRefresh(t)
  <2>1. PICK t \in Tokens : ExpireRefresh(t)
    BY <1>2
  <2>2. refresh \in [Tokens -> Row] /\ refresh' = [refresh EXCEPT ![t] = [refresh[t] EXCEPT !.state = "expired"]]
        /\ refresh[t].state = "live"
    BY <2>1 DEF ExpireRefresh, IInv, TypeOK
  <2>3. /\ [refresh[t] EXCEPT !.state = "expired"].fate = refresh[t].fate
        /\ [refresh[t] EXCEPT !.state = "expired"].user = refresh[t].user
    BY <2>2 DEF Row
  <2>4. NothingFiner
    BY <2>2, <2>3 DEF NothingFiner, Fine, Unrevoked
  <2> QED
    BY <1>1, <2>1, <2>4 DEF ExpireRefresh, clientVars
<1>3. CASE UNCHANGED <<users, known, req, refresh>>
  BY <1>1, <1>3, SameFine
<1> QED
  BY <1>2, <1>3, SureOutcomes DEF Environment, Crash, ExpireAccess, ExpireReset, vars, clientVars

LEMMA NextNames == IInv /\ MInv /\ HInv /\ OInv /\ Sure /\ [Next]_vars => OInv'
<1> SUFFICES ASSUME IInv, MInv, HInv, OInv, Sure, [Next]_vars PROVE OInv'
  OBVIOUS
<1>1. ASSUME NEW r \in Reqs, Start(r) \/ Run(r) \/ Wait(r) PROVE OInv'
  BY <1>1, StartNames, LoginNames, RotateNames, GetUserNames, ReplyNames, OtherNames, AccountNames,
     ResetNames DEF Run, Wait
<1> QED
  BY <1>1, EnvironmentNames DEF Next

\* As long as no statement fails, no answer is lost and the process stays up, a
\* session that nothing has set out to end always has a token that a client
\* knows or is about to be told: neither a rotation nor a login whose user is
\* banned, demoted or given a new password at the same time strands one.  Each
\* of the faults that the hypothesis rules out does strand sessions, since the
\* new row is committed before the answer leaves; mail may fail.
THEOREM SessionsCanBeNamed ==
  ASSUME Faults \subseteq {"mail"}
  PROVE  Spec => []NoSilentOrphans
<1>1. Sure
  BY DEF Sure
<1>2. Init => OInv
  BY IdleFields DEF Init, OInv, InsertOK, UserOK, RowNamed, Fine, Unrevoked, AbsentRow
<1>3. IInv /\ MInv /\ HInv /\ OInv /\ [Next]_vars => OInv'
  BY <1>1, NextNames
<1>4. OInv => NoSilentOrphans
  BY DEF OInv, RowNamed, NoSilentOrphans, Fine, Carries
<1> QED
  BY <1>2, <1>3, <1>4, IInvHolds, MInvHolds, HInvHolds, PTL DEF Spec
=============================================================================
