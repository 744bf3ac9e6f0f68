--------------------------- MODULE SessionsProofs ---------------------------
(***************************************************************************)
(* Theorems about Sessions, for every set of users, requests, tokens,      *)
(* links and salts, every set of calls and every set of faults: its        *)
(* invariant, and that it implements SessionFamilies.                      *)
(***************************************************************************)
EXTENDS Sessions, TLAPS

(***************************************************************************)
(* The inductive invariant.  TypeOK and OneLiveHead do not carry           *)
(* themselves: a rotation is harmless only because it holds the lock of a  *)
(* row that is not revoked (LockOK), because the token it is about to      *)
(* insert is in no row and promised to nobody else (ReqOK, FreshApart),    *)
(* and because a family is named by a token that is taken (RootOK).        *)
(***************************************************************************)

\* What a request holds at each of its steps.
ReqOK(r) ==
  /\ req[r].op \in {"login", "logout", "ban", "unban", "role", "forgot"} => req[r].user \in Users
  /\ req[r].pc \in {"rotate", "user", "unlink", "revoke", "apply"} => req[r].user \in Users
  /\ req[r].op \in {"login", "refresh"} => req[r].fresh \in Tokens
  /\ req[r].op = "refresh" => req[r].tok \in Tokens
  /\ req[r].op = "role" => req[r].role \in Roles
  /\ req[r].op = "confirm" => req[r].pw \in Passwords
  /\ req[r].op = "forgot" => req[r].link \in Links
  /\ req[r].pc = "insert" => req[r].copy \in UserRow
  /\ At(r, {"login", "refresh"}, "done") /\ req[r].status = 200 =>
       req[r].user \in Users /\ req[r].copy \in UserRow
  /\ req[r].pc = "apply" => \A t \in req[r].snap : refresh[t].state # "absent"
  /\ req[r].fresh # NoToken /\ req[r].pc \notin {"user", "done"} =>
       refresh[req[r].fresh].state = "absent"

\* No two requests are about to insert the same token.
FreshApart ==
  \A r1, r2 \in Reqs : req[r1].fresh # NoToken /\ req[r1].fresh = req[r2].fresh => r1 = r2

\* Between its lookup and its commit a rotation holds the lock of its token's
\* row, and nobody revokes that row.
LockOK(r) ==
  req[r].pc = "rotate" => /\ req[r].op = "refresh"
                          /\ lock[req[r].tok] = r
                          /\ Unrevoked(req[r].tok)

\* The token that names a family is taken.
RootOK == \A t \in Tokens : refresh[t].state # "absent" => refresh[refresh[t].root].state # "absent"

IInv ==
  /\ TypeOK
  /\ \A r \in Reqs : ReqOK(r)
  /\ FreshApart
  /\ \A r \in Reqs : LockOK(r)
  /\ RootOK
  /\ OneLiveHead

USE ConstantsAssumption

-----------------------------------------------------------------------------
(* The records that requests are.  Each field is changed in a step of its own: *)
(* SMT does not type a record with two exceptions at once.                     *)

LEMMA FieldIsRequest ==
  ASSUME NEW x \in Request
  PROVE  /\ \A pc \in Pcs : [x EXCEPT !.pc = pc] \in Request
         /\ \A user \in Users : [x EXCEPT !.user = user] \in Request
         /\ \A copy \in UserRow : [x EXCEPT !.copy = copy] \in Request
         /\ \A snap \in SUBSET Tokens : [x EXCEPT !.snap = snap] \in Request
         /\ \A seen \in SUBSET UserRow : [x EXCEPT !.seen = seen] \in Request
  BY DEF Request

LEMMA FinishedIsRequest ==
  ASSUME NEW x \in Request, NEW status \in {0, 200, 401, 403, 404, 500}
  PROVE  Finished(x, status) \in Request
<1> DEFINE z == [x EXCEPT !.pc = "done"]
<1>1. z \in Request
  BY FieldIsRequest DEF Pcs
<1> HIDE DEF z
<1>2. [z EXCEPT !.status = status] \in Request
  BY <1>1 DEF Request
<1> QED
  BY <1>2, Zenon DEF z, Finished

LEMMA HistoryIsRequest ==
  ASSUME NEW x \in Request, NEW seen \in SUBSET UserRow, NEW late \in BOOLEAN
  PROVE  [x EXCEPT !.seen = seen, !.late = late] \in Request
<1> DEFINE z == [x EXCEPT !.seen = seen]
<1>1. z \in Request
  BY FieldIsRequest
<1> HIDE DEF z
<1>2. [z EXCEPT !.late = late] \in Request
  BY <1>1 DEF Request
<1> QED
  BY <1>2, Zenon DEF z

LEMMA IdleIsRequest == Idle \in Request
  BY DEF Idle, Request, Ops, Pcs, NoRole

LEMMA InitIInv == Init => IInv
<1> SUFFICES ASSUME Init PROVE IInv
  OBVIOUS
<1> USE DEF Init
<1>1. TypeOK
  <2>1. refresh \in [Tokens -> Row] /\ \A t \in Tokens : RowOK(t)
    BY DEF Row, AbsentRow, RowOK
  <2>2. access \subseteq [user : Users, role : Roles]
    BY DEF UserRow
  <2> QED
    BY <2>1, <2>2, IdleIsRequest DEF TypeOK
<1>2. \A r \in Reqs : ReqOK(r) /\ LockOK(r)
  BY DEF ReqOK, LockOK, Idle, At
<1>3. FreshApart /\ RootOK /\ OneLiveHead
  BY DEF FreshApart, RootOK, OneLiveHead, Idle, AbsentRow, Unrevoked
<1> QED
  BY <1>1, <1>2, <1>3 DEF IInv

(***************************************************************************)
(* Steps that insert and revoke no row and leave the locks alone preserve  *)
(* IInv as soon as the request that takes the step is in order afterwards. *)
(***************************************************************************)
SameRows ==
  \A t \in Tokens : /\ refresh'[t].state = "absent" <=> refresh[t].state = "absent"
                    /\ Unrevoked(t)' <=> Unrevoked(t)
                    /\ refresh'[t].root = refresh[t].root

LEMMA UnchangedSame == UNCHANGED refresh => SameRows
  BY DEF SameRows, Unrevoked

LEMMA DoomedSame ==
  ASSUME TypeOK, NEW u \in Users, refresh' = Doomed(u)
  PROVE  refresh' \in [Tokens -> Row] /\ (\A t \in Tokens : RowOK(t)') /\ SameRows
<1>1. refresh \in [Tokens -> Row] /\ \A t \in Tokens : RowOK(t)
  BY DEF TypeOK
<1>2. \A t \in Tokens : refresh'[t] \in {refresh[t], [refresh[t] EXCEPT !.fate = "doomed"]}
  BY DEF Doomed
<1>3. refresh' = [t \in Tokens |-> refresh'[t]]
  BY DEF Doomed
<1> QED
  BY <1>1, <1>2, <1>3 DEF Row, RowOK, SameRows, Unrevoked

LEMMA EscapedSame ==
  ASSUME TypeOK, NEW us, refresh' = Escaped(us)
  PROVE  refresh' \in [Tokens -> Row] /\ (\A t \in Tokens : RowOK(t)') /\ SameRows
<1>1. refresh \in [Tokens -> Row] /\ \A t \in Tokens : RowOK(t)
  BY DEF TypeOK
<1>2. \A t \in Tokens : refresh'[t] \in {refresh[t], [refresh[t] EXCEPT !.fate = "escaped"]}
  BY DEF Escaped
<1>3. refresh' = [t \in Tokens |-> refresh'[t]]
  BY DEF Escaped
<1> QED
  BY <1>1, <1>2, <1>3 DEF Row, RowOK, SameRows, Unrevoked

LEMMA SameRowsStep ==
  ASSUME IInv, SameRows, UNCHANGED <<lock, req>>, TypeOK'
  PROVE  IInv'
<1> USE DEF IInv
<1>1. ASSUME NEW p \in Reqs PROVE ReqOK(p)' /\ LockOK(p)'
  <2>1. req[p] \in Request /\ ReqOK(p) /\ LockOK(p)
    BY DEF TypeOK
  <2>2. req[p].fresh \in Tokens \cup {NoToken} /\ req[p].snap \subseteq Tokens
    BY <2>1 DEF Request
  <2> QED
    BY <2>1, <2>2 DEF ReqOK, LockOK, At, SameRows
<1>2. FreshApart'
  BY DEF FreshApart
<1>3. RootOK' /\ OneLiveHead'
  BY DEF RootOK, OneLiveHead, SameRows, TypeOK, RowOK
<1> QED
  BY <1>1, <1>2, <1>3

LEMMA LocalStep ==
  ASSUME IInv, NEW r \in Reqs, NEW q \in Request, SameRows, UNCHANGED lock,
         req' = [req EXCEPT ![r] = q], TypeOK', ReqOK(r)',
         q.fresh \in {req[r].fresh, NoToken} \cup FreeTokens, q.pc # "rotate"
  PROVE  IInv'
<1> USE DEF IInv
<1>0. req \in [Reqs -> Request]
  BY DEF TypeOK
<1>1. ASSUME NEW p \in Reqs PROVE ReqOK(p)'
  <2>1. CASE p = r
    BY <2>1
  <2>2. CASE p # r
    <3>1. req'[p] = req[p] /\ ReqOK(p) /\ req[p] \in Request
      BY <2>2, <1>0
    <3>2. req[p].fresh \in Tokens \cup {NoToken} /\ req[p].snap \subseteq Tokens
      BY <3>1 DEF Request
    <3> QED
      BY <3>1, <3>2 DEF ReqOK, At, SameRows
  <2> QED
    BY <2>1, <2>2
<1>2. FreshApart'
  <2> SUFFICES ASSUME NEW r1 \in Reqs, NEW r2 \in Reqs,
                      req'[r1].fresh # NoToken, req'[r1].fresh = req'[r2].fresh
               PROVE  r1 = r2
    BY DEF FreshApart
  <2>1. \A p \in Reqs : req'[p] = IF p = r THEN q ELSE req[p]
    BY <1>0
  <2> QED
    BY <2>1, <1>0 DEF FreshApart, FreeTokens
<1>3. ASSUME NEW p \in Reqs PROVE LockOK(p)'
  BY <1>0 DEF LockOK, ReqOK, SameRows
<1>4. RootOK' /\ OneLiveHead'
  BY DEF RootOK, OneLiveHead, SameRows, TypeOK, RowOK
<1> QED
  BY <1>1, <1>2, <1>3, <1>4

\* The same for a step that updates a row of users: the other requests change
\* in their history only.
LEMMA UpdateUserStep ==
  ASSUME IInv, NEW r \in Reqs, NEW q \in Request, NEW u \in Users, NEW row \in UserRow,
         NEW ends \in BOOLEAN, UpdateUser(r, q, u, row, ends)
  PROVE  /\ users' \in [Users -> UserRow]
         /\ req' \in [Reqs -> Request]
         /\ req'[r] = q
         /\ \A p \in Reqs \ {r} :
              /\ req'[p].op = req[p].op /\ req'[p].pc = req[p].pc /\ req'[p].user = req[p].user
              /\ req'[p].pw = req[p].pw /\ req'[p].role = req[p].role /\ req'[p].tok = req[p].tok
              /\ req'[p].fresh = req[p].fresh /\ req'[p].link = req[p].link
              /\ req'[p].copy = req[p].copy /\ req'[p].snap = req[p].snap
              /\ req'[p].status = req[p].status
<1>0. users \in [Users -> UserRow] /\ req \in [Reqs -> Request]
  BY DEF IInv, TypeOK
<1>1. users' \in [Users -> UserRow]
  BY <1>0 DEF UpdateUser
<1>2. ASSUME NEW p \in Reqs, p # r
      PROVE  /\ req'[p] \in Request
             /\ req'[p].op = req[p].op /\ req'[p].pc = req[p].pc /\ req'[p].user = req[p].user
             /\ req'[p].pw = req[p].pw /\ req'[p].role = req[p].role /\ req'[p].tok = req[p].tok
             /\ req'[p].fresh = req[p].fresh /\ req'[p].link = req[p].link
             /\ req'[p].copy = req[p].copy /\ req'[p].snap = req[p].snap
             /\ req'[p].status = req[p].status
  <2> DEFINE seen == req[p].seen \cup {row}
             late == req[p].late \/ (ends /\ req[p].op = "login" /\ req[p].copy # NoRow)
             x == [req[p] EXCEPT !.seen = seen, !.late = late]
  <2>1. req'[p] = req[p] \/ req'[p] = x
    BY <1>2 DEF UpdateUser
  <2>2. req[p] \in Request
    BY <1>0
  <2>3. late \in BOOLEAN /\ seen \in SUBSET UserRow
    BY <2>2 DEF Request
  <2> HIDE DEF seen, late
  <2>4. x \in Request
    BY <2>2, <2>3, HistoryIsRequest
  <2>5. /\ x.op = req[p].op /\ x.pc = req[p].pc /\ x.user = req[p].user
        /\ x.pw = req[p].pw /\ x.role = req[p].role /\ x.tok = req[p].tok
        /\ x.fresh = req[p].fresh /\ x.link = req[p].link
        /\ x.copy = req[p].copy /\ x.snap = req[p].snap
        /\ x.status = req[p].status
    BY <2>2, <2>3 DEF Request
  <2> QED
    BY <2>1, <2>2, <2>4, <2>5
<1>3. req'[r] = q
  BY DEF UpdateUser
<1>4. req' \in [Reqs -> Request]
  BY <1>2, <1>3 DEF UpdateUser
<1> QED
  BY <1>1, <1>2, <1>3, <1>4

\* What LocalStep says, for an update of users.
LEMMA UserWriteStep ==
  ASSUME IInv, NEW r \in Reqs, NEW q \in Request, NEW u \in Users, NEW row \in UserRow,
         NEW ends \in BOOLEAN, UpdateUser(r, q, u, row, ends),
         SameRows, UNCHANGED lock, TypeOK', ReqOK(r)', q.fresh \in {req[r].fresh, NoToken}, q.pc # "rotate"
  PROVE  IInv'
<1> USE DEF IInv
<1>1. ASSUME NEW p \in Reqs PROVE ReqOK(p)' /\ LockOK(p)'
  <2>1. CASE p = r
    BY <2>1, UpdateUserStep DEF LockOK
  <2>2. CASE p # r
    <3>1. ReqOK(p) /\ LockOK(p) /\ req[p] \in Request
      BY DEF TypeOK
    <3>2. req[p].fresh \in Tokens \cup {NoToken} /\ req[p].snap \subseteq Tokens
      BY <3>1 DEF Request
    <3> QED
      BY <2>2, <3>1, <3>2, UpdateUserStep DEF ReqOK, LockOK, At, SameRows
  <2> QED
    BY <2>1, <2>2
<1>2. FreshApart'
  <2> SUFFICES ASSUME NEW r1 \in Reqs, NEW r2 \in Reqs,
                      req'[r1].fresh # NoToken, req'[r1].fresh = req'[r2].fresh
               PROVE  r1 = r2
    BY DEF FreshApart
  <2>1. \A p \in Reqs : req'[p].fresh # NoToken => req'[p].fresh = req[p].fresh
    BY UpdateUserStep
  <2> QED
    BY <2>1 DEF FreshApart
<1>3. RootOK' /\ OneLiveHead'
  BY DEF RootOK, OneLiveHead, SameRows, TypeOK, RowOK
<1> QED
  BY <1>1, <1>2, <1>3

-----------------------------------------------------------------------------
(* Login *)

LEMMA LoginIsRequest ==
  ASSUME NEW u \in Users, NEW p \in Passwords, NEW f \in Tokens, NEW row \in UserRow
  PROVE  [[Idle EXCEPT !.user = u, !.pw = p, !.fresh = f, !.seen = {row}]
            EXCEPT !.op = "login", !.pc = "read"] \in Request
  BY DEF Request, Idle, Ops, Pcs

LEMMA LoginStartStep ==
  ASSUME IInv, NEW r \in Reqs, NEW u \in Users, LoginStart(r, u)
  PROVE  IInv'
<1>1. PICK p \in Passwords, f \in FreeTokens :
        Begin(r, "login", "read", [Idle EXCEPT !.user = u, !.pw = p, !.fresh = f, !.seen = {users[u]}])
  BY DEF LoginStart
<1>0. PICK row \in UserRow : row = users[u]
  BY DEF IInv, TypeOK
<1> DEFINE q == [[Idle EXCEPT !.user = u, !.pw = p, !.fresh = f, !.seen = {row}]
                   EXCEPT !.op = "login", !.pc = "read"]
<1>2. req' = [req EXCEPT ![r] = q]
  BY <1>0, <1>1, Zenon DEF Begin
<1>3. f \in Tokens /\ refresh[f].state = "absent" /\ req \in [Reqs -> Request]
  BY DEF IInv, TypeOK, FreeTokens
<1>4. q \in Request
  BY <1>3, LoginIsRequest
<1>5. /\ q.op = "login" /\ q.pc = "read" /\ q.user = u /\ q.fresh = f
  BY DEF Idle
<1> HIDE DEF q
<1>6. UNCHANGED <<users, refresh, lock, resetVars, clientVars>>
  BY DEF LoginStart
<1>7. TypeOK'
  BY <1>2, <1>3, <1>4, <1>6 DEF IInv, TypeOK, RowOK, resetVars, clientVars
<1>8. ReqOK(r)'
  BY <1>2, <1>3, <1>4, <1>5, <1>6 DEF ReqOK, At
<1> QED
  BY <1>2, <1>4, <1>5, <1>6, <1>7, <1>8, LocalStep, UnchangedSame

\* A request that is answered without any other effect, and is not a successful
\* login or refresh.
LEMMA FinishStep ==
  ASSUME IInv, NEW r \in Reqs, NEW status \in {0, 200, 401, 403, 404, 500}, Finish(r, status),
         status # 200 \/ req[r].op \notin {"login", "refresh"},
         SameRows, UNCHANGED lock, TypeOK'
  PROVE  IInv'
<1>1. req \in [Reqs -> Request] /\ ReqOK(r)
  BY DEF IInv, TypeOK
<1> DEFINE q == Finished(req[r], status)
<1>2. q \in Request
  BY <1>1, FinishedIsRequest
<1>3. /\ q.op = req[r].op /\ q.pc = "done" /\ q.user = req[r].user /\ q.fresh = req[r].fresh
      /\ q.tok = req[r].tok /\ q.role = req[r].role /\ q.pw = req[r].pw /\ q.link = req[r].link
      /\ q.status = status
  BY <1>1 DEF Finished, Request
<1> HIDE DEF q
<1>4. req' = [req EXCEPT ![r] = q]
  BY DEF Finish, q
<1>5. ReqOK(r)'
  BY <1>1, <1>2, <1>3, <1>4 DEF ReqOK, At
<1> QED
  BY <1>2, <1>3, <1>4, <1>5, LocalStep

LEMMA FinishOnlyStep ==
  ASSUME IInv, NEW r \in Reqs, NEW status \in {0, 200, 401, 403, 404, 500}, Finish(r, status),
         status # 200 \/ req[r].op \notin {"login", "refresh"},
         UNCHANGED <<users, refresh, lock, resetVars, clientVars>>
  PROVE  IInv'
<1>1. req' \in [Reqs -> Request]
  BY FinishedIsRequest DEF Finish, IInv, TypeOK
<1>2. TypeOK'
  BY <1>1 DEF IInv, TypeOK, RowOK, resetVars, clientVars
<1> QED
  BY <1>2, FinishStep, UnchangedSame

LEMMA LoginReadStep ==
  ASSUME IInv, NEW r \in Reqs, LoginRead(r)
  PROVE  IInv'
<1>0. req \in [Reqs -> Request] /\ ReqOK(r) /\ req[r].op = "login" /\ req[r].pc = "read"
  BY DEF IInv, TypeOK, LoginRead, At
<1>1. PICK row \in UserRow : row = users[req[r].user]
  BY <1>0 DEF IInv, TypeOK, ReqOK
<1>2. UNCHANGED <<users, refresh, lock, resetVars, clientVars>>
  BY DEF LoginRead
<1>3. CASE req' = [req EXCEPT ![r] = [@ EXCEPT !.pc = "insert", !.copy = row]]
  <2> DEFINE q == [req[r] EXCEPT !.pc = "insert", !.copy = row]
  <2>1. [req[r] EXCEPT !.pc = "insert"] \in Request
    BY <1>0, FieldIsRequest DEF Pcs
  <2>2. q \in Request
    BY <2>1, FieldIsRequest, Zenon
  <2>5. /\ q.op = "login" /\ q.pc = "insert" /\ q.user = req[r].user /\ q.fresh = req[r].fresh
        /\ q.copy = row
    BY <1>0 DEF Request
  <2> HIDE DEF q
  <2>4. req' = [req EXCEPT ![r] = q]
    BY <1>3 DEF q
  <2>6. TypeOK'
    BY <1>0, <1>2, <2>2, <2>4 DEF IInv, TypeOK, RowOK, resetVars, clientVars
  <2>7. ReqOK(r)'
    BY <1>0, <1>2, <2>4, <2>5 DEF ReqOK, At
  <2> QED
    BY <1>2, <2>2, <2>4, <2>5, <2>6, <2>7, LocalStep, UnchangedSame
<1>4. ASSUME Finish(r, LoginVerdict(row, req[r].pw)), LoginVerdict(row, req[r].pw) # 200
      PROVE  IInv'
  <2>1. LoginVerdict(row, req[r].pw) \in {401, 403}
    BY <1>4, <1>1 DEF LoginVerdict, UserRow
  <2> QED
    BY <1>2, <1>4, <2>1, FinishOnlyStep
<1>5. CASE Finish(r, 401)
  BY <1>2, <1>5, FinishOnlyStep
<1> QED
  BY <1>1, <1>3, <1>4, <1>5 DEF LoginRead

LEMMA LoginInsertStep ==
  ASSUME IInv, NEW r \in Reqs, LoginInsert(r)
  PROVE  IInv'
<1>0. /\ req \in [Reqs -> Request] /\ refresh \in [Tokens -> Row]
      /\ ReqOK(r) /\ req[r].op = "login" /\ req[r].pc = "insert"
  BY DEF IInv, TypeOK, LoginInsert, At
<1> DEFINE f == req[r].fresh
<1>1. /\ f \in Tokens /\ f # NoToken /\ refresh[f].state = "absent"
      /\ req[r].user \in Users /\ req[r].copy \in UserRow
  BY <1>0 DEF ReqOK
<1>2. PICK o \in WriteOutcomes, s \in Salts :
        /\ refresh' = IF o = "failed" THEN refresh
                      ELSE [refresh EXCEPT ![f] =
                             [state |-> "live", user |-> req[r].user, salt |-> s, root |-> f,
                              fate |-> IF req[r].late THEN "escaped" ELSE "fine"]]
        /\ Finish(r, IF o = "ok" THEN 200 ELSE 500)
  BY DEF LoginInsert
<1>3. UNCHANGED <<users, lock, resetVars, clientVars>>
  BY DEF LoginInsert
<1>4. CASE o = "failed"
  BY <1>2, <1>3, <1>4, FinishOnlyStep
<1>5. CASE o # "failed"
  <2> DEFINE row == [state |-> "live", user |-> req[r].user, salt |-> s, root |-> f,
                     fate |-> IF req[r].late THEN "escaped" ELSE "fine"]
             q == Finished(req[r], IF o = "ok" THEN 200 ELSE 500)
  <2>1. row \in Row /\ row.state = "live" /\ row.root = f /\ row.user \in Users
    BY <1>1 DEF Row
  <2>2. q \in Request
    BY <1>0, FinishedIsRequest
  <2>3. q.op = "login" /\ q.pc = "done" /\ q.user = req[r].user /\ q.fresh = f /\ q.copy = req[r].copy
    BY <1>0 DEF Finished, Request
  <2> HIDE DEF row, q
  <2>4. refresh' = [refresh EXCEPT ![f] = row] /\ req' = [req EXCEPT ![r] = q]
    BY <1>2, <1>5 DEF row, q, Finish
  <2> HIDE DEF f
  <2>5. \A t \in Tokens : refresh'[t] = IF t = f THEN row ELSE refresh[t]
    BY <1>0, <2>4
  <2>6. \A p \in Reqs : req'[p] = IF p = r THEN q ELSE req[p]
    BY <1>0, <2>4
  <2>7. TypeOK'
    BY <1>0, <1>1, <1>3, <2>1, <2>2, <2>4, <2>5 DEF IInv, TypeOK, RowOK, resetVars, clientVars
  <2>8. ASSUME NEW p \in Reqs PROVE ReqOK(p)' /\ LockOK(p)'
    <3>1. CASE p = r
      BY <1>1, <2>3, <2>6, <3>1 DEF ReqOK, LockOK, At
    <3>2. CASE p # r
      <4>1. ReqOK(p) /\ LockOK(p) /\ req'[p] = req[p] /\ req[p] \in Request
        BY <1>0, <2>6, <3>2 DEF IInv
      <4>2. req[p].fresh \in Tokens \cup {NoToken} /\ req[p].snap \subseteq Tokens
        BY <4>1 DEF Request
      <4>3. req[p].fresh # f
        BY <1>1, <3>2 DEF IInv, FreshApart, f
      <4>4. ReqOK(p)'
        BY <2>1, <2>5, <4>1, <4>2, <4>3 DEF ReqOK, At
      <4>5. LockOK(p)'
        BY <1>1, <1>3, <2>1, <2>5, <4>1 DEF ReqOK, LockOK, Unrevoked
      <4> QED
        BY <4>4, <4>5
    <3> QED
      BY <3>1, <3>2
  <2>9. FreshApart'
    BY <2>3, <2>6 DEF IInv, FreshApart, f
  <2>10. RootOK'
    BY <1>1, <2>1, <2>5 DEF IInv, RootOK, TypeOK, RowOK
  <2>11. OneLiveHead'
    <3> SUFFICES ASSUME NEW t1 \in Tokens, NEW t2 \in Tokens, Unrevoked(t1)', Unrevoked(t2)',
                        refresh'[t1].root = refresh'[t2].root
                 PROVE  t1 = t2
      BY DEF OneLiveHead
    <3>1. \A t \in Tokens : Unrevoked(t) => refresh[t].root # f
      BY <1>1 DEF IInv, RootOK, Unrevoked
    <3> QED
      BY <2>1, <2>5, <3>1 DEF IInv, OneLiveHead, Unrevoked
  <2> QED
    BY <2>7, <2>8, <2>9, <2>10, <2>11 DEF IInv
<1> QED
  BY <1>4, <1>5

-----------------------------------------------------------------------------
(* Refresh *)

LEMMA RefreshIsRequest ==
  ASSUME NEW t \in Tokens, NEW f \in Tokens
  PROVE  [[Idle EXCEPT !.tok = t, !.fresh = f] EXCEPT !.op = "refresh", !.pc = "lookup"] \in Request
  BY DEF Request, Idle, Ops, Pcs

LEMMA RefreshStartStep ==
  ASSUME IInv, NEW r \in Reqs, NEW t \in Tokens, RefreshStart(r, t)
  PROVE  IInv'
<1>1. PICK f \in FreeTokens : Begin(r, "refresh", "lookup", [Idle EXCEPT !.tok = t, !.fresh = f])
  BY DEF RefreshStart
<1> DEFINE q == [[Idle EXCEPT !.tok = t, !.fresh = f] EXCEPT !.op = "refresh", !.pc = "lookup"]
<1>2. req' = [req EXCEPT ![r] = q]
  BY <1>1, Zenon DEF Begin
<1>3. f \in Tokens /\ refresh[f].state = "absent" /\ req \in [Reqs -> Request]
  BY DEF IInv, TypeOK, FreeTokens
<1>4. q \in Request
  BY <1>3, RefreshIsRequest
<1>5. /\ q.op = "refresh" /\ q.pc = "lookup" /\ q.tok = t /\ q.fresh = f
  BY DEF Idle
<1> HIDE DEF q
<1>6. UNCHANGED <<users, refresh, lock, resetVars, clientVars>>
  BY DEF RefreshStart
<1>7. TypeOK'
  BY <1>2, <1>3, <1>4, <1>6 DEF IInv, TypeOK, RowOK, resetVars, clientVars
<1>8. ReqOK(r)'
  BY <1>2, <1>3, <1>4, <1>5, <1>6 DEF ReqOK, At
<1> QED
  BY <1>2, <1>4, <1>5, <1>6, <1>7, <1>8, LocalStep, UnchangedSame

LEMMA FoundIsRequest ==
  ASSUME NEW x \in Request, NEW u \in Users, NEW row \in UserRow
  PROVE  [x EXCEPT !.pc = "rotate", !.user = u, !.seen = {row}] \in Request
<1> DEFINE y == [x EXCEPT !.pc = "rotate"]
           z == [y EXCEPT !.user = u]
<1>1. y \in Request
  BY FieldIsRequest DEF Pcs
<1> HIDE DEF y
<1>2. z \in Request
  BY <1>1, FieldIsRequest
<1> HIDE DEF z
<1>3. [z EXCEPT !.seen = {row}] \in Request
  BY <1>2 DEF Request
<1> QED
  BY <1>3, Zenon DEF y, z

LEMMA RefreshLookupStep ==
  ASSUME IInv, NEW r \in Reqs, RefreshLookup(r)
  PROVE  IInv'
<1>0. /\ req \in [Reqs -> Request] /\ refresh \in [Tokens -> Row] /\ lock \in [Tokens -> Reqs \cup {NoReq}]
      /\ ReqOK(r) /\ req[r].op = "refresh" /\ req[r].pc = "lookup"
  BY DEF IInv, TypeOK, RefreshLookup, At
<1> DEFINE t == req[r].tok
           u == refresh[t].user
<1>1. UNCHANGED <<users, refresh, resetVars, clientVars>>
  BY DEF RefreshLookup
<1>2. ASSUME NEW s \in Salts, RowFound(t, s), RowFree(t), lock' = [lock EXCEPT ![t] = r],
             req' = [req EXCEPT ![r] = [@ EXCEPT !.pc = "rotate", !.user = u, !.seen = {users[u]}]]
      PROVE  IInv'
  <2>1. t \in Tokens /\ lock[t] = NoReq /\ refresh[t].state = "live" /\ u \in Users
    BY <1>0, <1>2 DEF ReqOK, RowFound, RowFree, IInv, TypeOK, RowOK
  <2>2. PICK row \in UserRow : row = users[u]
    BY <2>1 DEF IInv, TypeOK
  <2> DEFINE q == [req[r] EXCEPT !.pc = "rotate", !.user = u, !.seen = {row}]
  <2>3. q \in Request
    BY <1>0, <2>1, FoundIsRequest
  <2>4. q.op = "refresh" /\ q.pc = "rotate" /\ q.user = u /\ q.fresh = req[r].fresh /\ q.tok = t
    BY <1>0 DEF Request
  <2>5. req' = [req EXCEPT ![r] = q]
    BY <1>2, <2>2
  <2> HIDE DEF q
  <2>6. \A p \in Reqs : req'[p] = IF p = r THEN q ELSE req[p]
    BY <1>0, <2>5
  <2>7. TypeOK'
    BY <1>0, <1>1, <1>2, <2>3, <2>5 DEF IInv, TypeOK, RowOK, resetVars, clientVars
  <2>8. ASSUME NEW p \in Reqs PROVE ReqOK(p)' /\ LockOK(p)'
    <3>1. CASE p = r
      BY <1>0, <1>1, <1>2, <2>1, <2>4, <2>6, <3>1 DEF ReqOK, LockOK, At, Unrevoked
    <3>2. CASE p # r
      <4>1. ReqOK(p) /\ LockOK(p) /\ req'[p] = req[p]
        BY <2>6, <3>2 DEF IInv
      <4> QED
        BY <1>0, <1>1, <1>2, <2>1, <4>1 DEF ReqOK, LockOK, At, Unrevoked
    <3> QED
      BY <3>1, <3>2
  <2>9. FreshApart'
    BY <2>4, <2>6 DEF IInv, FreshApart
  <2>10. RootOK' /\ OneLiveHead'
    BY <1>1 DEF IInv, RootOK, OneLiveHead, Unrevoked
  <2> QED
    BY <2>7, <2>8, <2>9, <2>10 DEF IInv
<1>3. ASSUME Finish(r, 401), UNCHANGED lock
      PROVE  IInv'
  BY <1>1, <1>3, FinishOnlyStep
<1> QED
  BY <1>2, <1>3 DEF RefreshLookup

LEMMA RefreshRotateStep ==
  ASSUME IInv, NEW r \in Reqs, RefreshRotate(r)
  PROVE  IInv'
<1>0. /\ req \in [Reqs -> Request] /\ refresh \in [Tokens -> Row] /\ lock \in [Tokens -> Reqs \cup {NoReq}]
      /\ ReqOK(r) /\ LockOK(r) /\ req[r].op = "refresh" /\ req[r].pc = "rotate"
  BY DEF IInv, TypeOK, RefreshRotate, At
<1> DEFINE t == req[r].tok
           f == req[r].fresh
<1>1. /\ t \in Tokens /\ f \in Tokens /\ f # NoToken /\ t # f /\ lock[t] = r
      /\ refresh[f].state = "absent" /\ Unrevoked(t) /\ refresh[t].root \in Tokens
      /\ refresh[t].user \in Users /\ req[r].user \in Users
  BY <1>0 DEF ReqOK, LockOK, Unrevoked, IInv, TypeOK, RowOK
<1>2. PICK o \in WriteOutcomes, s \in Salts :
        /\ lock' = [lock EXCEPT ![t] = NoReq]
        /\ refresh' = IF o = "failed" THEN refresh ELSE Rotated(t, f, s)
        /\ IF o = "ok" THEN Goto(r, "user") ELSE Finish(r, 401)
  BY DEF RefreshRotate, Unlocked
<1> DEFINE q == IF o = "ok" THEN [req[r] EXCEPT !.pc = "user"] ELSE Finished(req[r], 401)
<1>3. UNCHANGED <<users, resetVars, clientVars>>
  BY DEF RefreshRotate
<1>4. q \in Request
  <2>1. [req[r] EXCEPT !.pc = "user"] \in Request
    BY <1>0, FieldIsRequest DEF Pcs
  <2>2. Finished(req[r], 401) \in Request
    BY <1>0, FinishedIsRequest
  <2> QED
    BY <2>1, <2>2
<1>5. /\ q.op = "refresh" /\ q.user = req[r].user /\ q.fresh = f /\ q.tok = t
      /\ q.pc \in {"user", "done"} /\ (q.pc = "done" => q.status = 401)
  BY <1>0 DEF Finished, Request
<1>6. req' = [req EXCEPT ![r] = q]
  BY <1>2 DEF Goto, Finish
<1> HIDE DEF q, t, f
<1>7. \A p \in Reqs : req'[p] = IF p = r THEN q ELSE req[p]
  BY <1>0, <1>6
<1>8. \A p \in Reqs \ {r} : req[p].pc = "rotate" => req[p].tok \in Tokens /\ req[p].tok # t /\ lock'[req[p].tok] = p
  BY <1>0, <1>1, <1>2 DEF IInv, LockOK, ReqOK
<1>9. FreshApart'
  BY <1>5, <1>7 DEF IInv, FreshApart, f
<1>10. ASSUME NEW p \in Reqs, p # r
       PROVE  /\ ReqOK(p) /\ LockOK(p) /\ req'[p] = req[p] /\ req[p].fresh # f
              /\ req[p].fresh \in Tokens \cup {NoToken} /\ req[p].snap \subseteq Tokens
  <2>1. ReqOK(p) /\ LockOK(p) /\ req'[p] = req[p] /\ req[p] \in Request
    BY <1>0, <1>7, <1>10 DEF IInv
  <2>2. req[p].fresh # f
    BY <1>1, <1>10 DEF IInv, FreshApart, f
  <2> QED
    BY <2>1, <2>2 DEF Request
<1>11. CASE o = "failed"
  <2>1. TypeOK'
    BY <1>0, <1>1, <1>2, <1>3, <1>4, <1>6, <1>11 DEF IInv, TypeOK, RowOK, resetVars, clientVars
  <2>2. ASSUME NEW p \in Reqs PROVE ReqOK(p)' /\ LockOK(p)'
    <3>1. CASE p = r
      BY <1>0, <1>1, <1>5, <1>7, <3>1 DEF ReqOK, LockOK, At
    <3>2. CASE p # r
      BY <1>2, <1>8, <1>10, <1>11, <3>2 DEF ReqOK, LockOK, At, Unrevoked
    <3> QED
      BY <3>1, <3>2
  <2>3. RootOK' /\ OneLiveHead'
    BY <1>2, <1>11 DEF IInv, RootOK, OneLiveHead, Unrevoked
  <2> QED
    BY <1>9, <2>1, <2>2, <2>3 DEF IInv
<1>12. CASE o # "failed"
  <2>1. PICK new \in Row, old \in Row :
          /\ new.state = "live" /\ new.root = refresh[t].root /\ new.user = refresh[t].user
          /\ old.state = "revoked" /\ old.root = refresh[t].root /\ old.user = refresh[t].user
          /\ \A x \in Tokens : refresh'[x] = IF x = f THEN new ELSE IF x = t THEN old ELSE refresh[x]
    <3> DEFINE new == [state |-> "live", user |-> refresh[t].user, salt |-> s, root |-> refresh[t].root,
                       fate |-> IF refresh[t].fate = "fine" THEN "fine" ELSE "escaped"]
               old == [refresh[t] EXCEPT !.state = "revoked"]
    <3>1. new \in Row /\ old \in Row
      BY <1>0, <1>1 DEF Row
    <3>2. /\ new.state = "live" /\ new.root = refresh[t].root /\ new.user = refresh[t].user
          /\ old.state = "revoked" /\ old.root = refresh[t].root /\ old.user = refresh[t].user
      BY <1>0, <1>1 DEF Row
    <3> HIDE DEF new, old
    <3>3. refresh' = [refresh EXCEPT ![t] = old, ![f] = new]
      BY <1>2, <1>12, Zenon DEF Rotated, new, old
    <3>4. \A x \in Tokens : refresh'[x] = IF x = f THEN new ELSE IF x = t THEN old ELSE refresh[x]
      BY <1>0, <1>1, <3>3
    <3> QED
      BY <3>1, <3>2, <3>4
  <2>2. refresh' \in [Tokens -> Row]
    BY <1>0, <1>2, <1>12, <2>1 DEF Rotated
  <2>3. TypeOK'
    BY <1>0, <1>1, <1>2, <1>3, <1>4, <1>6, <2>1, <2>2 DEF IInv, TypeOK, RowOK, resetVars, clientVars
  <2>4. ASSUME NEW p \in Reqs PROVE ReqOK(p)' /\ LockOK(p)'
    <3>1. CASE p = r
      BY <1>0, <1>1, <1>5, <1>7, <3>1 DEF ReqOK, LockOK, At
    <3>2. CASE p # r
      <4>1. ReqOK(p)'
        BY <1>1, <1>10, <2>1, <3>2 DEF ReqOK, At, Unrevoked
      <4>2. LockOK(p)'
        BY <1>1, <1>8, <1>10, <2>1, <3>2 DEF LockOK, Unrevoked
      <4> QED
        BY <4>1, <4>2
    <3> QED
      BY <3>1, <3>2
  <2>5. RootOK'
    BY <1>1, <2>1 DEF IInv, RootOK, TypeOK, RowOK, Unrevoked
  <2>6. OneLiveHead'
    BY <1>1, <2>1 DEF IInv, OneLiveHead, Unrevoked
  <2> QED
    BY <1>9, <2>3, <2>4, <2>5, <2>6 DEF IInv
<1> QED
  BY <1>11, <1>12

LEMMA RefreshGetUserStep ==
  ASSUME IInv, NEW r \in Reqs, RefreshGetUser(r)
  PROVE  IInv'
<1>0. /\ req \in [Reqs -> Request] /\ ReqOK(r) /\ req[r].op = "refresh" /\ req[r].pc = "user"
  BY DEF IInv, TypeOK, RefreshGetUser, At
<1>1. UNCHANGED <<users, refresh, lock, resetVars, clientVars>>
  BY DEF RefreshGetUser
<1>2. PICK row \in UserRow : row = users[req[r].user]
  BY <1>0 DEF IInv, TypeOK, ReqOK
<1>3. CASE req' = [req EXCEPT ![r] = Finished([@ EXCEPT !.copy = row], 200)]
  <2> DEFINE x == [req[r] EXCEPT !.copy = row]
             q == Finished(x, 200)
  <2>1. x \in Request /\ x.op = "refresh" /\ x.user = req[r].user /\ x.fresh = req[r].fresh
        /\ x.tok = req[r].tok /\ x.copy = row
    BY <1>0 DEF Request
  <2>2. req' = [req EXCEPT ![r] = q]
    BY <1>3
  <2> HIDE DEF x
  <2>3. q \in Request
    BY <2>1, FinishedIsRequest
  <2>4. q.op = "refresh" /\ q.pc = "done" /\ q.user = req[r].user /\ q.fresh = req[r].fresh
        /\ q.tok = req[r].tok /\ q.copy = row
    BY <2>1 DEF Finished, Request
  <2> HIDE DEF q
  <2>5. TypeOK'
    BY <1>0, <1>1, <2>2, <2>3 DEF IInv, TypeOK, RowOK, resetVars, clientVars
  <2>6. ReqOK(r)'
    BY <1>0, <1>1, <2>2, <2>4 DEF ReqOK, At
  <2> QED
    BY <1>1, <2>2, <2>3, <2>4, <2>5, <2>6, LocalStep, UnchangedSame
<1>4. ASSUME Finish(r, 403) \/ Finish(r, 404) PROVE IInv'
  BY <1>1, <1>4, FinishOnlyStep
<1> QED
  BY <1>2, <1>3, <1>4 DEF RefreshGetUser

-----------------------------------------------------------------------------
(* Revocation, logout and the admin routes *)

LEMMA RevokeSnapshotStep ==
  ASSUME IInv, NEW r \in Reqs, RevokeSnapshot(r)
  PROVE  IInv'
<1>0. /\ req \in [Reqs -> Request] /\ ReqOK(r) /\ req[r].pc = "revoke"
      /\ req[r].op \in {"logout", "ban", "unban", "confirm"}
  BY DEF IInv, TypeOK, RevokeSnapshot, At
<1>1. UNCHANGED <<users, lock, resetVars, clientVars>>
  BY DEF RevokeSnapshot
<1>2. PICK rows \in SUBSET Tokens : rows = RowsOf(req[r].user)
  BY DEF RowsOf
<1>3. CASE /\ req' = [req EXCEPT ![r] = [@ EXCEPT !.pc = "apply", !.snap = rows]]
           /\ UNCHANGED refresh
  <2> DEFINE x == [req[r] EXCEPT !.pc = "apply"]
             q == [x EXCEPT !.snap = rows]
  <2>1. x \in Request /\ x.pc = "apply" /\ x.op = req[r].op /\ x.user = req[r].user /\ x.pw = req[r].pw
        /\ x.fresh = req[r].fresh /\ x.link = req[r].link
    <3>1. x \in Request
      BY <1>0, FieldIsRequest DEF Pcs
    <3> QED
      BY <3>1, <1>0 DEF Request
  <2>2. req' = [req EXCEPT ![r] = q]
    BY <1>3
  <2> HIDE DEF x
  <2>3. q \in Request
    BY <2>1 DEF Request
  <2>4. q.pc = "apply" /\ q.op = req[r].op /\ q.user = req[r].user /\ q.pw = req[r].pw
        /\ q.fresh = req[r].fresh /\ q.link = req[r].link /\ q.snap = rows
    BY <2>1 DEF Request
  <2> HIDE DEF q
  <2>5. TypeOK'
    BY <1>0, <1>1, <1>3, <2>2, <2>3 DEF IInv, TypeOK, RowOK, resetVars, clientVars
  <2>6. ReqOK(r)'
    BY <1>0, <1>1, <1>2, <1>3, <2>2, <2>4 DEF ReqOK, At, RowsOf, Unrevoked
  <2> QED
    BY <1>1, <1>3, <2>2, <2>3, <2>4, <2>5, <2>6, LocalStep, UnchangedSame
<1>4. CASE refresh' = Escaped({req[r].user}) /\ Finish(r, 200)
  <2>1. refresh' \in [Tokens -> Row] /\ (\A t \in Tokens : RowOK(t)') /\ SameRows
    BY <1>4, EscapedSame DEF IInv
  <2>2. req' \in [Reqs -> Request]
    BY <1>0, <1>4, FinishedIsRequest DEF Finish
  <2>3. TypeOK'
    BY <1>1, <2>1, <2>2 DEF IInv, TypeOK, resetVars, clientVars
  <2> QED
    BY <1>0, <1>1, <1>4, <2>1, <2>3, FinishStep
<1> QED
  BY <1>2, <1>3, <1>4 DEF RevokeSnapshot

LEMMA RevokeApplyStep ==
  ASSUME IInv, NEW r \in Reqs, RevokeApply(r)
  PROVE  IInv'
<1>0. /\ req \in [Reqs -> Request] /\ refresh \in [Tokens -> Row] /\ ReqOK(r) /\ req[r].pc = "apply"
      /\ req[r].op \in {"logout", "ban", "unban", "confirm"} /\ Finish(r, 200)
  BY DEF IInv, TypeOK, RevokeApply, At
<1>1. UNCHANGED <<users, lock, resetVars, clientVars>>
  BY DEF RevokeApply
<1>2. req' \in [Reqs -> Request]
  BY <1>0, FinishedIsRequest DEF Finish
<1>3. CASE refresh' = Escaped({req[r].user})
  <2>1. refresh' \in [Tokens -> Row] /\ (\A t \in Tokens : RowOK(t)') /\ SameRows
    BY <1>3, EscapedSame DEF IInv
  <2>2. TypeOK'
    BY <1>1, <1>2, <2>1 DEF IInv, TypeOK, resetVars, clientVars
  <2> QED
    BY <1>0, <1>1, <2>1, <2>2, FinishStep
<1>4. ASSUME \A t \in req[r].snap : RowFree(t),
             refresh' = [t \in Tokens |-> IF t \in req[r].snap
                                         THEN [refresh[t] EXCEPT !.state = "revoked"]
                                         ELSE refresh[t]]
      PROVE  IInv'
  <2> DEFINE snap == req[r].snap
             q == Finished(req[r], 200)
  <2>1. snap \subseteq Tokens /\ \A t \in snap : refresh[t].state # "absent" /\ lock[t] = NoReq
    BY <1>0, <1>4 DEF Request, ReqOK, RowFree
  <2>2. q \in Request /\ req' = [req EXCEPT ![r] = q]
    BY <1>0, FinishedIsRequest DEF Finish
  <2>3. /\ q.op = req[r].op /\ q.pc = "done" /\ q.user = req[r].user /\ q.pw = req[r].pw
        /\ q.fresh = req[r].fresh /\ q.link = req[r].link
    BY <1>0 DEF Finished, Request
  <2> HIDE DEF snap, q
  <2>4. \A t \in Tokens :
          /\ refresh'[t] \in Row
          /\ refresh'[t].user = refresh[t].user /\ refresh'[t].root = refresh[t].root
          /\ refresh'[t].state = IF t \in snap THEN "revoked" ELSE refresh[t].state
    <3> SUFFICES ASSUME NEW t \in Tokens
                 PROVE  /\ refresh'[t] \in Row
                        /\ refresh'[t].user = refresh[t].user /\ refresh'[t].root = refresh[t].root
                        /\ refresh'[t].state = IF t \in snap THEN "revoked" ELSE refresh[t].state
      OBVIOUS
    <3>1. refresh'[t] = IF t \in snap THEN [refresh[t] EXCEPT !.state = "revoked"] ELSE refresh[t]
      BY <1>4 DEF snap
    <3>2. refresh[t] \in Row
      BY <1>0
    <3> QED
      BY <3>1, <3>2 DEF Row
  <2>5. refresh' \in [Tokens -> Row]
    BY <1>4, <2>4
  <2>6. \A p \in Reqs : req'[p] = IF p = r THEN q ELSE req[p]
    BY <1>0, <2>2
  <2>7. TypeOK'
    BY <1>1, <1>2, <2>1, <2>4, <2>5 DEF IInv, TypeOK, RowOK, resetVars, clientVars
  <2>8. ASSUME NEW p \in Reqs PROVE ReqOK(p)' /\ LockOK(p)'
    <3>1. CASE p = r
      <4>1. req[r].fresh \in Tokens \cup {NoToken}
        BY <1>0 DEF Request
      <4> QED
        BY <1>0, <2>3, <2>6, <3>1 DEF ReqOK, LockOK, At
    <3>2. CASE p # r
      <4>1. ReqOK(p) /\ LockOK(p) /\ req'[p] = req[p] /\ req[p] \in Request
        BY <1>0, <2>6, <3>2 DEF IInv
      <4>2. req[p].fresh \in Tokens \cup {NoToken} /\ req[p].snap \subseteq Tokens
        BY <4>1 DEF Request
      <4>3. ReqOK(p)'
        BY <2>1, <2>4, <4>1, <4>2 DEF ReqOK, At
      <4>4. req[p].pc = "rotate" => req[p].tok \in Tokens /\ req[p].tok \notin snap
        BY <2>1, <4>1 DEF LockOK, ReqOK
      <4>5. LockOK(p)'
        BY <1>1, <2>4, <4>1, <4>4 DEF LockOK, Unrevoked
      <4> QED
        BY <4>3, <4>5
    <3> QED
      BY <3>1, <3>2
  <2>9. FreshApart'
    BY <2>3, <2>6 DEF IInv, FreshApart
  <2>10. RootOK' /\ OneLiveHead'
    BY <2>1, <2>4 DEF IInv, RootOK, OneLiveHead, Unrevoked, TypeOK, RowOK
  <2> QED
    BY <2>7, <2>8, <2>9, <2>10 DEF IInv
<1> QED
  BY <1>3, <1>4 DEF RevokeApply

LEMMA LogoutIsRequest ==
  ASSUME NEW u \in Users
  PROVE  [[Idle EXCEPT !.user = u] EXCEPT !.op = "logout", !.pc = "revoke"] \in Request
  BY DEF Request, Idle, Ops, Pcs

LEMMA LogoutStartStep ==
  ASSUME IInv, NEW r \in Reqs, NEW u \in Users, LogoutStart(r, u)
  PROVE  IInv'
<1> DEFINE q == [[Idle EXCEPT !.user = u] EXCEPT !.op = "logout", !.pc = "revoke"]
<1>1. req' = [req EXCEPT ![r] = q]
  BY Zenon DEF LogoutStart, Begin
<1>2. q \in Request
  BY LogoutIsRequest
<1>3. q.op = "logout" /\ q.pc = "revoke" /\ q.user = u /\ q.fresh = NoToken
  BY DEF Idle
<1> HIDE DEF q
<1>4. refresh' = Doomed(u) /\ UNCHANGED <<users, lock, resetVars, clientVars>>
  BY DEF LogoutStart
<1>5. refresh' \in [Tokens -> Row] /\ (\A t \in Tokens : RowOK(t)') /\ SameRows
  BY <1>4, DoomedSame DEF IInv
<1>6. TypeOK'
  BY <1>1, <1>2, <1>4, <1>5 DEF IInv, TypeOK, resetVars, clientVars
<1>7. ReqOK(r)'
  BY <1>1, <1>2, <1>3 DEF ReqOK, At, IInv, TypeOK
<1> QED
  BY <1>1, <1>2, <1>3, <1>4, <1>5, <1>6, <1>7, LocalStep

LEMMA AdminIsRequest ==
  ASSUME NEW u \in Users, NEW op \in {"ban", "unban", "role"}, NEW role \in Roles \cup {NoRole}
  PROVE  [[Idle EXCEPT !.user = u, !.role = role] EXCEPT !.op = op, !.pc = "update"] \in Request
  BY DEF Request, Idle, Ops, Pcs

LEMMA AdminStartStep ==
  ASSUME IInv, NEW r \in Reqs, NEW u \in Users, NEW op \in {"ban", "unban", "role"},
         AdminStart(r, op, u)
  PROVE  IInv'
<1>1. PICK role \in (IF op = "role" THEN Roles ELSE {NoRole}) :
        Begin(r, op, "update", [Idle EXCEPT !.user = u, !.role = role])
  BY DEF AdminStart
<1> DEFINE q == [[Idle EXCEPT !.user = u, !.role = role] EXCEPT !.op = op, !.pc = "update"]
<1>2. req' = [req EXCEPT ![r] = q]
  BY <1>1, Zenon DEF Begin
<1>3. q \in Request
  BY AdminIsRequest
<1>4. q.op = op /\ q.pc = "update" /\ q.user = u /\ q.role = role /\ q.fresh = NoToken
  BY DEF Idle
<1> HIDE DEF q
<1>5. UNCHANGED <<users, refresh, lock, resetVars, clientVars>>
  BY DEF AdminStart
<1>6. TypeOK'
  BY <1>2, <1>3, <1>5 DEF IInv, TypeOK, RowOK, resetVars, clientVars
<1>7. ReqOK(r)'
  BY <1>2, <1>3, <1>4 DEF ReqOK, At, IInv, TypeOK
<1> QED
  BY <1>2, <1>3, <1>4, <1>5, <1>6, <1>7, LocalStep, UnchangedSame

LEMMA BanUpdateStep ==
  ASSUME IInv, NEW r \in Reqs, BanUpdate(r)
  PROVE  IInv'
<1>0. /\ req \in [Reqs -> Request] /\ ReqOK(r) /\ req[r].op \in {"ban", "unban"} /\ req[r].pc = "update"
      /\ req[r].fresh \in Tokens \cup {NoToken}
  BY DEF IInv, TypeOK, BanUpdate, At, Request
<1> DEFINE u == req[r].user
           ban == req[r].op = "ban"
<1>1. u \in Users
  BY <1>0 DEF ReqOK
<1>2. PICK row \in UserRow : row = [users[u] EXCEPT !.banned = ban]
  <2>1. users[u] \in UserRow /\ ban \in BOOLEAN
    BY <1>1 DEF IInv, TypeOK
  <2> HIDE DEF ban
  <2>2. [users[u] EXCEPT !.banned = ban] \in UserRow
    BY <2>1 DEF UserRow
  <2> QED
    BY <2>2
<1>3. UNCHANGED <<lock, resetVars, clientVars>>
  BY DEF BanUpdate
<1>4. ASSUME NEW q \in Request, NEW ends \in BOOLEAN, UpdateUser(r, q, u, row, ends),
             q.op = req[r].op, q.user = u, q.fresh = req[r].fresh, q.pc \in {"revoke", "done"},
             refresh' = refresh \/ refresh' = Doomed(u)
      PROVE  IInv'
  <2>1. refresh' \in [Tokens -> Row] /\ (\A t \in Tokens : RowOK(t)') /\ SameRows
    <3>1. CASE refresh' = refresh
      BY <3>1, UnchangedSame DEF IInv, TypeOK, RowOK
    <3>2. CASE refresh' = Doomed(u)
      BY <1>1, <3>2, DoomedSame DEF IInv
    <3> QED
      BY <1>4, <3>1, <3>2
  <2>2. users' \in [Users -> UserRow] /\ req' \in [Reqs -> Request] /\ req'[r] = q
    BY <1>1, <1>4, UpdateUserStep
  <2>3. TypeOK'
    BY <1>3, <2>1, <2>2 DEF IInv, TypeOK, resetVars, clientVars
  <2>4. ReqOK(r)'
    BY <1>0, <1>1, <1>4, <2>1, <2>2 DEF ReqOK, At, SameRows
  <2> QED
    BY <1>1, <1>3, <1>4, <2>1, <2>3, <2>4, UserWriteStep
<1>5. ASSUME UpdateUser(r, AfterBan(req[r]), u, row, ban), refresh' = IF ban THEN Doomed(u) ELSE refresh
      PROVE  IInv'
  <2> DEFINE q == AfterBan(req[r])
  <2>1. q \in Request
    <3>1. [req[r] EXCEPT !.pc = "revoke"] \in Request
      BY <1>0, FieldIsRequest DEF Pcs
    <3>2. Finished(req[r], 200) \in Request
      BY <1>0, FinishedIsRequest
    <3> QED
      BY <3>1, <3>2 DEF AfterBan
  <2>2. q.op = req[r].op /\ q.user = u /\ q.fresh = req[r].fresh /\ q.pc \in {"revoke", "done"}
    BY <1>0 DEF AfterBan, Finished, Request
  <2> QED
    BY <1>4, <1>5, <2>1, <2>2
<1>6. ASSUME UpdateUser(r, Finished(req[r], 500), u, row, FALSE), UNCHANGED refresh
      PROVE  IInv'
  <2> DEFINE q == Finished(req[r], 500)
  <2>1. q \in Request
    BY <1>0, FinishedIsRequest
  <2>2. q.op = req[r].op /\ q.user = u /\ q.fresh = req[r].fresh /\ q.pc \in {"revoke", "done"}
    BY <1>0 DEF Finished, Request
  <2> QED
    BY <1>4, <1>6, <2>1, <2>2
<1>7. ASSUME Finish(r, 500), UNCHANGED <<users, refresh>>
      PROVE  IInv'
  BY <1>3, <1>7, FinishOnlyStep
<1> QED
  BY <1>2, <1>5, <1>6, <1>7 DEF BanUpdate

LEMMA RoleUpdateStep ==
  ASSUME IInv, NEW r \in Reqs, RoleUpdate(r)
  PROVE  IInv'
<1>0. /\ req \in [Reqs -> Request] /\ ReqOK(r) /\ req[r].op = "role" /\ req[r].pc = "update"
  BY DEF IInv, TypeOK, RoleUpdate, At
<1> DEFINE u == req[r].user
<1>1. u \in Users
  BY <1>0 DEF ReqOK
<1>2. PICK row \in UserRow : row = [users[u] EXCEPT !.role = req[r].role]
  <2>1. [users[u] EXCEPT !.role = req[r].role] \in UserRow
    BY <1>0, <1>1 DEF UserRow, IInv, TypeOK, ReqOK
  <2> QED
    BY <2>1
<1>3. UNCHANGED <<refresh, lock, resetVars, clientVars>>
  BY DEF RoleUpdate
<1>4. ASSUME NEW status \in {200, 500}, NEW ends \in BOOLEAN,
             UpdateUser(r, Finished(req[r], status), u, row, ends)
      PROVE  IInv'
  <2> DEFINE q == Finished(req[r], status)
  <2>1. q \in Request
    BY <1>0, FinishedIsRequest
  <2>2. q.op = "role" /\ q.user = u /\ q.fresh = req[r].fresh /\ q.pc = "done" /\ q.role = req[r].role
    BY <1>0 DEF Finished, Request
  <2> HIDE DEF q
  <2>3. UpdateUser(r, q, u, row, ends)
    BY <1>4 DEF q
  <2>4. users' \in [Users -> UserRow] /\ req' \in [Reqs -> Request] /\ req'[r] = q
    BY <1>1, <2>1, <2>3, UpdateUserStep
  <2>5. TypeOK'
    BY <1>3, <2>4 DEF IInv, TypeOK, RowOK, resetVars, clientVars
  <2>6. ReqOK(r)'
    BY <1>0, <1>1, <1>3, <2>2, <2>4 DEF ReqOK, At
  <2> QED
    BY <1>1, <1>3, <2>1, <2>2, <2>3, <2>5, <2>6, UserWriteStep, UnchangedSame
<1>5. ASSUME Finish(r, 500), UNCHANGED users
      PROVE  IInv'
  BY <1>3, <1>5, FinishOnlyStep
<1> QED
  BY <1>2, <1>4, <1>5 DEF RoleUpdate

-----------------------------------------------------------------------------
(* Password reset *)

LEMMA ForgotIsRequest ==
  ASSUME NEW u \in Users, NEW k \in Links
  PROVE  [[Idle EXCEPT !.user = u, !.link = k] EXCEPT !.op = "forgot", !.pc = "read"] \in Request
  BY DEF Request, Idle, Ops, Pcs

LEMMA ForgotStartStep ==
  ASSUME IInv, NEW r \in Reqs, NEW u \in Users, ForgotStart(r, u)
  PROVE  IInv'
<1>1. PICK k \in Links \ issued :
        /\ Begin(r, "forgot", "read", [Idle EXCEPT !.user = u, !.link = k])
        /\ issued' = issued \cup {k}
  BY DEF ForgotStart
<1> DEFINE q == [[Idle EXCEPT !.user = u, !.link = k] EXCEPT !.op = "forgot", !.pc = "read"]
<1>2. req' = [req EXCEPT ![r] = q]
  BY <1>1, Zenon DEF Begin
<1>3. q \in Request
  BY ForgotIsRequest
<1>4. q.op = "forgot" /\ q.pc = "read" /\ q.user = u /\ q.link = k /\ q.fresh = NoToken
  BY DEF Idle
<1> HIDE DEF q
<1>5. UNCHANGED <<users, refresh, lock, reset, owed, mailed, spent, clientVars>>
  BY DEF ForgotStart
<1>6. TypeOK'
  BY <1>1, <1>2, <1>3, <1>5 DEF IInv, TypeOK, RowOK, clientVars
<1>7. ReqOK(r)'
  BY <1>2, <1>3, <1>4 DEF ReqOK, At, IInv, TypeOK
<1> QED
  BY <1>2, <1>3, <1>4, <1>5, <1>6, <1>7, LocalStep, UnchangedSame

\* A request that goes on to a step that needs nothing but its user.
LEMMA GotoStep ==
  ASSUME IInv, NEW r \in Reqs, NEW pc \in {"upsert", "mail"}, Goto(r, pc),
         req[r].op = "forgot", req[r].pc \in {"read", "upsert"},
         UNCHANGED <<users, refresh, lock, issued, mailed, spent, clientVars>>,
         reset' \in [Users -> Links \cup {NoLink}], owed' \in [Users -> Links \cup {NoLink}]
  PROVE  IInv'
<1>0. req \in [Reqs -> Request] /\ ReqOK(r)
  BY DEF IInv, TypeOK
<1> DEFINE q == [req[r] EXCEPT !.pc = pc]
<1>1. q \in Request
  BY <1>0, FieldIsRequest DEF Pcs
<1>2. /\ q.op = "forgot" /\ q.pc = pc /\ q.user = req[r].user /\ q.fresh = req[r].fresh
      /\ q.link = req[r].link
  BY <1>0 DEF Request
<1>3. req' = [req EXCEPT ![r] = q]
  BY DEF Goto
<1> HIDE DEF q
<1>4. TypeOK'
  BY <1>0, <1>1, <1>3 DEF IInv, TypeOK, RowOK, clientVars
<1>5. ReqOK(r)'
  BY <1>0, <1>2, <1>3 DEF ReqOK, At
<1> QED
  BY <1>1, <1>2, <1>3, <1>4, <1>5, LocalStep, UnchangedSame

LEMMA ForgotReadStep ==
  ASSUME IInv, NEW r \in Reqs, ForgotRead(r)
  PROVE  IInv'
<1>1. req[r].op = "forgot" /\ req[r].pc = "read" /\ UNCHANGED <<users, refresh, lock, resetVars, clientVars>>
  BY DEF ForgotRead, At
<1>2. CASE Goto(r, "upsert")
  BY <1>1, <1>2, GotoStep DEF resetVars, IInv, TypeOK
<1>3. CASE Finish(r, 200)
  BY <1>1, <1>3, FinishOnlyStep
<1> QED
  BY <1>2, <1>3 DEF ForgotRead

LEMMA ForgotUpsertStep ==
  ASSUME IInv, NEW r \in Reqs, ForgotUpsert(r)
  PROVE  IInv'
<1>1. /\ req[r].op = "forgot" /\ req[r].pc = "upsert" /\ ReqOK(r) /\ req \in [Reqs -> Request]
      /\ UNCHANGED <<users, refresh, lock, issued, mailed, spent, clientVars>>
  BY DEF ForgotUpsert, At, IInv, TypeOK
<1>2. reset' \in [Users -> Links \cup {NoLink}] /\ owed' \in [Users -> Links \cup {NoLink}]
  BY <1>1 DEF ForgotUpsert, ReqOK, IInv, TypeOK
<1>3. CASE Goto(r, "mail")
  BY <1>1, <1>2, <1>3, GotoStep
<1>4. CASE Finish(r, 500)
  <2>1. req' \in [Reqs -> Request]
    BY <1>1, <1>4, FinishedIsRequest DEF Finish
  <2>2. TypeOK'
    BY <1>1, <1>2, <2>1 DEF IInv, TypeOK, RowOK, clientVars
  <2> QED
    BY <1>1, <1>4, <2>2, FinishStep, UnchangedSame
<1> QED
  BY <1>3, <1>4 DEF ForgotUpsert

LEMMA ForgotMailStep ==
  ASSUME IInv, NEW r \in Reqs, ForgotMail(r)
  PROVE  IInv'
<1>1. /\ req[r].op = "forgot" /\ ReqOK(r) /\ req \in [Reqs -> Request] /\ Finish(r, 200)
      /\ UNCHANGED <<users, refresh, lock, reset, owed, issued, spent, clientVars>>
  BY DEF ForgotMail, At, IInv, TypeOK
<1>2. mailed' \subseteq Links
  BY <1>1 DEF ForgotMail, ReqOK, IInv, TypeOK
<1>3. req' \in [Reqs -> Request]
  BY <1>1, FinishedIsRequest DEF Finish
<1>4. TypeOK'
  BY <1>1, <1>2, <1>3 DEF IInv, TypeOK, RowOK, clientVars
<1> QED
  BY <1>1, <1>4, FinishStep, UnchangedSame

LEMMA ConfirmIsRequest ==
  ASSUME NEW k \in Links \cup {NoLink}, NEW p \in Passwords
  PROVE  [[Idle EXCEPT !.link = k, !.pw = p] EXCEPT !.op = "confirm", !.pc = "setpw"] \in Request
  BY DEF Request, Idle, Ops, Pcs

LEMMA ConfirmStartStep ==
  ASSUME IInv, NEW r \in Reqs, ConfirmStart(r)
  PROVE  IInv'
<1>1. PICK k \in mailed \cup {NoLink}, p \in Passwords :
        Begin(r, "confirm", "setpw", [Idle EXCEPT !.link = k, !.pw = p])
  BY DEF ConfirmStart
<1> DEFINE q == [[Idle EXCEPT !.link = k, !.pw = p] EXCEPT !.op = "confirm", !.pc = "setpw"]
<1>2. req' = [req EXCEPT ![r] = q]
  BY <1>1, Zenon DEF Begin
<1>3. q \in Request
  BY ConfirmIsRequest DEF IInv, TypeOK
<1>4. q.op = "confirm" /\ q.pc = "setpw" /\ q.pw = p /\ q.fresh = NoToken
  BY DEF Idle
<1> HIDE DEF q
<1>5. UNCHANGED <<users, refresh, lock, resetVars, clientVars>>
  BY DEF ConfirmStart
<1>6. TypeOK'
  BY <1>2, <1>3, <1>5 DEF IInv, TypeOK, RowOK, resetVars, clientVars
<1>7. ReqOK(r)'
  BY <1>2, <1>3, <1>4 DEF ReqOK, At, IInv, TypeOK
<1> QED
  BY <1>2, <1>3, <1>4, <1>5, <1>6, <1>7, LocalStep, UnchangedSame

LEMMA ResetUnknownStep ==
  ASSUME IInv, NEW r \in Reqs, ResetUnknown(r)
  PROVE  IInv'
  BY FinishOnlyStep DEF ResetUnknown

LEMMA ResetUpdateStep ==
  ASSUME IInv, NEW r \in Reqs, ResetUpdate(r)
  PROVE  IInv'
<1>0. /\ req \in [Reqs -> Request] /\ ReqOK(r) /\ req[r].op = "confirm" /\ req[r].pc = "setpw"
      /\ req[r].pw \in Passwords /\ req[r].fresh \in Tokens \cup {NoToken}
  BY DEF IInv, TypeOK, ResetUpdate, At, ReqOK, Request
<1> DEFINE k == req[r].link
<1>1. PICK u \in Holders(k) :
        /\ \/ /\ UpdateUser(r, [req[r] EXCEPT !.pc = "unlink", !.user = u], u,
                            [users[u] EXCEPT !.pw = req[r].pw], TRUE)
              /\ refresh' = Doomed(u)
           \/ /\ "unsure" \in WriteOutcomes
              /\ UpdateUser(r, Finished(req[r], 500), u, [users[u] EXCEPT !.pw = req[r].pw], FALSE)
              /\ UNCHANGED refresh
        /\ \E n \in 1..2 : spent' = [spent EXCEPT ![k] = n]
        /\ owed' = [owed EXCEPT ![u] = IF @ = k THEN NoLink ELSE @]
  <2>1. (IF spent[k] = 1 THEN 1 ELSE 2) \in 1..2 /\ 1 \in 1..2
    OBVIOUS
  <2> QED
    BY <2>1 DEF ResetUpdate
<1>2. u \in Users
  BY DEF Holders
<1>3. PICK row \in UserRow : row = [users[u] EXCEPT !.pw = req[r].pw]
  <2>1. [users[u] EXCEPT !.pw = req[r].pw] \in UserRow
    BY <1>0, <1>2 DEF UserRow, IInv, TypeOK
  <2> QED
    BY <2>1
<1>4. UNCHANGED <<lock, reset, issued, mailed, clientVars>>
  BY DEF ResetUpdate
<1>5. spent' \in [Links -> 0..2] /\ owed' \in [Users -> Links \cup {NoLink}]
  <2>1. spent \in [Links -> 0..2] /\ owed \in [Users -> Links \cup {NoLink}]
    BY DEF IInv, TypeOK
  <2>2. PICK n \in 1..2 : spent' = [spent EXCEPT ![k] = n]
    BY <1>1
  <2>3. spent' \in [Links -> 0..2]
    <3>1. n \in 0..2
      BY <2>2
    <3> HIDE DEF k
    <3> QED
      BY <2>1, <2>2, <3>1
  <2>4. owed' \in [Users -> Links \cup {NoLink}]
    BY <1>1, <1>2, <2>1
  <2> QED
    BY <2>3, <2>4
<1>6. ASSUME NEW q \in Request, NEW ends \in BOOLEAN, UpdateUser(r, q, u, row, ends),
             q.op = "confirm", q.fresh = req[r].fresh, q.pw = req[r].pw,
             q.pc = "done" \/ (q.pc = "unlink" /\ q.user = u),
             refresh' = refresh \/ refresh' = Doomed(u)
      PROVE  IInv'
  <2>1. refresh' \in [Tokens -> Row] /\ (\A t \in Tokens : RowOK(t)') /\ SameRows
    <3>1. CASE refresh' = refresh
      BY <3>1, UnchangedSame DEF IInv, TypeOK, RowOK
    <3>2. CASE refresh' = Doomed(u)
      BY <1>2, <3>2, DoomedSame DEF IInv
    <3> QED
      BY <1>6, <3>1, <3>2
  <2>2. users' \in [Users -> UserRow] /\ req' \in [Reqs -> Request] /\ req'[r] = q
    BY <1>2, <1>6, UpdateUserStep
  <2>3. TypeOK'
    BY <1>4, <1>5, <2>1, <2>2 DEF IInv, TypeOK, clientVars
  <2>4. ReqOK(r)'
    BY <1>0, <1>2, <1>6, <2>1, <2>2 DEF ReqOK, At, SameRows
  <2> QED
    BY <1>2, <1>4, <1>6, <2>1, <2>3, <2>4, UserWriteStep
<1>7. ASSUME NEW ends \in BOOLEAN,
             UpdateUser(r, [req[r] EXCEPT !.pc = "unlink", !.user = u], u, row, ends),
             refresh' = Doomed(u)
      PROVE  IInv'
  <2> DEFINE x == [req[r] EXCEPT !.pc = "unlink"]
             q == [x EXCEPT !.user = u]
  <2>1. x \in Request
    BY <1>0, FieldIsRequest DEF Pcs
  <2>2. q.op = "confirm" /\ q.fresh = req[r].fresh /\ q.pw = req[r].pw /\ q.pc = "unlink" /\ q.user = u
    BY <1>0, <1>2 DEF Request
  <2>3. UpdateUser(r, q, u, row, ends)
    BY <1>7
  <2> HIDE DEF x
  <2>4. q \in Request
    BY <1>2, <2>1 DEF Request
  <2> QED
    BY <1>6, <1>7, <2>2, <2>3, <2>4
<1>8. ASSUME NEW ends \in BOOLEAN, UpdateUser(r, Finished(req[r], 500), u, row, ends), UNCHANGED refresh
      PROVE  IInv'
  <2> DEFINE q == Finished(req[r], 500)
  <2>1. q \in Request
    BY <1>0, FinishedIsRequest
  <2>2. q.op = "confirm" /\ q.fresh = req[r].fresh /\ q.pw = req[r].pw /\ q.pc = "done"
    BY <1>0 DEF Finished, Request
  <2> QED
    BY <1>6, <1>8, <2>1, <2>2
<1> QED
  BY <1>1, <1>3, <1>7, <1>8

LEMMA ResetUnlinkStep ==
  ASSUME IInv, NEW r \in Reqs, ResetUnlink(r)
  PROVE  IInv'
<1>0. req \in [Reqs -> Request] /\ ReqOK(r) /\ req[r].op = "confirm" /\ req[r].pc = "unlink"
  BY DEF IInv, TypeOK, ResetUnlink, At
<1> DEFINE q == [req[r] EXCEPT !.pc = "revoke"]
<1>1. q \in Request
  BY <1>0, FieldIsRequest DEF Pcs
<1>2. q.op = "confirm" /\ q.pc = "revoke" /\ q.user = req[r].user /\ q.fresh = req[r].fresh /\ q.pw = req[r].pw
  BY <1>0 DEF Request
<1>3. req' = [req EXCEPT ![r] = q]
  BY DEF ResetUnlink, AfterUnlink
<1> HIDE DEF q
<1>4. UNCHANGED <<users, refresh, lock, owed, issued, mailed, clientVars>>
  BY DEF ResetUnlink
<1>5. reset' \in [Users -> Links \cup {NoLink}] /\ spent' \in [Links -> 0..2]
  <2>1. spent \in [Links -> 0..2] /\ reset \in [Users -> Links \cup {NoLink}]
    BY DEF IInv, TypeOK
  <2>2. reset' \in [Users -> Links \cup {NoLink}]
    BY <2>1 DEF ResetUnlink, Unlinked
  <2>3. PICK k : spent' = spent \/ spent' = [spent EXCEPT ![k] = 2]
    BY DEF ResetUnlink
  <2>4. 2 \in 0..2
    OBVIOUS
  <2>5. spent' \in [Links -> 0..2]
    BY <2>1, <2>3, <2>4
  <2> QED
    BY <2>2, <2>5
<1>6. TypeOK'
  BY <1>0, <1>1, <1>3, <1>4, <1>5 DEF IInv, TypeOK, RowOK, clientVars
<1>7. ReqOK(r)'
  BY <1>0, <1>2, <1>3, <1>4 DEF ReqOK, At
<1> QED
  BY <1>1, <1>2, <1>3, <1>4, <1>6, <1>7, LocalStep, UnchangedSame

-----------------------------------------------------------------------------
(* Responses and the environment *)

LEMMA ReplyStep ==
  ASSUME IInv, NEW r \in Reqs, Reply(r)
  PROVE  IInv'
<1>0. req \in [Reqs -> Request] /\ ReqOK(r) /\ req[r].pc = "done" /\ req' = [req EXCEPT ![r] = Idle]
  BY DEF IInv, TypeOK, Reply
<1>1. UNCHANGED <<users, refresh, lock, resetVars>>
  BY DEF Reply
<1>2. known' \subseteq Tokens /\ access' \subseteq [user : Users, role : Roles]
  <2>1. CASE UNCHANGED clientVars
    BY <2>1 DEF clientVars, IInv, TypeOK
  <2>2. CASE /\ req[r].status = 200 /\ req[r].op \in {"login", "refresh"}
             /\ known' = known \cup {Returned(req[r])}
             /\ access' = access \cup {[user |-> req[r].user, role |-> req[r].copy.role]}
    <3>1. req[r].user \in Users /\ req[r].copy \in UserRow /\ req[r].fresh \in Tokens
      BY <1>0, <2>2 DEF ReqOK, At
    <3> QED
      BY <2>2, <3>1 DEF Returned, UserRow, IInv, TypeOK
  <2> QED
    BY <2>1, <2>2 DEF Reply
<1>3. TypeOK'
  BY <1>0, <1>1, <1>2, IdleIsRequest DEF IInv, TypeOK, RowOK, resetVars
<1>4. /\ Idle.op = "none" /\ Idle.pc = "idle" /\ Idle.fresh = NoToken
  BY DEF Idle
<1>5. ReqOK(r)'
  BY <1>0, <1>4 DEF ReqOK, At
<1> QED
  BY <1>0, <1>1, <1>3, <1>4, <1>5, IdleIsRequest, LocalStep, UnchangedSame

LEMMA ExpireStep ==
  ASSUME IInv, \/ \E t \in Tokens : ExpireRefresh(t)
               \/ \E a \in access : ExpireAccess(a)
               \/ \E u \in Users : ExpireReset(u)
  PROVE  IInv'
<1>1. ASSUME NEW t \in Tokens, ExpireRefresh(t) PROVE IInv'
  <2>0. refresh \in [Tokens -> Row] /\ \A x \in Tokens : RowOK(x)
    BY DEF IInv, TypeOK
  <2>1. refresh' = [refresh EXCEPT ![t] = [refresh[t] EXCEPT !.state = "expired"]] /\ refresh[t].state = "live"
    BY <1>1 DEF ExpireRefresh
  <2>2. [refresh[t] EXCEPT !.state = "expired"] \in Row
    BY <2>0 DEF Row
  <2>3. /\ [refresh[t] EXCEPT !.state = "expired"].root = refresh[t].root
        /\ [refresh[t] EXCEPT !.state = "expired"].user = refresh[t].user
        /\ [refresh[t] EXCEPT !.state = "expired"].state = "expired"
    BY <2>0 DEF Row
  <2>4. SameRows /\ refresh' \in [Tokens -> Row] /\ \A x \in Tokens : RowOK(x)'
    BY <2>0, <2>1, <2>2, <2>3 DEF SameRows, Unrevoked, RowOK
  <2>5. TypeOK'
    BY <1>1, <2>4 DEF IInv, TypeOK, ExpireRefresh, resetVars, clientVars
  <2> QED
    BY <1>1, <2>4, <2>5, SameRowsStep DEF ExpireRefresh
<1>2. ASSUME NEW a \in access, ExpireAccess(a) PROVE IInv'
  <2>1. TypeOK'
    BY <1>2 DEF IInv, TypeOK, RowOK, ExpireAccess, resetVars
  <2> QED
    BY <1>2, <2>1, SameRowsStep, UnchangedSame DEF ExpireAccess
<1>3. ASSUME NEW u \in Users, ExpireReset(u) PROVE IInv'
  <2>1. TypeOK'
    BY <1>3 DEF IInv, TypeOK, RowOK, ExpireReset, clientVars
  <2> QED
    BY <1>3, <2>1, SameRowsStep, UnchangedSame DEF ExpireReset
<1> QED
  BY <1>1, <1>2, <1>3

LEMMA CrashStep ==
  ASSUME IInv, Crash
  PROVE  IInv'
<1>1. /\ req' = [r \in Reqs |-> Idle] /\ lock' = [t \in Tokens |-> NoReq]
      /\ UNCHANGED <<users, reset, owed, issued, mailed, clientVars>> /\ refresh' = Escaped(Users)
      /\ spent' = [k \in Links |-> IF spent[k] = 0 THEN 0 ELSE 2]
  BY DEF Crash
<1>2. refresh' \in [Tokens -> Row] /\ (\A t \in Tokens : RowOK(t)') /\ SameRows
  BY <1>1, EscapedSame DEF IInv
<1>3. TypeOK'
  BY <1>1, <1>2, IdleIsRequest DEF IInv, TypeOK, clientVars
<1>4. ASSUME NEW r \in Reqs PROVE ReqOK(r)' /\ LockOK(r)'
  BY <1>1 DEF ReqOK, LockOK, At, Idle
<1>5. FreshApart'
  BY <1>1 DEF FreshApart, Idle
<1>6. RootOK' /\ OneLiveHead'
  BY <1>2 DEF IInv, RootOK, OneLiveHead, SameRows, TypeOK, RowOK
<1> QED
  BY <1>3, <1>4, <1>5, <1>6 DEF IInv

-----------------------------------------------------------------------------
LEMMA StutterStep ==
  ASSUME IInv, UNCHANGED vars
  PROVE  IInv'
<1>1. UNCHANGED <<users, refresh, lock, resetVars, clientVars, req>>
  BY DEF vars, resetVars, clientVars
<1>2. TypeOK'
  BY <1>1 DEF IInv, TypeOK, RowOK, resetVars, clientVars
<1> QED
  BY <1>1, <1>2, SameRowsStep, UnchangedSame

LEMMA NextIInv == IInv /\ [Next]_vars => IInv'
<1> SUFFICES ASSUME IInv, [Next]_vars PROVE IInv'
  OBVIOUS
<1>1. ASSUME NEW r \in Reqs, Start(r) PROVE IInv'
  BY <1>1, LoginStartStep, LogoutStartStep, ForgotStartStep, AdminStartStep, RefreshStartStep,
     ConfirmStartStep DEF Start
<1>2. ASSUME NEW r \in Reqs, Run(r) PROVE IInv'
  BY <1>2, LoginReadStep, LoginInsertStep, RefreshRotateStep, RefreshGetUserStep,
     RevokeSnapshotStep, BanUpdateStep, RoleUpdateStep, ForgotReadStep, ForgotUpsertStep,
     ForgotMailStep, ResetUnknownStep, ResetUpdateStep, ResetUnlinkStep, ReplyStep DEF Run
<1>3. ASSUME NEW r \in Reqs, Wait(r) PROVE IInv'
  BY <1>3, RefreshLookupStep, RevokeApplyStep DEF Wait
<1>4. CASE Environment
  BY <1>4, ExpireStep, CrashStep DEF Environment
<1>5. CASE UNCHANGED vars
  BY <1>5, StutterStep
<1> QED
  BY <1>1, <1>2, <1>3, <1>4, <1>5 DEF Next

LEMMA IInvHolds == Spec => []IInv
  BY InitIInv, NextIInv, PTL DEF Spec

\* The tables and the requests always hold what they can hold.
THEOREM TypeCorrect == Spec => []TypeOK
<1>1. IInv => TypeOK
  BY DEF IInv
<1> QED
  BY <1>1, IInvHolds, PTL

\* Rotation never forks a session, whatever crashes, fails or runs at the same
\* time: FOR UPDATE and the transaction of ValidateAndRotate are enough.
THEOREM RotationNeverForks == Spec => []OneLiveHead
<1>1. IInv => OneLiveHead
  BY DEF IInv
<1> QED
  BY <1>1, IInvHolds, PTL

-----------------------------------------------------------------------------
(***************************************************************************)
(* Sessions implements SessionFamilies.                                    *)
(*                                                                         *)
(* What the mapping needs beyond IInv: all rows of a family belong to the  *)
(* user who logged in (FamilyOK), rows that were never inserted belong to  *)
(* no family, and a revocation has only rows of its own user in its        *)
(* snapshot (SnapOK).                                                      *)
(***************************************************************************)
FamilyOK ==
  \A t \in Tokens :
    IF refresh[t].state = "absent" THEN refresh[t].root = NoToken
    ELSE /\ refresh[refresh[t].root].root = refresh[t].root
         /\ refresh[refresh[t].root].user = refresh[t].user

SnapOK == \A r \in Reqs : req[r].pc = "apply" => \A t \in req[r].snap : refresh[t].user = req[r].user

FInv == FamilyOK /\ SnapOK

LEMMA InitFInv == Init => FInv
  BY DEF Init, FInv, FamilyOK, SnapOK, AbsentRow, Idle

LEMMA InitFamilies == Init => Families!Init
  BY DEF Init, Families!Init, AbsentRow, Unrevoked

(***************************************************************************)
(* Most steps are invisible in SessionFamilies: they change neither which  *)
(* rows there are, nor whose, nor which of them are revoked.               *)
(***************************************************************************)
SameSnaps ==
  \A p \in Reqs : req'[p].pc = "apply" =>
    req[p].pc = "apply" /\ req'[p].snap = req[p].snap /\ req'[p].user = req[p].user

Invisible == SameSnaps /\ SameRows /\ \A t \in Tokens : refresh'[t].user = refresh[t].user

LEMMA InvisibleStep ==
  ASSUME IInv, FInv, Invisible
  PROVE  FInv' /\ UNCHANGED Families!vars
<1>1. \A t \in Tokens : /\ refresh'[t].state = "absent" <=> refresh[t].state = "absent"
                        /\ Unrevoked(t)' <=> Unrevoked(t)
                        /\ refresh'[t].root = refresh[t].root
                        /\ refresh'[t].user = refresh[t].user
  BY DEF Invisible, SameRows
<1>2. \A t \in Tokens : refresh[t].state # "absent" => refresh[t].root \in Tokens
  BY DEF IInv, TypeOK, RowOK
<1>3. FamilyOK'
  BY <1>1, <1>2 DEF FInv, FamilyOK
<1>4. \A p \in Reqs : req[p].pc = "apply" => req[p].snap \subseteq Tokens
  BY DEF IInv, TypeOK, Request
<1>5. SnapOK'
  BY <1>1, <1>4 DEF FInv, SnapOK, Invisible, SameSnaps
<1>6. UNCHANGED Families!vars
  BY <1>1 DEF Families!vars
<1> QED
  BY <1>3, <1>5, <1>6 DEF FInv

\* A request that is not about to revoke afterwards.
LEMMA OneRequest ==
  ASSUME IInv, NEW r \in Reqs, NEW q, req' = [req EXCEPT ![r] = q], q.pc # "apply"
  PROVE  SameSnaps
  BY DEF SameSnaps, IInv, TypeOK

LEMMA UnchangedRows ==
  ASSUME SameSnaps, UNCHANGED refresh
  PROVE  Invisible
  BY UnchangedSame DEF Invisible

LEMMA FateRows ==
  ASSUME IInv, SameSnaps, (\E u \in Users : refresh' = Doomed(u)) \/ (\E us : refresh' = Escaped(us))
  PROVE  Invisible
<1>1. refresh \in [Tokens -> Row]
  BY DEF IInv, TypeOK
<1>2. SameRows
  BY DoomedSame, EscapedSame DEF IInv
<1>3. \A t \in Tokens : refresh'[t].user = refresh[t].user
  BY <1>1 DEF Doomed, Escaped, Row
<1> QED
  BY <1>2, <1>3 DEF Invisible

LEMMA GotoSnaps ==
  ASSUME IInv, NEW r \in Reqs, NEW pc, Goto(r, pc), pc # "apply"
  PROVE  SameSnaps
<1>1. req \in [Reqs -> Request]
  BY DEF IInv, TypeOK
<1>2. [req[r] EXCEPT !.pc = pc].pc = pc
  BY <1>1 DEF Request
<1> QED
  BY <1>2, OneRequest DEF Goto

LEMMA FinishedPc ==
  ASSUME NEW x \in Request, NEW status
  PROVE  Finished(x, status).pc = "done"
  BY DEF Finished, Request

LEMMA FinishSnaps ==
  ASSUME IInv, NEW r \in Reqs, NEW status, Finish(r, status)
  PROVE  SameSnaps
<1>1. req \in [Reqs -> Request]
  BY DEF IInv, TypeOK
<1> QED
  BY <1>1, FinishedPc, OneRequest DEF Finish

LEMMA HistorySame ==
  ASSUME NEW x \in Request, NEW seen, NEW late
  PROVE  /\ [x EXCEPT !.seen = seen, !.late = late].pc = x.pc
         /\ [x EXCEPT !.seen = seen, !.late = late].snap = x.snap
         /\ [x EXCEPT !.seen = seen, !.late = late].user = x.user
  BY DEF Request

LEMMA UpdateUserSnaps ==
  ASSUME IInv, NEW r \in Reqs, NEW q, NEW u, NEW row, NEW ends,
         UpdateUser(r, q, u, row, ends), q.pc # "apply"
  PROVE  SameSnaps
<1>1. req \in [Reqs -> Request]
  BY DEF IInv, TypeOK
<1>2. ASSUME NEW p \in Reqs, p # r
      PROVE  req'[p].pc = req[p].pc /\ req'[p].snap = req[p].snap /\ req'[p].user = req[p].user
  <2>1. PICK seen, late : req'[p] = req[p] \/ req'[p] = [req[p] EXCEPT !.seen = seen, !.late = late]
    BY <1>2, Zenon DEF UpdateUser
  <2> DEFINE y == [req[p] EXCEPT !.seen = seen, !.late = late]
  <2>2. req[p] \in Request
    BY <1>1
  <2>3. y.pc = req[p].pc /\ y.snap = req[p].snap /\ y.user = req[p].user
    BY <2>2, HistorySame
  <2> QED
    BY <2>1, <2>3
<1>3. req'[r] = q
  BY DEF UpdateUser
<1> QED
  BY <1>2, <1>3 DEF SameSnaps

-----------------------------------------------------------------------------
(* Steps that are invisible *)

LEMMA StartInvisible ==
  ASSUME IInv, NEW r \in Reqs, Start(r)
  PROVE  Invisible
<1>1. ASSUME NEW u \in Users, LoginStart(r, u) PROVE Invisible
  <2>1. PICK p, f : Begin(r, "login", "read", [Idle EXCEPT !.user = u, !.pw = p, !.fresh = f, !.seen = {users[u]}])
    BY <1>1 DEF LoginStart
  <2>2. [[Idle EXCEPT !.user = u, !.pw = p, !.fresh = f, !.seen = {users[u]}]
           EXCEPT !.op = "login", !.pc = "read"].pc = "read"
    BY DEF Idle
  <2> QED
    BY <1>1, <2>1, <2>2, OneRequest, UnchangedRows DEF Begin, LoginStart
<1>2. ASSUME NEW u \in Users, LogoutStart(r, u) PROVE Invisible
  <2>1. [[Idle EXCEPT !.user = u] EXCEPT !.op = "logout", !.pc = "revoke"].pc = "revoke"
    BY DEF Idle
  <2> QED
    BY <1>2, <2>1, OneRequest, FateRows DEF Begin, LogoutStart
<1>3. ASSUME NEW u \in Users, ForgotStart(r, u) PROVE Invisible
  <2>1. PICK k : Begin(r, "forgot", "read", [Idle EXCEPT !.user = u, !.link = k])
    BY <1>3 DEF ForgotStart
  <2>2. [[Idle EXCEPT !.user = u, !.link = k] EXCEPT !.op = "forgot", !.pc = "read"].pc = "read"
    BY DEF Idle
  <2> QED
    BY <1>3, <2>1, <2>2, OneRequest, UnchangedRows DEF Begin, ForgotStart
<1>4. ASSUME NEW u \in Users, NEW op, AdminStart(r, op, u) PROVE Invisible
  <2>1. PICK role : Begin(r, op, "update", [Idle EXCEPT !.user = u, !.role = role])
    BY <1>4 DEF AdminStart
  <2>2. [[Idle EXCEPT !.user = u, !.role = role] EXCEPT !.op = op, !.pc = "update"].pc = "update"
    BY DEF Idle
  <2> QED
    BY <1>4, <2>1, <2>2, OneRequest, UnchangedRows DEF Begin, AdminStart
<1>5. ASSUME NEW t \in Tokens, RefreshStart(r, t) PROVE Invisible
  <2>1. PICK f : Begin(r, "refresh", "lookup", [Idle EXCEPT !.tok = t, !.fresh = f])
    BY <1>5 DEF RefreshStart
  <2>2. [[Idle EXCEPT !.tok = t, !.fresh = f] EXCEPT !.op = "refresh", !.pc = "lookup"].pc = "lookup"
    BY DEF Idle
  <2> QED
    BY <1>5, <2>1, <2>2, OneRequest, UnchangedRows DEF Begin, RefreshStart
<1>6. ASSUME ConfirmStart(r) PROVE Invisible
  <2>1. PICK k, p : Begin(r, "confirm", "setpw", [Idle EXCEPT !.link = k, !.pw = p])
    BY <1>6 DEF ConfirmStart
  <2>2. [[Idle EXCEPT !.link = k, !.pw = p] EXCEPT !.op = "confirm", !.pc = "setpw"].pc = "setpw"
    BY DEF Idle
  <2> QED
    BY <1>6, <2>1, <2>2, OneRequest, UnchangedRows DEF Begin, ConfirmStart
<1> QED
  BY <1>1, <1>2, <1>3, <1>4, <1>5, <1>6 DEF Start

LEMMA LoginReadInvisible ==
  ASSUME IInv, NEW r \in Reqs, LoginRead(r)
  PROVE  Invisible
<1>1. req[r] \in Request
  BY DEF IInv, TypeOK
<1> DEFINE q == [req[r] EXCEPT !.pc = "insert", !.copy = users[req[r].user]]
<1>2. q.pc = "insert"
  BY <1>1 DEF Request
<1>3. req' = [req EXCEPT ![r] = q] \/ \E status : Finish(r, status)
  BY DEF LoginRead
<1> HIDE DEF q
<1>4. SameSnaps
  BY <1>2, <1>3, OneRequest, FinishSnaps
<1> QED
  BY <1>4, UnchangedRows DEF LoginRead

LEMMA LookupInvisible ==
  ASSUME IInv, NEW r \in Reqs, RefreshLookup(r)
  PROVE  Invisible
<1>1. req[r] \in Request
  BY DEF IInv, TypeOK
<1>2. \A u, seen : [req[r] EXCEPT !.pc = "rotate", !.user = u, !.seen = seen].pc = "rotate"
  BY <1>1 DEF Request
<1>3. SameSnaps
  BY <1>2, OneRequest, FinishSnaps DEF RefreshLookup
<1> QED
  BY <1>3, UnchangedRows DEF RefreshLookup

LEMMA GetUserInvisible ==
  ASSUME IInv, NEW r \in Reqs, RefreshGetUser(r)
  PROVE  Invisible
<1>1. req[r] \in Request
  BY DEF IInv, TypeOK
<1>2. ASSUME NEW row PROVE Finished([req[r] EXCEPT !.copy = row], 200).pc = "done"
  BY <1>1 DEF Finished, Request
<1>3. SameSnaps
  BY <1>2, OneRequest, FinishSnaps DEF RefreshGetUser
<1> QED
  BY <1>3, UnchangedRows DEF RefreshGetUser

LEMMA AccountInvisible ==
  ASSUME IInv, NEW r \in Reqs, BanUpdate(r) \/ RoleUpdate(r)
  PROVE  Invisible
<1>1. req[r] \in Request /\ req[r].op \in {"ban", "unban", "role"} /\ ReqOK(r)
  BY DEF IInv, TypeOK, BanUpdate, RoleUpdate, At
<1>2. req[r].user \in Users
  BY <1>1 DEF ReqOK
<1>3. \A status : Finished(req[r], status).pc = "done"
  BY <1>1, FinishedPc
<1>4. AfterBan(req[r]).pc \in {"revoke", "done"}
  BY <1>1 DEF AfterBan, Finished, Request
<1>5. SameSnaps
  <2>1. CASE BanUpdate(r)
    <3>1. \/ \E u, row, ends : UpdateUser(r, AfterBan(req[r]), u, row, ends)
          \/ \E u, row, ends : UpdateUser(r, Finished(req[r], 500), u, row, ends)
          \/ Finish(r, 500)
      BY <2>1, Zenon DEF BanUpdate
    <3> QED
      BY <1>3, <1>4, <3>1, UpdateUserSnaps, FinishSnaps
  <2>2. CASE RoleUpdate(r)
    <3>1. \/ \E status, u, row, ends : UpdateUser(r, Finished(req[r], status), u, row, ends)
          \/ Finish(r, 500)
      BY <2>2, Zenon DEF RoleUpdate
    <3> QED
      BY <1>3, <3>1, UpdateUserSnaps, FinishSnaps
  <2> QED
    BY <2>1, <2>2
<1>6. UNCHANGED refresh \/ refresh' = Doomed(req[r].user)
  BY DEF BanUpdate, RoleUpdate
<1> QED
  BY <1>2, <1>5, <1>6, UnchangedRows, FateRows

LEMMA MailInvisible ==
  ASSUME IInv, NEW r \in Reqs, ForgotRead(r) \/ ForgotUpsert(r) \/ ForgotMail(r)
  PROVE  Invisible
<1>1. SameSnaps
  BY GotoSnaps, FinishSnaps DEF ForgotRead, ForgotUpsert, ForgotMail
<1>2. UNCHANGED refresh
  BY DEF ForgotRead, ForgotUpsert, ForgotMail
<1> QED
  BY <1>1, <1>2, UnchangedRows

LEMMA ResetInvisible ==
  ASSUME IInv, NEW r \in Reqs, ResetUnknown(r) \/ ResetUpdate(r) \/ ResetUnlink(r)
  PROVE  Invisible
<1>1. req[r] \in Request
  BY DEF IInv, TypeOK
<1>2. CASE ResetUnknown(r)
  BY <1>2, FinishSnaps, UnchangedRows DEF ResetUnknown
<1>3. CASE ResetUpdate(r)
  <2>1. PICK u \in Users :
          \/ /\ UpdateUser(r, [req[r] EXCEPT !.pc = "unlink", !.user = u], u,
                           [users[u] EXCEPT !.pw = req[r].pw], TRUE)
             /\ refresh' = Doomed(u)
          \/ /\ UpdateUser(r, Finished(req[r], 500), u, [users[u] EXCEPT !.pw = req[r].pw], FALSE)
             /\ UNCHANGED refresh
    BY <1>3 DEF ResetUpdate, Holders
  <2>2. [req[r] EXCEPT !.pc = "unlink", !.user = u].pc = "unlink" /\ Finished(req[r], 500).pc = "done"
    BY <1>1 DEF Finished, Request
  <2>3. SameSnaps
    BY <2>1, <2>2, UpdateUserSnaps
  <2> QED
    BY <2>1, <2>3, UnchangedRows, FateRows
<1>4. CASE ResetUnlink(r)
  <2>1. [req[r] EXCEPT !.pc = "revoke"].pc = "revoke"
    BY <1>1 DEF Request
  <2>2. req' = [req EXCEPT ![r] = [req[r] EXCEPT !.pc = "revoke"]]
    BY <1>4 DEF ResetUnlink, AfterUnlink
  <2> QED
    BY <1>4, <2>1, <2>2, OneRequest, UnchangedRows DEF ResetUnlink
<1> QED
  BY <1>2, <1>3, <1>4

LEMMA ReplyInvisible ==
  ASSUME IInv, NEW r \in Reqs, Reply(r)
  PROVE  Invisible
<1>1. Idle.pc = "idle"
  BY DEF Idle
<1> QED
  BY <1>1, OneRequest, UnchangedRows DEF Reply

LEMMA EnvironmentInvisible ==
  ASSUME IInv, Environment
  PROVE  Invisible
<1>1. ASSUME NEW t \in Tokens, ExpireRefresh(t) PROVE Invisible
  <2>1. refresh \in [Tokens -> Row] /\ refresh[t].state = "live"
        /\ refresh' = [refresh EXCEPT ![t] = [refresh[t] EXCEPT !.state = "expired"]]
    BY <1>1 DEF IInv, TypeOK, ExpireRefresh
  <2>2. /\ [refresh[t] EXCEPT !.state = "expired"].root = refresh[t].root
        /\ [refresh[t] EXCEPT !.state = "expired"].user = refresh[t].user
        /\ [refresh[t] EXCEPT !.state = "expired"].state = "expired"
    BY <2>1 DEF Row
  <2>3. SameRows /\ \A x \in Tokens : refresh'[x].user = refresh[x].user
    BY <2>1, <2>2 DEF SameRows, Unrevoked
  <2> QED
    BY <1>1, <2>3 DEF Invisible, SameSnaps, ExpireRefresh
<1>2. ASSUME (\E a \in access : ExpireAccess(a)) \/ \E u \in Users : ExpireReset(u) PROVE Invisible
  <2>1. UNCHANGED <<refresh, req>>
    BY <1>2 DEF ExpireAccess, ExpireReset
  <2> QED
    BY <2>1, UnchangedRows DEF SameSnaps
<1>3. CASE Crash
  <2>1. SameSnaps
    BY <1>3 DEF Crash, SameSnaps, Idle
  <2> QED
    BY <1>3, <2>1, FateRows DEF Crash
<1> QED
  BY <1>1, <1>2, <1>3 DEF Environment
-----------------------------------------------------------------------------
(* Steps that found, renew and end families *)

\* Rows that stay as they are keep what FInv says of them.
LEMMA SnapStep ==
  ASSUME IInv, FInv, SameSnaps,
         \A t \in Tokens : refresh[t].state # "absent" => refresh'[t].user = refresh[t].user
  PROVE  SnapOK'
<1>1. \A p \in Reqs : req[p].pc = "apply" => \A t \in req[p].snap : t \in Tokens /\ refresh[t].state # "absent"
  BY DEF IInv, TypeOK, Request, ReqOK
<1> QED
  BY <1>1 DEF FInv, SnapOK, SameSnaps

\* RefreshTokenRepo.Create founds a family, unless the INSERT fails.
LEMMA InsertFounds ==
  ASSUME IInv, FInv, NEW r \in Reqs, LoginInsert(r)
  PROVE  FInv' /\ [Families!Next]_Families!vars
<1>0. /\ refresh \in [Tokens -> Row] /\ ReqOK(r) /\ req[r].op = "login" /\ req[r].pc = "insert"
  BY DEF IInv, TypeOK, LoginInsert, At
<1>1. PICK f \in Tokens, u \in Users :
        f = req[r].fresh /\ u = req[r].user /\ f # NoToken /\ refresh[f].state = "absent"
  BY <1>0 DEF ReqOK
<1>2. SameSnaps
  BY FinishSnaps DEF LoginInsert
<1>3. CASE UNCHANGED refresh
  BY <1>2, <1>3, UnchangedRows, InvisibleStep
<1>4. CASE refresh' # refresh
  <2>1. PICK new \in Row : /\ new.state = "live" /\ new.root = f /\ new.user = u
                           /\ refresh' = [refresh EXCEPT ![f] = new]
    <3>1. PICK s \in Salts :
            refresh' = [refresh EXCEPT ![f] =
              [state |-> "live", user |-> u, salt |-> s, root |-> f,
               fate |-> IF req[r].late THEN "escaped" ELSE "fine"]]
      BY <1>1, <1>4 DEF LoginInsert
    <3> DEFINE new == [state |-> "live", user |-> u, salt |-> s, root |-> f,
                       fate |-> IF req[r].late THEN "escaped" ELSE "fine"]
    <3>2. new \in Row /\ new.state = "live" /\ new.root = f /\ new.user = u
      BY <1>1 DEF Row
    <3> QED
      BY <3>1, <3>2
  <2>2. \A t \in Tokens : refresh'[t] = IF t = f THEN new ELSE refresh[t]
    BY <1>0, <2>1
  <2>3. \A t \in Tokens : refresh[t].state # "absent" =>
          refresh[t].root \in Tokens /\ refresh[refresh[t].root].state # "absent"
    BY DEF IInv, TypeOK, RowOK, RootOK
  <2>4. FamilyOK'
    BY <1>1, <2>1, <2>2, <2>3 DEF FInv, FamilyOK
  <2>5. SnapOK'
    BY <1>1, <1>2, <2>2, SnapStep
  <2>6. Families!Found(u, f)
    <3>1. {t \in Tokens : refresh'[t].state # "absent"} = {t \in Tokens : refresh[t].state # "absent"} \cup {f}
      BY <1>1, <2>1, <2>2
    <3>2. ASSUME NEW g \in Tokens
          PROVE  {t \in Tokens : Unrevoked(t)' /\ refresh'[t].root = g} =
                 IF g = f THEN {f} ELSE {t \in Tokens : Unrevoked(t) /\ refresh[t].root = g}
      BY <1>1, <2>1, <2>2, <2>3 DEF Unrevoked
    <3>3. ASSUME NEW g \in Tokens
          PROVE  (IF refresh'[g].root = g THEN refresh'[g].user ELSE NoUser) =
                 IF g = f THEN u ELSE IF refresh[g].root = g THEN refresh[g].user ELSE NoUser
      BY <2>1, <2>2
    <3> QED
      BY <1>1, <3>1, <3>2, <3>3 DEF Families!Found
  <2>7. Families!Next
    BY <1>1, <2>6 DEF Families!Next
  <2> QED
    BY <2>4, <2>5, <2>7 DEF FInv
<1> QED
  BY <1>3, <1>4

\* The commit of ValidateAndRotate renews the family of its token.
LEMMA RotateRenews ==
  ASSUME IInv, FInv, NEW r \in Reqs, RefreshRotate(r)
  PROVE  FInv' /\ [Families!Next]_Families!vars
<1>0. /\ refresh \in [Tokens -> Row] /\ ReqOK(r) /\ LockOK(r) /\ req[r].op = "refresh" /\ req[r].pc = "rotate"
  BY DEF IInv, TypeOK, RefreshRotate, At
<1>1. PICK t \in Tokens, f \in Tokens, root \in Tokens :
        /\ t = req[r].tok /\ f = req[r].fresh /\ root = refresh[t].root
        /\ f # NoToken /\ t # f /\ refresh[f].state = "absent" /\ Unrevoked(t)
        /\ refresh[root].state # "absent" /\ root # f
  BY <1>0 DEF ReqOK, LockOK, Unrevoked, IInv, TypeOK, RowOK, RootOK
<1>2. SameSnaps
  BY GotoSnaps, FinishSnaps DEF RefreshRotate
<1>3. CASE UNCHANGED refresh
  BY <1>2, <1>3, UnchangedRows, InvisibleStep
<1>4. CASE refresh' # refresh
  <2>1. PICK new \in Row, old \in Row :
          /\ new.state = "live" /\ new.root = root /\ new.user = refresh[t].user
          /\ old.state = "revoked" /\ old.root = root /\ old.user = refresh[t].user
          /\ refresh' = [refresh EXCEPT ![t] = old, ![f] = new]
    <3>1. PICK s \in Salts : refresh' = Rotated(t, f, s)
      BY <1>1, <1>4 DEF RefreshRotate
    <3> DEFINE new == [state |-> "live", user |-> refresh[t].user, salt |-> s, root |-> refresh[t].root,
                       fate |-> IF refresh[t].fate = "fine" THEN "fine" ELSE "escaped"]
               old == [refresh[t] EXCEPT !.state = "revoked"]
    <3>2. /\ new \in Row /\ old \in Row
          /\ new.state = "live" /\ new.root = root /\ new.user = refresh[t].user
          /\ old.state = "revoked" /\ old.root = root /\ old.user = refresh[t].user
      BY <1>0, <1>1 DEF Row
    <3>3. refresh' = [refresh EXCEPT ![t] = old, ![f] = new]
      BY <3>1, Zenon DEF Rotated
    <3> QED
      BY <3>2, <3>3
  <2>2. refresh'[f] = new /\ refresh'[t] = old /\ \A x \in Tokens : x # f /\ x # t => refresh'[x] = refresh[x]
    BY <1>0, <1>1, <2>1
  <2>3. \A x \in Tokens : refresh[x].state # "absent" =>
          refresh[x].root \in Tokens /\ refresh[refresh[x].root].state # "absent"
    BY DEF IInv, TypeOK, RowOK, RootOK
  <2>31. refresh[root].root = root /\ refresh[root].user = refresh[t].user /\ refresh[t].state # "absent"
    BY <1>1 DEF FInv, FamilyOK, Unrevoked
  <2>32. \A x \in Tokens : refresh[x].state # "absent" =>
           refresh'[x].root = refresh[x].root /\ refresh'[x].user = refresh[x].user
    BY <1>1, <2>1, <2>2
  <2>33. refresh'[root].root = root /\ refresh'[root].user = refresh[t].user
    BY <1>1, <2>31, <2>32
  <2>34. /\ refresh'[f].root = root /\ refresh'[f].user = refresh[t].user /\ refresh'[f].state # "absent"
         /\ refresh'[t].root = root /\ refresh'[t].user = refresh[t].user /\ refresh'[t].state # "absent"
    BY <2>1, <2>2
  <2>4. ASSUME NEW x \in Tokens
        PROVE  IF refresh'[x].state = "absent" THEN refresh'[x].root = NoToken
               ELSE /\ refresh'[refresh'[x].root].root = refresh'[x].root
                    /\ refresh'[refresh'[x].root].user = refresh'[x].user
    <3>1. CASE x = f
      BY <2>33, <2>34, <3>1
    <3>2. CASE x = t
      BY <2>33, <2>34, <3>2
    <3>3. CASE x # f /\ x # t /\ refresh[x].state # "absent"
      BY <2>2, <2>3, <2>32, <3>3 DEF FInv, FamilyOK
    <3>4. CASE x # f /\ x # t /\ refresh[x].state = "absent"
      BY <2>2, <3>4 DEF FInv, FamilyOK
    <3> QED
      BY <3>1, <3>2, <3>3, <3>4
  <2>5. SnapOK'
    BY <1>1, <1>2, <2>1, <2>2, SnapStep DEF Unrevoked
  <2>6. Families!Renew(root, f)
    <3>0. \A x \in Tokens : Unrevoked(x) /\ refresh[x].root = root => x = t
      BY <1>1 DEF IInv, OneLiveHead
    <3>1. {x \in Tokens : refresh'[x].state # "absent"} = {x \in Tokens : refresh[x].state # "absent"} \cup {f}
      BY <1>1, <2>1, <2>2 DEF Unrevoked
    <3>2. ASSUME NEW g \in Tokens
          PROVE  {x \in Tokens : Unrevoked(x)' /\ refresh'[x].root = g} =
                 IF g = root THEN {f} ELSE {x \in Tokens : Unrevoked(x) /\ refresh[x].root = g}
      <4>1. ASSUME NEW x \in Tokens
            PROVE  (Unrevoked(x)' /\ refresh'[x].root = g) <=>
                   IF g = root THEN x = f ELSE Unrevoked(x) /\ refresh[x].root = g
        <5>1. CASE x = f
          BY <1>1, <2>1, <2>2, <5>1 DEF Unrevoked
        <5>2. CASE x = t
          BY <1>1, <2>1, <2>2, <5>2 DEF Unrevoked
        <5>3. CASE x # f /\ x # t
          BY <2>2, <3>0, <5>3 DEF Unrevoked
        <5> QED
          BY <5>1, <5>2, <5>3
      <4> QED
        BY <1>1, <4>1
    <3>3. ASSUME NEW g \in Tokens
          PROVE  (IF refresh'[g].root = g THEN refresh'[g].user ELSE NoUser) =
                 IF refresh[g].root = g THEN refresh[g].user ELSE NoUser
      <4>1. CASE g = f
        BY <1>1, <2>1, <2>2, <4>1 DEF FInv, FamilyOK
      <4>2. CASE g = t
        BY <1>1, <2>34, <4>2
      <4>3. CASE g # f /\ g # t
        BY <2>2, <4>3
      <4> QED
        BY <4>1, <4>2, <4>3
    <3>4. t \in {x \in Tokens : Unrevoked(x) /\ refresh[x].root = root}
      BY <1>1
    <3> QED
      BY <1>1, <3>1, <3>2, <3>3, <3>4 DEF Families!Renew
  <2>7. Families!Next
    BY <1>1, <2>6 DEF Families!Next
  <2>8. FInv'
    BY <2>4, <2>5 DEF FInv, FamilyOK
  <2> QED
    BY <2>7, <2>8
<1> QED
  BY <1>3, <1>4
\* The snapshot of RevokeUserTokens has rows of its user only.
LEMMA SnapshotInvisible ==
  ASSUME IInv, FInv, NEW r \in Reqs, RevokeSnapshot(r)
  PROVE  FInv' /\ [Families!Next]_Families!vars
<1>1. req \in [Reqs -> Request] /\ ReqOK(r) /\ req[r].pc = "revoke" /\ req[r].user \in Users
  BY DEF IInv, TypeOK, RevokeSnapshot, At, ReqOK
<1>2. CASE /\ req' = [req EXCEPT ![r] = [@ EXCEPT !.pc = "apply", !.snap = RowsOf(req[r].user)]]
           /\ UNCHANGED refresh
  <2>1. PICK rows \in SUBSET Tokens : rows = RowsOf(req[r].user)
    BY DEF RowsOf
  <2> DEFINE q == [req[r] EXCEPT !.pc = "apply", !.snap = rows]
  <2>2. q.snap = rows /\ q.user = req[r].user
    BY <1>1 DEF Request
  <2>3. req' = [req EXCEPT ![r] = q]
    BY <1>2, <2>1
  <2> HIDE DEF q
  <2>4. SnapOK'
    <3>1. \A x \in rows : refresh[x].user = req[r].user
      BY <2>1 DEF RowsOf
    <3>2. req'[r] = q /\ \A p \in Reqs : p # r => req'[p] = req[p]
      BY <1>1, <2>3
    <3> QED
      BY <1>2, <2>2, <3>1, <3>2 DEF FInv, SnapOK
  <2>5. FamilyOK'
    BY <1>2 DEF FInv, FamilyOK
  <2>6. UNCHANGED Families!vars
    BY <1>2 DEF Families!vars, Unrevoked
  <2> QED
    BY <2>4, <2>5, <2>6 DEF FInv
<1>3. CASE refresh' = Escaped({req[r].user}) /\ Finish(r, 200)
  BY <1>3, FinishSnaps, FateRows, InvisibleStep
<1> QED
  BY <1>2, <1>3 DEF RevokeSnapshot

\* RevokeUserTokens ends the families that have a row in its snapshot, unless it
\* fails.
LEMMA ApplyEnds ==
  ASSUME IInv, FInv, NEW r \in Reqs, RevokeApply(r)
  PROVE  FInv' /\ [Families!Next]_Families!vars
<1>0. /\ refresh \in [Tokens -> Row] /\ req[r] \in Request /\ ReqOK(r) /\ req[r].pc = "apply"
  BY DEF IInv, TypeOK, RevokeApply, At
<1>1. PICK snap \in SUBSET Tokens, u \in Users : snap = req[r].snap /\ u = req[r].user
  BY <1>0 DEF Request, ReqOK
<1>2. SameSnaps
  BY FinishSnaps DEF RevokeApply
<1>3. CASE refresh' = Escaped({req[r].user})
  BY <1>2, <1>3, FateRows, InvisibleStep
<1>4. CASE refresh' = [t \in Tokens |-> IF t \in req[r].snap
                                        THEN [refresh[t] EXCEPT !.state = "revoked"]
                                        ELSE refresh[t]]
  <2>1. \A t \in snap : refresh[t].state # "absent" /\ refresh[t].user = u
    BY <1>0, <1>1 DEF ReqOK, FInv, SnapOK
  <2>2. \A t \in Tokens : /\ refresh'[t].root = refresh[t].root /\ refresh'[t].user = refresh[t].user
                          /\ refresh'[t].state = IF t \in snap THEN "revoked" ELSE refresh[t].state
    <3>1. \A x \in Row : /\ [x EXCEPT !.state = "revoked"].root = x.root
                         /\ [x EXCEPT !.state = "revoked"].user = x.user
                         /\ [x EXCEPT !.state = "revoked"].state = "revoked"
      BY DEF Row
    <3> QED
      BY <1>0, <1>1, <1>4, <3>1
  <2>3. \A t \in Tokens : refresh'[t].state = "absent" <=> refresh[t].state = "absent"
    BY <2>1, <2>2
  <2>4. \A t \in Tokens : refresh[t].state # "absent" => refresh[t].root \in Tokens
    BY DEF IInv, TypeOK, RowOK
  <2>5. FamilyOK'
    BY <2>2, <2>3, <2>4 DEF FInv, FamilyOK
  <2>6. SnapOK'
    BY <1>2, <2>2, SnapStep
  <2> DEFINE ended == {g \in Tokens : \E t \in snap : Unrevoked(t) /\ refresh[t].root = g}
  <2>7. PICK families \in SUBSET Tokens : families = ended
    OBVIOUS
  <2>8. ASSUME NEW g \in Tokens
        PROVE  {t \in Tokens : Unrevoked(t)' /\ refresh'[t].root = g} =
               IF g \in families THEN {} ELSE {t \in Tokens : Unrevoked(t) /\ refresh[t].root = g}
    <3>1. CASE g \in families
      <4>1. PICK x \in snap : Unrevoked(x) /\ refresh[x].root = g
        BY <2>7, <3>1
      <4>2. \A t \in Tokens : Unrevoked(t) /\ refresh[t].root = g => t = x
        BY <4>1 DEF IInv, OneLiveHead
      <4>3. \A t \in Tokens : ~(Unrevoked(t)' /\ refresh'[t].root = g)
        BY <2>2, <4>1, <4>2 DEF Unrevoked
      <4> QED
        BY <3>1, <4>3
    <3>2. CASE g \notin families
      <4>1. \A t \in snap : ~(Unrevoked(t) /\ refresh[t].root = g)
        BY <2>7, <3>2
      <4>2. \A t \in Tokens : (Unrevoked(t)' /\ refresh'[t].root = g) <=> (Unrevoked(t) /\ refresh[t].root = g)
        BY <2>2, <4>1 DEF Unrevoked
      <4> QED
        BY <3>2, <4>2
    <3> QED
      BY <3>1, <3>2
  <2>9. ASSUME NEW g \in families
        PROVE  (IF refresh[g].root = g THEN refresh[g].user ELSE NoUser) = u
    <3>1. PICK x \in snap : Unrevoked(x) /\ refresh[x].root = g
      BY <2>7
    <3> QED
      BY <2>1, <3>1 DEF FInv, FamilyOK, Unrevoked
  <2>10. Families!End(u, families)
    <3>1. {t \in Tokens : refresh'[t].state # "absent"} = {t \in Tokens : refresh[t].state # "absent"}
      BY <2>3
    <3>2. \A g \in Tokens : (IF refresh'[g].root = g THEN refresh'[g].user ELSE NoUser) =
                            (IF refresh[g].root = g THEN refresh[g].user ELSE NoUser)
      BY <2>2
    <3> HIDE DEF ended
    <3> QED
      BY <2>8, <2>9, <3>1, <3>2 DEF Families!End
  <2>11. Families!Next
    BY <2>10 DEF Families!Next
  <2> QED
    BY <2>5, <2>6, <2>11 DEF FInv
<1> QED
  BY <1>3, <1>4 DEF RevokeApply

-----------------------------------------------------------------------------
LEMMA NextFamilies ==
  ASSUME IInv, FInv, [Next]_vars
  PROVE  FInv' /\ [Families!Next]_Families!vars
<1>1. ASSUME NEW r \in Reqs, Start(r) \/ Run(r) \/ Wait(r)
      PROVE  FInv' /\ [Families!Next]_Families!vars
  <2>1. CASE LoginInsert(r)
    BY <2>1, InsertFounds
  <2>2. CASE RefreshRotate(r)
    BY <2>2, RotateRenews
  <2>3. CASE RevokeSnapshot(r)
    BY <2>3, SnapshotInvisible
  <2>4. CASE RevokeApply(r)
    BY <2>4, ApplyEnds
  <2>5. CASE ~(LoginInsert(r) \/ RefreshRotate(r) \/ RevokeSnapshot(r) \/ RevokeApply(r))
    <3>1. Invisible
      BY <1>1, <2>5, StartInvisible, LoginReadInvisible, LookupInvisible, GetUserInvisible,
         AccountInvisible, MailInvisible, ResetInvisible, ReplyInvisible DEF Run, Wait
    <3> QED
      BY <3>1, InvisibleStep
  <2> QED
    BY <2>1, <2>2, <2>3, <2>4, <2>5
<1>2. CASE Environment
  BY <1>2, EnvironmentInvisible, InvisibleStep
<1>3. CASE UNCHANGED vars
  <2>1. UNCHANGED <<refresh, req>>
    BY <1>3 DEF vars
  <2> QED
    BY <2>1, UnchangedRows, InvisibleStep DEF SameSnaps
<1> QED
  BY <1>1, <1>2, <1>3 DEF Next

\* Whatever fails, crashes or runs at the same time, the statements of the
\* handlers do what SessionFamilies says: a login founds a family, a refresh
\* renews one that is not over, logout, ban and reset end families of their user.
THEOREM SessionsImplementFamilies == Spec => ImplementsFamilies
<1>1. Spec => []FInv
  BY InitFInv, NextFamilies, IInvHolds, PTL DEF Spec
<1> QED
  BY <1>1, InitFamilies, NextFamilies, IInvHolds, PTL DEF Spec, ImplementsFamilies, Families!Spec
=============================================================================
