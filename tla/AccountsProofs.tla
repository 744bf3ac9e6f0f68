---------------------------- MODULE AccountsProofs ----------------------------
(***************************************************************************)
(* The invariants of Accounts, for any addresses, links, requests and      *)
(* faults, and that it implements Registration.                            *)
(***************************************************************************)
EXTENDS Accounts, TLAPS

USE AccountsAssumption

-----------------------------------------------------------------------------
(***************************************************************************)
(* The inductive invariant.  A link is made for one address: whatever      *)
(* carries it - a mailbox, a row, a handler on its way - is about that     *)
(* address (OneOwner), and it is mailed once, by the handler that made it  *)
(* (PendingFresh).  So a click is about the address whose mailbox it came  *)
(* from (FollowedOK), and the link it removes is no longer awaited by      *)
(* anybody (SpentNotOwed).                                                 *)
(***************************************************************************)
Making == {"signup", "resend"}
Pending(r) == req[r].op \in Making /\ req[r].pc # "done"
CarriedBy(k, e) == \/ k \in inbox[e]
                   \/ verify[e] = k
                   \/ \E r \in Reqs : req[r].email = e /\ req[r].link = k

RequestOK(r) ==
  /\ IF req[r].op \in Making THEN req[r].email \in Emails /\ req[r].link \in Links
     ELSE req[r].email = NoEmail
  /\ req[r].op = "signup" => req[r].pw \in Passwords
  /\ Pending(r) /\ req[r].pc \in {"upsert", "mail"} => Exists(req[r].email)
  /\ req[r].op = "signup" /\ req[r].pc \in {"upsert", "mail"} => password[req[r].email] = req[r].pw

ReqsOK == \A r \in Reqs : RequestOK(r)

OneOwner ==
  \A k \in Links : \A e \in Emails : CarriedBy(k, e) =>
    /\ k \in issued
    /\ \A f \in Emails : CarriedBy(k, f) => f = e

PendingFresh ==
  \A r \in Reqs : Pending(r) =>
    /\ \A e \in Emails : req[r].link \notin inbox[e]
    /\ \A p \in Reqs : Pending(p) /\ req[p].link = req[r].link => p = r

FollowedOK ==
  \A r \in Reqs : req[r].op = "verify" /\ req[r].link # NoLink =>
    \E e \in followed : req[r].link \in inbox[e]

SpentNotOwed ==
  \A r \in Reqs : req[r].op = "verify" /\ req[r].pc = "unlink" =>
    req[r].link # NoLink /\ \A e \in Emails : owed[e] # req[r].link

AInv == /\ TypeOK /\ ReqsOK /\ OneOwner /\ PendingFresh /\ FollowedOK /\ SpentNotOwed
        /\ WinnerKeepsPassword /\ VerifiedThroughMail /\ NewestLinkWorks

LEMMA InitAInv == Init => AInv
<1> SUFFICES ASSUME Init PROVE AInv
  OBVIOUS
<1>1. TypeOK
  BY DEF Init, TypeOK, Idle, Request, Exists
<1>2. ReqsOK /\ PendingFresh /\ FollowedOK /\ SpentNotOwed
  BY DEF Init, ReqsOK, RequestOK, PendingFresh, FollowedOK, SpentNotOwed, Pending, Making, Idle
<1>3. OneOwner
  BY DEF Init, OneOwner, CarriedBy, Idle
<1>4. WinnerKeepsPassword /\ VerifiedThroughMail /\ NewestLinkWorks
  BY DEF Init, WinnerKeepsPassword, VerifiedThroughMail, NewestLinkWorks
<1> QED
  BY <1>1, <1>2, <1>3, <1>4 DEF AInv

-----------------------------------------------------------------------------
(***************************************************************************)
(* A step of a handler changes its program counter and its status, and     *)
(* nothing of what it is about.                                            *)
(***************************************************************************)
MovesOn(r, pc) ==
  /\ req' \in [Reqs -> Request]
  /\ \A p \in Reqs \ {r} : req'[p] = req[p]
  /\ req'[r].pc = pc
  /\ req'[r].op = req[r].op /\ req'[r].email = req[r].email
  /\ req'[r].pw = req[r].pw /\ req'[r].link = req[r].link

LEMMA GotoMoves ==
  ASSUME TypeOK, NEW r \in Reqs,
         NEW pc \in {"insert", "read", "upsert", "mail", "update", "unlink", "done"}, Goto(r, pc)
  PROVE  MovesOn(r, pc)
<1>1. req \in [Reqs -> Request]
  BY DEF TypeOK
<1>2. req' = [req EXCEPT ![r] = [req[r] EXCEPT !.pc = pc]]
  BY DEF Goto
<1>3. [req[r] EXCEPT !.pc = pc] \in Request
  BY <1>1 DEF Request
<1> QED
  BY <1>1, <1>2, <1>3 DEF MovesOn, Request

LEMMA FinishMoves ==
  ASSUME TypeOK, NEW r \in Reqs, NEW status \in {200, 400, 409, 500}, Finish(r, status)
  PROVE  MovesOn(r, "done")
<1>1. req \in [Reqs -> Request]
  BY DEF TypeOK
<1> DEFINE x == [req[r] EXCEPT !.pc = "done"]
<1> DEFINE y == [x EXCEPT !.status = status]
<1>2. req' = [req EXCEPT ![r] = y]
  BY Zenon DEF Finish
<1>3. x \in Request /\ x.pc = "done" /\ x.op = req[r].op /\ x.email = req[r].email
      /\ x.pw = req[r].pw /\ x.link = req[r].link
  BY <1>1 DEF Request
<1> HIDE DEF x
<1>4. y \in Request /\ y.pc = x.pc /\ y.op = x.op /\ y.email = x.email /\ y.pw = x.pw /\ y.link = x.link
  BY <1>3 DEF Request
<1> HIDE DEF y
<1> QED
  BY <1>1, <1>2, <1>3, <1>4 DEF MovesOn

(***************************************************************************)
(* What a step does to the links: one that makes no link and moves none    *)
(* keeps OneOwner.                                                         *)
(***************************************************************************)
LEMMA CarriesNoMore ==
  ASSUME OneOwner, issued \subseteq issued',
         \A k \in Links : \A e \in Emails : CarriedBy(k, e)' => CarriedBy(k, e)
  PROVE  OneOwner'
  BY DEF OneOwner

\* Moving on changes no link, so only the mailboxes and the rows count.
LEMMA MovesCarry ==
  ASSUME OneOwner, NEW r \in Reqs, NEW pc, MovesOn(r, pc), UNCHANGED issued,
         \A k \in Links : \A e \in Emails :
           (k \in inbox'[e] \/ verify'[e] = k) => CarriedBy(k, e)
  PROVE  OneOwner'
<1>1. \A p \in Reqs : req'[p].email = req[p].email /\ req'[p].link = req[p].link
  BY DEF MovesOn
<1>2. \A k \in Links : \A e \in Emails : CarriedBy(k, e)' => CarriedBy(k, e)
  BY <1>1 DEF CarriedBy
<1> QED
  BY <1>2, CarriesNoMore

\* A handler that moves on and mails nothing keeps the links apart.
LEMMA MovesFresh ==
  ASSUME PendingFresh, FollowedOK, NEW r \in Reqs, NEW pc, MovesOn(r, pc),
         req[r].pc # "done", UNCHANGED inbox, UNCHANGED followed
  PROVE  PendingFresh' /\ FollowedOK'
<1>1. \A p \in Reqs : /\ req'[p].op = req[p].op /\ req'[p].link = req[p].link
                      /\ Pending(p)' => Pending(p)
  BY DEF MovesOn, Pending
<1>2. PendingFresh'
  BY <1>1 DEF PendingFresh
<1>3. FollowedOK'
  BY <1>1 DEF FollowedOK
<1> QED
  BY <1>2, <1>3

-----------------------------------------------------------------------------
(***************************************************************************)
(* The start of a handler: a new link, or a link from a mailbox            *)
(***************************************************************************)
LEMMA Drawn ==
  ASSUME AInv, NEW r \in Reqs, req[r] = Idle, NEW q \in Request, NEW k \in Links \ issued,
         q.op \in Making, q.pc \in {"insert", "read"}, q.email \in Emails, q.link = k,
         q.op = "signup" => q.pw \in Passwords,
         req' = [req EXCEPT ![r] = q], issued' = issued \cup {k},
         UNCHANGED <<password, verified, verify, inbox, owed, followed, welcomed>>
  PROVE  AInv'
<1>1. /\ req' \in [Reqs -> Request] /\ req'[r] = q
      /\ \A p \in Reqs \ {r} : req'[p] = req[p]
  BY DEF AInv, TypeOK
<1>2. TypeOK'
  BY <1>1 DEF AInv, TypeOK, Exists
<1>3. ReqsOK'
  <2> SUFFICES ASSUME NEW p \in Reqs PROVE RequestOK(p)'
    BY DEF ReqsOK
  <2>1. CASE p = r
    BY <1>1, <2>1 DEF RequestOK, Pending, Making
  <2>2. CASE p # r
    BY <1>1, <2>2 DEF AInv, ReqsOK, RequestOK, Pending, Exists
  <2> QED
    BY <2>1, <2>2
<1>4. \A j \in Links : \A e \in Emails : CarriedBy(j, e)' => CarriedBy(j, e) \/ (j = k /\ e = q.email)
  BY <1>1 DEF CarriedBy
<1>5. \A e \in Emails : ~CarriedBy(k, e)
  BY DEF AInv, OneOwner
<1>6. OneOwner'
  BY <1>4, <1>5 DEF AInv, OneOwner
<1>7. \A p \in Reqs : Pending(p) => req[p].link # k
  BY <1>5 DEF AInv, ReqsOK, RequestOK, Pending, CarriedBy
<1>8. PendingFresh'
  BY <1>1, <1>5, <1>7 DEF AInv, PendingFresh, Pending, CarriedBy
<1>9. FollowedOK' /\ SpentNotOwed'
  BY <1>1 DEF AInv, FollowedOK, SpentNotOwed, Making
<1>10. WinnerKeepsPassword' /\ VerifiedThroughMail' /\ NewestLinkWorks'
  BY DEF AInv, WinnerKeepsPassword, VerifiedThroughMail, NewestLinkWorks, Holders
<1> QED
  BY <1>2, <1>3, <1>6, <1>8, <1>9, <1>10 DEF AInv

LEMMA SignUpStartKeeps ==
  ASSUME AInv, NEW r \in Reqs, NEW e \in Emails, SignUpStart(r, e)
  PROVE  AInv'
<1>1. PICK p \in Passwords, k \in Links \ issued :
        /\ req' = [req EXCEPT ![r] = [Idle EXCEPT !.op = "signup", !.pc = "insert",
                                                  !.email = e, !.pw = p, !.link = k]]
        /\ issued' = issued \cup {k}
  BY DEF SignUpStart
<1> DEFINE q == [Idle EXCEPT !.op = "signup", !.pc = "insert", !.email = e, !.pw = p, !.link = k]
<1>2. k \in Links
  OBVIOUS
<1>3. q \in Request
  BY <1>2 DEF Request, Idle
<1>4. /\ q.op \in Making /\ q.pc \in {"insert", "read"} /\ q.email = e /\ q.link = k
      /\ q.op = "signup" => q.pw \in Passwords
  BY DEF Idle, Making
<1>5. req' = [req EXCEPT ![r] = q]
  BY <1>1, Zenon
<1> HIDE DEF q
<1> QED
  BY <1>1, <1>3, <1>4, <1>5, Drawn DEF SignUpStart, linkVars

LEMMA ResendStartKeeps ==
  ASSUME AInv, NEW r \in Reqs, NEW e \in Emails, ResendStart(r, e)
  PROVE  AInv'
<1>1. PICK k \in Links \ issued :
        /\ req' = [req EXCEPT ![r] = [Idle EXCEPT !.op = "resend", !.pc = "read", !.email = e, !.link = k]]
        /\ issued' = issued \cup {k}
  BY DEF ResendStart
<1> DEFINE q == [Idle EXCEPT !.op = "resend", !.pc = "read", !.email = e, !.link = k]
<1>2. k \in Links
  OBVIOUS
<1>3. q \in Request
  BY <1>2 DEF Request, Idle
<1>4. /\ q.op \in Making /\ q.pc \in {"insert", "read"} /\ q.email = e /\ q.link = k
      /\ q.op = "signup" => q.pw \in Passwords
  BY DEF Idle, Making
<1>5. req' = [req EXCEPT ![r] = q]
  BY <1>1, Zenon
<1> HIDE DEF q
<1> QED
  BY <1>1, <1>3, <1>4, <1>5, Drawn DEF ResendStart, linkVars

\* A request that makes no link and is not yet past its UPDATE.
LEMMA Harmless ==
  ASSUME AInv, NEW r \in Reqs, NEW q \in Request, q.email = NoEmail, q.op \notin Making, q.pc # "unlink",
         req' = [req EXCEPT ![r] = q], followed \subseteq followed', followed' \subseteq Emails,
         q.op = "verify" /\ q.link # NoLink => \E e \in followed' : q.link \in inbox[e],
         UNCHANGED <<password, verified, linkVars, welcomed>>
  PROVE  AInv'
<1>1. /\ req' \in [Reqs -> Request] /\ req'[r] = q
      /\ \A p \in Reqs \ {r} : req'[p] = req[p]
  BY DEF AInv, TypeOK
<1>2. UNCHANGED <<verify, issued, inbox, owed>>
  BY DEF linkVars
<1>3. TypeOK'
  BY <1>1, <1>2 DEF AInv, TypeOK, Exists
<1>4. ReqsOK'
  <2> SUFFICES ASSUME NEW p \in Reqs PROVE RequestOK(p)'
    BY DEF ReqsOK
  <2>1. CASE p = r
    BY <1>1, <2>1 DEF RequestOK, Pending, Making
  <2>2. CASE p # r
    BY <1>1, <2>2 DEF AInv, ReqsOK, RequestOK, Pending, Exists
  <2> QED
    BY <2>1, <2>2
<1>5. \A k \in Links : \A e \in Emails : CarriedBy(k, e)' => CarriedBy(k, e)
  BY <1>1, <1>2 DEF CarriedBy
<1>6. OneOwner'
  BY <1>2, <1>5, CarriesNoMore DEF AInv
<1>7. PendingFresh'
  BY <1>1, <1>2 DEF AInv, PendingFresh, Pending
<1>8. FollowedOK' /\ SpentNotOwed'
  BY <1>1, <1>2 DEF AInv, FollowedOK, SpentNotOwed
<1>9. WinnerKeepsPassword' /\ VerifiedThroughMail' /\ NewestLinkWorks'
  BY <1>2 DEF AInv, WinnerKeepsPassword, VerifiedThroughMail, NewestLinkWorks, Holders
<1> QED
  BY <1>3, <1>4, <1>6, <1>7, <1>8, <1>9 DEF AInv

LEMMA VerifyStartKeeps ==
  ASSUME AInv, NEW r \in Reqs, VerifyStart(r)
  PROVE  AInv'
<1>1. CASE \E e \in Emails, k \in Links :
             /\ k \in inbox[e]
             /\ req' = [req EXCEPT ![r] = [Idle EXCEPT !.op = "verify", !.pc = "update", !.link = k]]
             /\ followed' = followed \cup {e}
  <2>1. PICK e \in Emails, k \in Links :
             /\ k \in inbox[e]
             /\ req' = [req EXCEPT ![r] = [Idle EXCEPT !.op = "verify", !.pc = "update", !.link = k]]
             /\ followed' = followed \cup {e}
    BY <1>1
  <2> DEFINE q == [Idle EXCEPT !.op = "verify", !.pc = "update", !.link = k]
  <2>2. q \in Request
    BY DEF Request, Idle
  <2>3. q.op \notin Making
    BY DEF Idle, Making
  <2>4. followed \subseteq followed' /\ followed' \subseteq Emails
    BY <2>1 DEF AInv, TypeOK
  <2>5. q.email = NoEmail /\ q.pc # "unlink" /\ q.link = k
    BY DEF Idle
  <2>6. req' = [req EXCEPT ![r] = q]
    BY <2>1, Zenon
  <2> HIDE DEF q
  <2> QED
    BY <2>1, <2>2, <2>3, <2>4, <2>5, <2>6, Harmless DEF VerifyStart
<1>2. CASE /\ req' = [req EXCEPT ![r] = [Idle EXCEPT !.op = "verify", !.pc = "update"]]
           /\ UNCHANGED followed
  <2> DEFINE q == [Idle EXCEPT !.op = "verify", !.pc = "update"]
  <2>1. q \in Request
    BY DEF Request, Idle
  <2>2. q.op \notin Making
    BY DEF Idle, Making
  <2>3. followed \subseteq followed' /\ followed' \subseteq Emails
    BY <1>2 DEF AInv, TypeOK
  <2>4. q.email = NoEmail /\ q.pc # "unlink" /\ q.link = NoLink
    BY DEF Idle
  <2>5. req' = [req EXCEPT ![r] = q]
    BY <1>2, Zenon
  <2> HIDE DEF q
  <2> QED
    BY <1>2, <2>1, <2>2, <2>3, <2>4, <2>5, Harmless DEF VerifyStart
<1> QED
  BY <1>1, <1>2 DEF VerifyStart

LEMMA ReplyKeeps ==
  ASSUME AInv, NEW r \in Reqs, Reply(r)
  PROVE  AInv'
<1>1. Idle \in Request /\ Idle.email = NoEmail /\ Idle.op \notin Making /\ Idle.pc # "unlink" /\ Idle.op # "verify"
  BY DEF Idle, Request, Making
<1>2. followed \subseteq followed' /\ followed' \subseteq Emails
  BY DEF Reply, AInv, TypeOK
<1> QED
  BY <1>1, <1>2, Harmless DEF Reply

LEMMA CrashKeeps ==
  ASSUME AInv, Crash
  PROVE  AInv'
<1>1. \A r \in Reqs : req'[r] = Idle
  BY DEF Crash
<1>2. Idle \in Request /\ Idle.email = NoEmail /\ Idle.op = "none" /\ Idle.pc = "idle"
  BY DEF Idle, Request
<1>3. UNCHANGED <<password, verified, verify, issued, inbox, owed, followed, welcomed>>
  BY DEF Crash, linkVars
<1>4. TypeOK'
  BY <1>2, <1>3 DEF Crash, AInv, TypeOK, Exists
<1>5. ReqsOK' /\ PendingFresh' /\ FollowedOK' /\ SpentNotOwed'
  BY <1>1, <1>2 DEF ReqsOK, RequestOK, PendingFresh, FollowedOK, SpentNotOwed, Pending, Making
<1>6. \A k \in Links : \A e \in Emails : CarriedBy(k, e)' => CarriedBy(k, e)
  BY <1>1, <1>2, <1>3 DEF CarriedBy
<1>7. OneOwner'
  BY <1>3, <1>6, CarriesNoMore DEF AInv
<1>8. WinnerKeepsPassword' /\ VerifiedThroughMail' /\ NewestLinkWorks'
  BY <1>3 DEF AInv, WinnerKeepsPassword, VerifiedThroughMail, NewestLinkWorks, Holders
<1> QED
  BY <1>4, <1>5, <1>7, <1>8 DEF AInv

-----------------------------------------------------------------------------
(***************************************************************************)
(* The statements of sign-up and resend                                    *)
(***************************************************************************)
\* A handler that ends, or moves on to a step whose conditions hold, and changes no table.
LEMMA QuietMove ==
  ASSUME AInv, NEW r \in Reqs, NEW pc, MovesOn(r, pc), req[r].pc # "done",
         pc \in {"upsert", "mail"} => req[r].op = "resend" /\ Exists(req[r].email),
         pc # "unlink",
         UNCHANGED <<password, verified, verify, issued, inbox, owed, followed, welcomed>>
  PROVE  AInv'
<1>1. TypeOK'
  BY DEF AInv, TypeOK, Exists, MovesOn
<1>2. ReqsOK'
  <2> SUFFICES ASSUME NEW p \in Reqs PROVE RequestOK(p)'
    BY DEF ReqsOK
  <2>1. RequestOK(p) /\ RequestOK(r)
    BY DEF AInv, ReqsOK
  <2>2. CASE p = r
    BY <2>1, <2>2 DEF RequestOK, Pending, Exists, MovesOn
  <2>3. CASE p # r
    BY <2>1, <2>3 DEF RequestOK, Pending, Exists, MovesOn
  <2> QED
    BY <2>2, <2>3
<1>3. OneOwner'
  BY MovesCarry DEF AInv, CarriedBy
<1>4. PendingFresh' /\ FollowedOK'
  BY MovesFresh DEF AInv
<1>5. SpentNotOwed'
  BY DEF AInv, SpentNotOwed, MovesOn
<1>6. WinnerKeepsPassword' /\ VerifiedThroughMail' /\ NewestLinkWorks'
  BY DEF AInv, WinnerKeepsPassword, VerifiedThroughMail, NewestLinkWorks, Holders
<1> QED
  BY <1>1, <1>2, <1>3, <1>4, <1>5, <1>6 DEF AInv

LEMMA FinishQuietly ==
  ASSUME AInv, NEW r \in Reqs, NEW status \in {200, 400, 409, 500}, Finish(r, status), req[r].pc # "done",
         UNCHANGED <<password, verified, verify, issued, inbox, owed, followed, welcomed>>
  PROVE  AInv'
<1>1. MovesOn(r, "done")
  BY FinishMoves DEF AInv
<1> QED
  BY <1>1, QuietMove

LEMMA InsertedRequest ==
  ASSUME NEW q \in Request, NEW o
  PROVE  /\ Inserted(q, o) \in Request
         /\ Inserted(q, o).pc = IF o = "ok" THEN "upsert" ELSE "done"
         /\ Inserted(q, o).op = q.op /\ Inserted(q, o).email = q.email
         /\ Inserted(q, o).pw = q.pw /\ Inserted(q, o).link = q.link
<1> DEFINE x == [q EXCEPT !.pc = "done"]
<1> DEFINE y == [x EXCEPT !.status = 500]
<1> DEFINE z == [q EXCEPT !.pc = "upsert"]
<1>1. z \in Request /\ z.pc = "upsert" /\ z.op = q.op /\ z.email = q.email /\ z.pw = q.pw /\ z.link = q.link
  BY DEF Request
<1>2. x \in Request /\ x.pc = "done" /\ x.op = q.op /\ x.email = q.email /\ x.pw = q.pw /\ x.link = q.link
  BY DEF Request
<1>3. Inserted(q, o) = IF o = "ok" THEN z ELSE y
  BY Zenon DEF Inserted
<1> HIDE DEF x, z
<1>4. y \in Request /\ y.pc = x.pc /\ y.op = x.op /\ y.email = x.email /\ y.pw = x.pw /\ y.link = x.link
  BY <1>2 DEF Request
<1> HIDE DEF y
<1> QED
  BY <1>1, <1>2, <1>3, <1>4

LEMMA SignUpInsertKeeps ==
  ASSUME AInv, NEW r \in Reqs, SignUpInsert(r)
  PROVE  AInv'
<1> DEFINE e == req[r].email
<1>1. UNCHANGED <<verified, verify, issued, inbox, owed, followed, welcomed>>
  BY DEF SignUpInsert, linkVars
<1>2. req[r].op = "signup" /\ req[r].pc = "insert" /\ req[r] \in Request
  BY DEF SignUpInsert, At, AInv, TypeOK
<1>3. e \in Emails /\ req[r].pw \in Passwords
  BY <1>2 DEF AInv, ReqsOK, RequestOK, Making
<1>4. CASE \E status \in {409, 500} : Finish(r, status) /\ UNCHANGED password
  BY <1>1, <1>2, <1>4, FinishQuietly
<1>5. CASE /\ ~Conflict(e)
           /\ \E o \in WriteOutcomes :
                /\ password' = IF o = "failed" THEN password ELSE [password EXCEPT ![e] = req[r].pw]
                /\ req' = [req EXCEPT ![r] = Inserted(@, o)]
  <2>1. PICK o \in WriteOutcomes :
          /\ password' = IF o = "failed" THEN password ELSE [password EXCEPT ![e] = req[r].pw]
          /\ req' = [req EXCEPT ![r] = Inserted(@, o)]
    BY <1>5
  <2> DEFINE q == Inserted(req[r], o)
  <2>2. /\ q \in Request /\ q.pc = (IF o = "ok" THEN "upsert" ELSE "done")
        /\ q.op = req[r].op /\ q.email = e /\ q.pw = req[r].pw /\ q.link = req[r].link
    BY <1>2, InsertedRequest
  <2>3. req' = [req EXCEPT ![r] = q]
    BY <2>1, Zenon
  <2> HIDE DEF q
  <2>4. MovesOn(r, q.pc) /\ q.pc \in {"upsert", "done"}
    BY <2>2, <2>3 DEF MovesOn, AInv, TypeOK
  <2>5. password[e] = NoPw /\ password \in [Emails -> Passwords \cup {NoPw}]
    BY <1>5 DEF Conflict, Exists, AInv, TypeOK
  <2>6. /\ password' \in [Emails -> Passwords \cup {NoPw}]
        /\ \A f \in Emails \ {e} : password'[f] = password[f]
        /\ password'[e] \in {NoPw, req[r].pw}
        /\ q.pc = "upsert" => password'[e] = req[r].pw
    BY <1>3, <2>1, <2>2, <2>5
  <2>7. welcomed[e] = {}
    BY <1>3, <2>5 DEF AInv, WinnerKeepsPassword, TypeOK
  <2>8. \A f \in Emails : Exists(f) => password'[f] = password[f] /\ Exists(f)'
    BY <2>5, <2>6 DEF Exists
  <2>9. TypeOK'
    BY <1>1, <2>4, <2>6, <2>8 DEF AInv, TypeOK, MovesOn
  <2>10. ReqsOK'
    <3> SUFFICES ASSUME NEW p \in Reqs PROVE RequestOK(p)'
      BY DEF ReqsOK
    <3>1. RequestOK(p)
      BY DEF AInv, ReqsOK
    <3>2. CASE p = r
      BY <1>2, <1>3, <2>2, <2>4, <2>6, <3>1, <3>2 DEF RequestOK, Pending, Exists, MovesOn
    <3>3. CASE p # r
      <4>1. req'[p] = req[p]
        BY <2>4, <3>3 DEF MovesOn
      <4>2. CASE Pending(p) /\ req[p].pc \in {"upsert", "mail"}
        <5>1. req[p].email \in Emails /\ Exists(req[p].email)
          BY <3>1, <4>2 DEF RequestOK, Pending
        <5> QED
          BY <2>8, <3>1, <4>1, <4>2, <5>1 DEF RequestOK, Pending
      <4>3. CASE ~(Pending(p) /\ req[p].pc \in {"upsert", "mail"})
        BY <3>1, <4>1, <4>3 DEF RequestOK, Pending, Making
      <4> QED
        BY <4>2, <4>3
    <3> QED
      BY <3>2, <3>3
  <2>11. OneOwner'
    BY <1>1, <2>4, MovesCarry DEF AInv, CarriedBy
  <2>12. PendingFresh' /\ FollowedOK'
    BY <1>1, <1>2, <2>4, MovesFresh DEF AInv
  <2>13. SpentNotOwed'
    BY <1>1, <2>4 DEF AInv, SpentNotOwed, MovesOn
  <2>14. WinnerKeepsPassword'
    BY <1>1, <2>6, <2>7 DEF AInv, WinnerKeepsPassword
  <2>15. VerifiedThroughMail' /\ NewestLinkWorks'
    BY <1>1 DEF AInv, VerifiedThroughMail, NewestLinkWorks, Holders
  <2> QED
    BY <2>9, <2>10, <2>11, <2>12, <2>13, <2>14, <2>15 DEF AInv
<1> QED
  BY <1>4, <1>5 DEF SignUpInsert

LEMMA ResendReadKeeps ==
  ASSUME AInv, NEW r \in Reqs, ResendRead(r)
  PROVE  AInv'
<1>1. UNCHANGED <<password, verified, verify, issued, inbox, owed, followed, welcomed>>
  BY DEF ResendRead, linkVars
<1>2. req[r].op = "resend" /\ req[r].pc = "read"
  BY DEF ResendRead, At
<1>3. CASE \E status \in {200, 400} : Finish(r, status)
  BY <1>1, <1>2, <1>3, FinishQuietly
<1>4. CASE Exists(req[r].email) /\ Goto(r, "upsert")
  <2>1. MovesOn(r, "upsert")
    BY <1>4, GotoMoves DEF AInv
  <2> QED
    BY <1>1, <1>2, <1>4, <2>1, QuietMove
<1> QED
  BY <1>3, <1>4 DEF ResendRead

LEMMA UpsertLinkKeeps ==
  ASSUME AInv, NEW r \in Reqs, UpsertLink(r)
  PROVE  AInv'
<1>1. UNCHANGED <<password, verified, issued, inbox, followed, welcomed>>
  BY DEF UpsertLink
<1>2. req[r].op \in Making /\ req[r].pc = "upsert" /\ Pending(r)
  BY DEF UpsertLink, At, Making, Pending
<1>3. PICK e \in Emails, k \in Links : e = req[r].email /\ k = req[r].link
  BY <1>2 DEF AInv, ReqsOK, RequestOK
<1>4. Exists(e) /\ CarriedBy(k, e)
  BY <1>2, <1>3 DEF AInv, ReqsOK, RequestOK, CarriedBy
<1>5. PICK o \in WriteOutcomes :
        /\ IF o = "failed" THEN UNCHANGED <<verify, owed>>
           ELSE /\ verify' = [verify EXCEPT ![e] = k]
                /\ owed' = [owed EXCEPT ![e] = k]
        /\ IF o = "ok" THEN Goto(r, "mail") ELSE Finish(r, 500)
  BY <1>3 DEF UpsertLink
<1>6. PICK pc \in {"mail", "done"} : MovesOn(r, pc)
  BY <1>5, GotoMoves, FinishMoves DEF AInv
<1>7. verify \in [Emails -> Links \cup {NoLink}] /\ owed \in [Emails -> Links \cup {NoLink}]
  BY DEF AInv, TypeOK
<1>8. /\ verify' \in [Emails -> Links \cup {NoLink}] /\ owed' \in [Emails -> Links \cup {NoLink}]
      /\ \A f \in Emails \ {e} : verify'[f] = verify[f] /\ owed'[f] = owed[f]
      /\ \/ verify'[e] = verify[e] /\ owed'[e] = owed[e]
         \/ verify'[e] = k /\ owed'[e] = k
  BY <1>5, <1>7
<1>9. TypeOK'
  BY <1>1, <1>4, <1>6, <1>8 DEF AInv, TypeOK, Exists, MovesOn
<1>10. ReqsOK'
  <2> SUFFICES ASSUME NEW p \in Reqs PROVE RequestOK(p)'
    BY DEF ReqsOK
  <2>1. RequestOK(p)
    BY DEF AInv, ReqsOK
  <2>2. CASE p = r
    BY <1>1, <1>2, <1>6, <2>1, <2>2 DEF RequestOK, Pending, Exists, MovesOn
  <2>3. CASE p # r
    BY <1>1, <1>6, <2>1, <2>3 DEF RequestOK, Pending, Exists, MovesOn
  <2> QED
    BY <2>2, <2>3
<1>11. OneOwner'
  BY <1>1, <1>4, <1>6, <1>8, MovesCarry DEF AInv, CarriedBy
<1>12. PendingFresh' /\ FollowedOK'
  BY <1>1, <1>2, <1>6, MovesFresh DEF AInv
<1>13. SpentNotOwed'
  <2> SUFFICES ASSUME NEW p \in Reqs, req'[p].op = "verify", req'[p].pc = "unlink"
               PROVE  req'[p].link # NoLink /\ \A f \in Emails : owed'[f] # req'[p].link
    BY DEF SpentNotOwed
  <2>1. p # r /\ req'[p] = req[p]
    BY <1>2, <1>6 DEF MovesOn, Making
  <2>2. req[p].link # NoLink /\ \A f \in Emails : owed[f] # req[p].link
    BY <2>1 DEF AInv, SpentNotOwed
  <2>3. PICK f \in followed : req[p].link \in inbox[f]
    BY <2>1, <2>2 DEF AInv, FollowedOK
  <2>4. k # req[p].link
    BY <1>2, <1>3, <2>3 DEF AInv, PendingFresh, TypeOK
  <2> QED
    BY <1>8, <2>1, <2>2, <2>4
<1>14. WinnerKeepsPassword' /\ VerifiedThroughMail'
  BY <1>1 DEF AInv, WinnerKeepsPassword, VerifiedThroughMail
<1>15. NewestLinkWorks'
  BY <1>7, <1>8 DEF AInv, NewestLinkWorks, Holders
<1> QED
  BY <1>9, <1>10, <1>11, <1>12, <1>13, <1>14, <1>15 DEF AInv

LEMMA MailLinkKeeps ==
  ASSUME AInv, NEW r \in Reqs, MailLink(r)
  PROVE  AInv'
<1>1. UNCHANGED <<password, verified, verify, issued, owed, followed>>
  BY DEF MailLink
<1>2. req[r].op \in Making /\ req[r].pc = "mail" /\ Pending(r)
  BY DEF MailLink, At, Making, Pending
<1>3. PICK e \in Emails, k \in Links : e = req[r].email /\ k = req[r].link
  BY <1>2 DEF AInv, ReqsOK, RequestOK
<1>4. CarriedBy(k, e)
  BY <1>3 DEF CarriedBy
<1>5. MovesOn(r, "done")
  BY FinishMoves DEF AInv, MailLink
<1>6. inbox \in [Emails -> SUBSET Links] /\ welcomed \in [Emails -> SUBSET Passwords]
  BY DEF AInv, TypeOK
<1>7. /\ inbox' \in [Emails -> SUBSET Links]
      /\ \A f \in Emails : inbox[f] \subseteq inbox'[f]
      /\ \A f \in Emails : \A j \in inbox'[f] : j \in inbox[f] \/ (j = k /\ f = e)
  BY <1>3, <1>6 DEF MailLink
<1>8. req[r].op = "signup" => password[e] = req[r].pw /\ req[r].pw \in Passwords
  BY <1>2, <1>3 DEF AInv, ReqsOK, RequestOK
<1>9. /\ welcomed' \in [Emails -> SUBSET Passwords]
      /\ \A f \in Emails : welcomed'[f] \subseteq welcomed[f] \cup {password[f]}
  <2>1. CASE req[r].op = "signup"
    <3>1. welcomed' = [welcomed EXCEPT ![e] = welcomed[e] \cup {password[e]}]
      BY <1>3, <1>8, <2>1 DEF MailLink
    <3> QED
      BY <1>6, <1>8, <2>1, <3>1
  <2>2. CASE req[r].op # "signup"
    BY <1>6, <2>2 DEF MailLink
  <2> QED
    BY <2>1, <2>2
<1>10. TypeOK'
  BY <1>1, <1>5, <1>7, <1>9 DEF AInv, TypeOK, Exists, MovesOn
<1>11. ReqsOK'
  <2> SUFFICES ASSUME NEW p \in Reqs PROVE RequestOK(p)'
    BY DEF ReqsOK
  <2>1. RequestOK(p)
    BY DEF AInv, ReqsOK
  <2>2. CASE p = r
    BY <1>1, <1>2, <1>5, <2>1, <2>2 DEF RequestOK, Pending, Exists, MovesOn
  <2>3. CASE p # r
    BY <1>1, <1>5, <2>1, <2>3 DEF RequestOK, Pending, Exists, MovesOn
  <2> QED
    BY <2>2, <2>3
<1>12. OneOwner'
  BY <1>1, <1>4, <1>5, <1>7, MovesCarry DEF AInv, CarriedBy
<1>13. PendingFresh'
  <2> SUFFICES ASSUME NEW p \in Reqs, Pending(p)'
               PROVE  /\ \A f \in Emails : req'[p].link \notin inbox'[f]
                      /\ \A q \in Reqs : Pending(q)' /\ req'[q].link = req'[p].link => q = p
    BY DEF PendingFresh
  <2>1. p # r /\ req'[p] = req[p] /\ Pending(p)
    BY <1>5 DEF MovesOn, Pending
  <2>2. \A q \in Reqs : Pending(q)' => Pending(q) /\ req'[q] = req[q]
    BY <1>5 DEF MovesOn, Pending
  <2>3. req[p].link # k
    BY <1>2, <1>3, <2>1 DEF AInv, PendingFresh
  <2>4. \A f \in Emails : req[p].link \notin inbox[f]
    BY <2>1 DEF AInv, PendingFresh
  <2> QED
    BY <1>7, <2>1, <2>2, <2>3, <2>4 DEF AInv, PendingFresh
<1>14. FollowedOK'
  BY <1>1, <1>5, <1>7 DEF AInv, FollowedOK, MovesOn, TypeOK
<1>15. SpentNotOwed'
  BY <1>1, <1>5 DEF AInv, SpentNotOwed, MovesOn
<1>16. WinnerKeepsPassword'
  BY <1>1, <1>9 DEF AInv, WinnerKeepsPassword
<1>17. VerifiedThroughMail' /\ NewestLinkWorks'
  BY <1>1 DEF AInv, VerifiedThroughMail, NewestLinkWorks, Holders
<1> QED
  BY <1>10, <1>11, <1>12, <1>13, <1>14, <1>15, <1>16, <1>17 DEF AInv

-----------------------------------------------------------------------------
(***************************************************************************)
(* The click on a link                                                     *)
(***************************************************************************)
\* The accounts that a followed link verifies are one: the one it was mailed to.
LEMMA HoldersFollowed ==
  ASSUME AInv, NEW r \in Reqs, req[r].op = "verify", req[r].link # NoLink
  PROVE  Holders(req[r].link) \subseteq followed
<1>1. PICK e \in followed : req[r].link \in inbox[e]
  BY DEF AInv, FollowedOK
<1>2. e \in Emails /\ req[r].link \in Links
  BY <1>1 DEF AInv, TypeOK
<1>3. \A f \in Holders(req[r].link) : f = e
  BY <1>1, <1>2 DEF Holders, CarriedBy, AInv, OneOwner
<1> QED
  BY <1>1, <1>3

LEMMA VerifyUpdateKeeps ==
  ASSUME AInv, NEW r \in Reqs, VerifyUpdate(r)
  PROVE  AInv'
<1>1. UNCHANGED <<password, verify, issued, inbox, followed, welcomed>>
  BY DEF VerifyUpdate
<1>2. req[r].op = "verify" /\ req[r].pc = "update"
  BY DEF VerifyUpdate, At
<1>3. CASE \E status \in {400, 500} : Finish(r, status) /\ UNCHANGED <<verified, owed>>
  BY <1>1, <1>2, <1>3, FinishQuietly
<1>4. CASE /\ Holders(req[r].link) # {}
           /\ \E o \in WriteOutcomes \ {"failed"} :
                IF o = "ok" THEN Goto(r, "unlink") ELSE Finish(r, 500)
           /\ verified' = verified \cup Holders(req[r].link)
           /\ owed' = [e \in Emails |-> IF owed[e] = req[r].link THEN NoLink ELSE owed[e]]
  <2>1. PICK k \in Links : k = req[r].link
    BY <1>4 DEF Holders, AInv, TypeOK
  <2>2. PICK pc \in {"unlink", "done"} : MovesOn(r, pc)
    BY <1>4, GotoMoves, FinishMoves DEF AInv
  <2>3. verified' = verified \cup Holders(k) /\ Holders(k) \subseteq followed
    BY <1>2, <1>4, <2>1, HoldersFollowed
  <2>4. \A e \in Holders(k) : e \in Emails /\ Exists(e)
    BY <2>1 DEF Holders, AInv, TypeOK
  <2>5. /\ owed' \in [Emails -> Links \cup {NoLink}]
        /\ \A e \in Emails : owed'[e] # k /\ (owed'[e] = owed[e] \/ owed'[e] = NoLink)
    BY <1>4, <2>1 DEF AInv, TypeOK
  <2>6. TypeOK'
    BY <1>1, <2>2, <2>3, <2>4, <2>5 DEF AInv, TypeOK, Exists, MovesOn
  <2>7. ReqsOK'
    <3> SUFFICES ASSUME NEW p \in Reqs PROVE RequestOK(p)'
      BY DEF ReqsOK
    <3>1. RequestOK(p)
      BY DEF AInv, ReqsOK
    <3>2. CASE p = r
      BY <1>1, <1>2, <2>2, <3>1, <3>2 DEF RequestOK, Pending, Exists, MovesOn
    <3>3. CASE p # r
      BY <1>1, <2>2, <3>1, <3>3 DEF RequestOK, Pending, Exists, MovesOn
    <3> QED
      BY <3>2, <3>3
  <2>8. OneOwner'
    BY <1>1, <2>2, MovesCarry DEF AInv, CarriedBy
  <2>9. PendingFresh' /\ FollowedOK'
    BY <1>1, <1>2, <2>2, MovesFresh DEF AInv
  <2>10. SpentNotOwed'
    BY <2>1, <2>2, <2>5 DEF AInv, SpentNotOwed, MovesOn
  <2>11. WinnerKeepsPassword' /\ VerifiedThroughMail' /\ NewestLinkWorks'
    BY <1>1, <2>3, <2>5 DEF AInv, WinnerKeepsPassword, VerifiedThroughMail, NewestLinkWorks, Holders
  <2> QED
    BY <2>6, <2>7, <2>8, <2>9, <2>10, <2>11 DEF AInv
<1> QED
  BY <1>3, <1>4 DEF VerifyUpdate

LEMMA VerifyUnlinkKeeps ==
  ASSUME AInv, NEW r \in Reqs, VerifyUnlink(r)
  PROVE  AInv'
<1>1. UNCHANGED <<password, verified, issued, inbox, owed, followed, welcomed>>
  BY DEF VerifyUnlink
<1>2. req[r].op = "verify" /\ req[r].pc = "unlink"
  BY DEF VerifyUnlink, At
<1>3. MovesOn(r, "done")
  BY FinishMoves DEF AInv, VerifyUnlink
<1>4. verify \in [Emails -> Links \cup {NoLink}] /\ \A e \in Emails : owed[e] # req[r].link
  BY <1>2 DEF AInv, TypeOK, SpentNotOwed
<1>5. /\ verify' \in [Emails -> Links \cup {NoLink}]
      /\ \A e \in Emails : verify'[e] = verify[e] \/ (verify'[e] = NoLink /\ verify[e] = req[r].link)
  BY <1>4 DEF VerifyUnlink, Unlinked
<1>6. TypeOK'
  BY <1>1, <1>3, <1>5 DEF AInv, TypeOK, Exists, MovesOn
<1>7. ReqsOK'
  <2> SUFFICES ASSUME NEW p \in Reqs PROVE RequestOK(p)'
    BY DEF ReqsOK
  <2>1. RequestOK(p)
    BY DEF AInv, ReqsOK
  <2>2. CASE p = r
    BY <1>1, <1>2, <1>3, <2>1, <2>2 DEF RequestOK, Pending, Exists, MovesOn
  <2>3. CASE p # r
    BY <1>1, <1>3, <2>1, <2>3 DEF RequestOK, Pending, Exists, MovesOn
  <2> QED
    BY <2>2, <2>3
<1>8. OneOwner'
  BY <1>1, <1>3, <1>5, MovesCarry DEF AInv, CarriedBy
<1>9. PendingFresh' /\ FollowedOK'
  BY <1>1, <1>2, <1>3, MovesFresh DEF AInv
<1>10. SpentNotOwed'
  BY <1>1, <1>3 DEF AInv, SpentNotOwed, MovesOn
<1>11. WinnerKeepsPassword' /\ VerifiedThroughMail'
  BY <1>1 DEF AInv, WinnerKeepsPassword, VerifiedThroughMail
<1>12. NewestLinkWorks'
  BY <1>1, <1>4, <1>5 DEF AInv, NewestLinkWorks, Holders
<1> QED
  BY <1>6, <1>7, <1>8, <1>9, <1>10, <1>11, <1>12 DEF AInv

LEMMA ExpireKeeps ==
  ASSUME AInv, NEW e \in Emails, Expire(e)
  PROVE  AInv'
<1>1. UNCHANGED <<password, verified, issued, inbox, followed, welcomed, req>>
  BY DEF Expire
<1>2. verify \in [Emails -> Links \cup {NoLink}] /\ owed \in [Emails -> Links \cup {NoLink}]
  BY DEF AInv, TypeOK
<1>3. /\ verify' \in [Emails -> Links \cup {NoLink}] /\ owed' \in [Emails -> Links \cup {NoLink}]
      /\ verify'[e] = NoLink /\ owed'[e] = NoLink
      /\ \A f \in Emails \ {e} : verify'[f] = verify[f] /\ owed'[f] = owed[f]
  BY <1>2 DEF Expire
<1>4. TypeOK'
  BY <1>1, <1>3 DEF AInv, TypeOK, Exists
<1>5. ReqsOK' /\ PendingFresh' /\ FollowedOK'
  BY <1>1 DEF AInv, ReqsOK, RequestOK, Exists, PendingFresh, FollowedOK, Pending
<1>6. SpentNotOwed'
  BY <1>1, <1>3 DEF AInv, SpentNotOwed
<1>7. \A k \in Links : \A f \in Emails : CarriedBy(k, f)' => CarriedBy(k, f)
  BY <1>1, <1>3 DEF CarriedBy
<1>8. OneOwner'
  BY <1>1, <1>7, CarriesNoMore DEF AInv
<1>9. WinnerKeepsPassword' /\ VerifiedThroughMail' /\ NewestLinkWorks'
  BY <1>1, <1>3 DEF AInv, WinnerKeepsPassword, VerifiedThroughMail, NewestLinkWorks, Holders
<1> QED
  BY <1>4, <1>5, <1>6, <1>8, <1>9 DEF AInv

LEMMA StutterKeeps ==
  ASSUME AInv, UNCHANGED vars
  PROVE  AInv'
<1>1. UNCHANGED <<password, verified, verify, issued, inbox, owed, followed, welcomed, req>>
  BY DEF vars
<1>2. TypeOK' /\ ReqsOK' /\ OneOwner'
  BY <1>1 DEF AInv, TypeOK, Exists, ReqsOK, RequestOK, Pending, OneOwner, CarriedBy
<1>3. PendingFresh' /\ FollowedOK' /\ SpentNotOwed'
  BY <1>1 DEF AInv, PendingFresh, Pending, FollowedOK, SpentNotOwed
<1>4. WinnerKeepsPassword' /\ VerifiedThroughMail' /\ NewestLinkWorks'
  BY <1>1 DEF AInv, WinnerKeepsPassword, VerifiedThroughMail, NewestLinkWorks, Holders
<1> QED
  BY <1>2, <1>3, <1>4 DEF AInv

-----------------------------------------------------------------------------
\* Every step of every handler, and of the environment, keeps it.
LEMMA NextAInv == AInv /\ [Next]_vars => AInv'
<1> SUFFICES ASSUME AInv, [Next]_vars PROVE AInv'
  OBVIOUS
<1>1. CASE \E r \in Reqs, e \in Emails : SignUpStart(r, e) \/ ResendStart(r, e)
  BY <1>1, SignUpStartKeeps, ResendStartKeeps
<1>2. CASE \E r \in Reqs : VerifyStart(r) \/ Reply(r)
  BY <1>2, VerifyStartKeeps, ReplyKeeps
<1>3. CASE \E r \in Reqs : SignUpInsert(r) \/ ResendRead(r) \/ UpsertLink(r) \/ MailLink(r)
  BY <1>3, SignUpInsertKeeps, ResendReadKeeps, UpsertLinkKeeps, MailLinkKeeps
<1>4. CASE \E r \in Reqs : VerifyUpdate(r) \/ VerifyUnlink(r)
  BY <1>4, VerifyUpdateKeeps, VerifyUnlinkKeeps
<1>5. CASE \E e \in Emails : Expire(e)
  BY <1>5, ExpireKeeps
<1>6. CASE Crash
  BY <1>6, CrashKeeps
<1>7. CASE UNCHANGED vars
  BY <1>7, StutterKeeps
<1> QED
  BY <1>1, <1>2, <1>3, <1>4, <1>5, <1>6, <1>7 DEF Next

\* Every reachable state satisfies the inductive invariant.
THEOREM AccountsInvariant == Spec => []AInv
<1>1. Init => AInv
  BY InitAInv
<1>2. AInv /\ [Next]_vars => AInv'
  BY NextAInv
<1> QED
  BY <1>1, <1>2, PTL DEF Spec

\* Tables and requests are well formed, and only accounts that exist have links
\* or are verified: users and email_verify_tokens as the handlers leave them.
THEOREM AccountsTypeCorrect == Spec => []TypeOK
<1>1. AInv => TypeOK
  BY DEF AInv
<1> QED
  BY <1>1, AccountsInvariant, PTL

\* Of the sign-ups with one address at most one is told of success, and the
\* account has its password: SignUp with CreateUser under the unique index.
THEOREM OneWinner == Spec => []WinnerKeepsPassword
<1>1. AInv => WinnerKeepsPassword
  BY DEF AInv
<1> QED
  BY <1>1, AccountsInvariant, PTL

\* An address is verified only by a link that was mailed to it: VerifyEmail
\* finds no other account's row, whoever clicks what at the same time.
THEOREM OnlyTheOwnerVerifies == Spec => []VerifiedThroughMail
<1>1. AInv => VerifiedThroughMail
  BY DEF AInv
<1> QED
  BY <1>1, AccountsInvariant, PTL

\* The newest link works until it is used, replaced or too old: the DELETE of
\* VerifyEmail, however late, removes the row of no link but its own.
THEOREM NewestLinkSurvives == Spec => []NewestLinkWorks
<1>1. AInv => NewestLinkWorks
  BY DEF AInv
<1> QED
  BY <1>1, AccountsInvariant, PTL

-----------------------------------------------------------------------------
(***************************************************************************)
(* Accounts implements Registration.  All the handlers do at once is seen  *)
(* there as one account, one welcome, one mail or one verified address at  *)
(* a time.  What the invariant above does not say yet is that the sign-up  *)
(* whose INSERT succeeded is alone with its address until it answers, and  *)
(* that nobody was told of success before it (WInv).                       *)
(***************************************************************************)
Winner(r) == req[r].op = "signup" /\ req[r].pc \in {"upsert", "mail"}

WInv ==
  \A r \in Reqs : Winner(r) =>
    /\ welcomed[req[r].email] = {}
    /\ \A p \in Reqs : Winner(p) /\ req[p].email = req[r].email => p = r

Implements == [Promised!Next]_(Promised!vars)

\* A step after which no request is a winner that was not one before.
NoNewWinner == \A p \in Reqs : Winner(p)' => Winner(p) /\ req'[p].email = req[p].email

LEMMA NoNewWinnerKeeps ==
  ASSUME WInv, NoNewWinner, UNCHANGED welcomed
  PROVE  WInv'
  BY DEF WInv, NoNewWinner

LEMMA HiddenStep ==
  ASSUME WInv, NoNewWinner, UNCHANGED <<password, verified, inbox, followed, welcomed>>
  PROVE  WInv' /\ Implements
  BY NoNewWinnerKeeps DEF Implements, Promised!vars

LEMMA MovesWin ==
  ASSUME NEW r \in Reqs, NEW pc, MovesOn(r, pc), pc \in {"upsert", "mail"} => Winner(r) \/ req[r].op # "signup"
  PROVE  NoNewWinner
  BY DEF MovesOn, NoNewWinner, Winner

\* A request that has just begun has won nothing.
LEMMA StartsWinNothing ==
  ASSUME AInv, NEW r \in Reqs, (\E e \in Emails : SignUpStart(r, e) \/ ResendStart(r, e)) \/ VerifyStart(r)
  PROVE  NoNewWinner
<1>1. req \in [Reqs -> Request]
  BY DEF AInv, TypeOK
<1>2. PICK q : req' = [req EXCEPT ![r] = q] /\ q.pc \in {"insert", "read", "update"}
  <2>1. CASE \E e \in Emails : SignUpStart(r, e)
    <3>1. PICK e, p, k : req' = [req EXCEPT ![r] = [Idle EXCEPT !.op = "signup", !.pc = "insert",
                                                    !.email = e, !.pw = p, !.link = k]]
      BY <2>1, Zenon DEF SignUpStart
    <3>2. [Idle EXCEPT !.op = "signup", !.pc = "insert", !.email = e, !.pw = p, !.link = k].pc = "insert"
      BY DEF Idle
    <3> QED
      BY <3>1, <3>2
  <2>2. CASE \E e \in Emails : ResendStart(r, e)
    <3>1. PICK e, k : req' = [req EXCEPT ![r] = [Idle EXCEPT !.op = "resend", !.pc = "read", !.email = e, !.link = k]]
      BY <2>2, Zenon DEF ResendStart
    <3>2. [Idle EXCEPT !.op = "resend", !.pc = "read", !.email = e, !.link = k].pc = "read"
      BY DEF Idle
    <3> QED
      BY <3>1, <3>2
  <2>3. CASE VerifyStart(r)
    <3>1. \/ \E k : req' = [req EXCEPT ![r] = [Idle EXCEPT !.op = "verify", !.pc = "update", !.link = k]]
          \/ req' = [req EXCEPT ![r] = [Idle EXCEPT !.op = "verify", !.pc = "update"]]
      BY <2>3, Zenon DEF VerifyStart
    <3>2. /\ \A k : [Idle EXCEPT !.op = "verify", !.pc = "update", !.link = k].pc = "update"
          /\ [Idle EXCEPT !.op = "verify", !.pc = "update"].pc = "update"
      BY DEF Idle
    <3> QED
      BY <3>1, <3>2, Zenon
  <2> QED
    BY <2>1, <2>2, <2>3
<1> QED
  BY <1>1, <1>2 DEF NoNewWinner, Winner

LEMMA StartImplements ==
  ASSUME AInv, WInv, NEW r \in Reqs,
         (\E e \in Emails : SignUpStart(r, e) \/ ResendStart(r, e)) \/ VerifyStart(r)
  PROVE  WInv' /\ Implements
<1>1. NoNewWinner
  BY StartsWinNothing
<1>2. CASE \E e \in Emails : SignUpStart(r, e) \/ ResendStart(r, e)
  <2>1. UNCHANGED <<password, verified, inbox, followed, welcomed>>
    BY <1>2, Zenon DEF SignUpStart, ResendStart
  <2> QED
    BY <1>1, <2>1, HiddenStep
<1>3. CASE VerifyStart(r)
  <2>1. UNCHANGED <<password, verified, inbox, welcomed>>
    BY <1>3, Zenon DEF VerifyStart, linkVars
  <2>2. UNCHANGED followed \/ \E e \in Emails : inbox[e] # {} /\ followed' = followed \cup {e}
    BY <1>3, Zenon DEF VerifyStart
  <2>3. Implements
    BY <2>1, <2>2 DEF Implements, Promised!Next, Promised!Follow, Promised!vars
  <2> QED
    BY <1>1, <2>1, <2>3, NoNewWinnerKeeps
<1> QED
  BY <1>2, <1>3

\* The INSERT that succeeds is the first for its address: nobody else has won it
\* and nobody was told so.
LEMMA InsertImplements ==
  ASSUME AInv, WInv, NEW r \in Reqs, SignUpInsert(r)
  PROVE  WInv' /\ Implements
<1>0. /\ req[r].op = "signup" /\ req[r].pc = "insert" /\ req[r].email \in Emails /\ req[r].pw \in Passwords
      /\ UNCHANGED <<verified, inbox, followed, welcomed>> /\ password \in [Emails -> Passwords \cup {NoPw}]
      /\ req \in [Reqs -> Request]
  BY DEF SignUpInsert, At, linkVars, AInv, ReqsOK, RequestOK, Making, TypeOK
<1>1. PICK e \in Emails : e = req[r].email
  BY <1>0
<1>2. CASE (Finish(r, 409) \/ Finish(r, 500)) /\ UNCHANGED password
  <2>1. MovesOn(r, "done")
    BY <1>2, FinishMoves DEF AInv
  <2> QED
    BY <1>0, <1>2, <2>1, MovesWin, HiddenStep
<1>3. CASE /\ ~Exists(e)
           /\ \E o \in WriteOutcomes :
                /\ password' = IF o = "failed" THEN password ELSE [password EXCEPT ![e] = req[r].pw]
                /\ req' = [req EXCEPT ![r] = Inserted(@, o)]
  <2>1. PICK o \in WriteOutcomes :
          /\ password' = IF o = "failed" THEN password ELSE [password EXCEPT ![e] = req[r].pw]
          /\ req' = [req EXCEPT ![r] = Inserted(req[r], o)]
    BY <1>3
  <2> DEFINE q == Inserted(req[r], o)
  <2>2. /\ q \in Request /\ q.op = req[r].op /\ q.email = e /\ q.pw = req[r].pw /\ q.link = req[r].link
        /\ req' = [req EXCEPT ![r] = q]
    BY <1>0, <1>1, <2>1, InsertedRequest
  <2> HIDE DEF q
  <2>8. MovesOn(r, q.pc)
    BY <1>0, <1>1, <2>2 DEF MovesOn
  <2>3. Implements
    <3>1. CASE password' = password
      BY <1>0, <3>1 DEF Implements, Promised!vars
    <3>2. CASE password' = [password EXCEPT ![e] = req[r].pw]
      <4>1. Promised!SignUp(e, req[r].pw)
        BY <1>0, <1>3, <3>2 DEF Promised!SignUp, Exists
      <4> QED
        BY <1>0, <4>1 DEF Implements, Promised!Next
    <3> QED
      BY <2>1, <3>1, <3>2
  <2>4. welcomed[e] = {}
    BY <1>0, <1>3 DEF AInv, TypeOK, WinnerKeepsPassword, Exists
  <2>5. \A p \in Reqs : Winner(p) => req[p].email # e
    BY <1>3 DEF Winner, AInv, ReqsOK, RequestOK, Pending, Making
  <2>6. \A p \in Reqs : req'[p].email = req[p].email /\ (p # r => (Winner(p)' <=> Winner(p)))
    BY <2>8 DEF MovesOn, Winner
  <2>7. WInv'
    <3> SUFFICES ASSUME NEW p \in Reqs, Winner(p)'
                 PROVE  /\ welcomed[req[p].email] = {}
                        /\ \A x \in Reqs : Winner(x)' /\ req[x].email = req[p].email => x = p
      BY <1>0, <2>6 DEF WInv
    <3>1. CASE p = r
      BY <1>1, <2>4, <2>5, <2>6, <3>1
    <3>2. CASE p # r
      BY <1>1, <2>5, <2>6, <3>2 DEF WInv
    <3> QED
      BY <3>1, <3>2
  <2> QED
    BY <2>3, <2>7
<1> QED
  BY <1>1, <1>2, <1>3 DEF SignUpInsert, Conflict

\* The answer to the only sign-up that won; a link goes to its own address, and
\* to nobody who has it already.
LEMMA MailImplements ==
  ASSUME AInv, WInv, NEW r \in Reqs, MailLink(r)
  PROVE  WInv' /\ Implements
<1>0. /\ req[r].op \in Making /\ req[r].pc = "mail" /\ Pending(r) /\ MovesOn(r, "done")
      /\ UNCHANGED <<password, verified, followed>>
      /\ welcomed \in [Emails -> SUBSET Passwords] /\ password \in [Emails -> Passwords \cup {NoPw}]
  BY FinishMoves DEF MailLink, At, Making, Pending, AInv, TypeOK
<1>1. PICK e \in Emails, k \in Links : e = req[r].email /\ k = req[r].link /\ Exists(e)
  BY <1>0 DEF AInv, ReqsOK, RequestOK
<1>2. NoNewWinner
  BY <1>0, MovesWin
<1>3. Promised!Mailed(e)
  <2>1. \A f \in Emails : k \notin inbox[f]
    BY <1>0, <1>1 DEF AInv, PendingFresh
  <2>2. UNCHANGED inbox \/ inbox' = [inbox EXCEPT ![e] = @ \cup {k}]
    BY <1>1 DEF MailLink
  <2> QED
    BY <2>1, <2>2 DEF Promised!Mailed
<1>4. CASE req[r].op = "signup"
  <2>1. Winner(r) /\ req[r].pw = password[e] /\ welcomed[e] = {}
    BY <1>0, <1>1, <1>4 DEF Winner, AInv, ReqsOK, RequestOK, WInv
  <2>2. welcomed' = [welcomed EXCEPT ![e] = {password[e]}]
    <3>1. welcomed' = [welcomed EXCEPT ![e] = welcomed[e] \cup {req[r].pw}]
      BY <1>1, <1>4 DEF MailLink
    <3> QED
      BY <2>1, <3>1
  <2>3. Promised!Welcome(e)
    BY <1>0, <1>1, <1>3, <2>1, <2>2 DEF Promised!Welcome, Exists
  <2>4. WInv'
    <3> SUFFICES ASSUME NEW p \in Reqs, Winner(p)'
                 PROVE  /\ welcomed'[req'[p].email] = {}
                        /\ \A x \in Reqs : Winner(x)' /\ req'[x].email = req'[p].email => x = p
      BY DEF WInv
    <3>1. p # r /\ Winner(p) /\ req'[p].email = req[p].email
      BY <1>0, <1>2 DEF NoNewWinner, MovesOn, Winner
    <3>2. req[p].email # e /\ welcomed[req[p].email] = {}
      BY <1>1, <2>1, <3>1 DEF WInv
    <3>3. req[p].email \in Emails
      BY <3>1 DEF Winner, AInv, ReqsOK, RequestOK, Making
    <3> QED
      BY <1>0, <1>2, <2>2, <3>1, <3>2, <3>3 DEF WInv, NoNewWinner
  <2> QED
    BY <2>3, <2>4 DEF Implements, Promised!Next
<1>5. CASE req[r].op # "signup"
  <2>1. UNCHANGED welcomed
    BY <1>5 DEF MailLink
  <2>2. Promised!Invite(e)
    BY <1>0, <1>1, <1>3, <2>1 DEF Promised!Invite, Exists
  <2> QED
    BY <1>2, <2>1, <2>2, NoNewWinnerKeeps DEF Implements, Promised!Next
<1> QED
  BY <1>4, <1>5

\* A link stands for one account at most: the UPDATE verifies the account of the
\* mailbox that the link came from.
LEMMA VerifyImplements ==
  ASSUME AInv, WInv, NEW r \in Reqs, VerifyUpdate(r)
  PROVE  WInv' /\ Implements
<1>0. /\ req[r].op = "verify" /\ UNCHANGED <<password, inbox, followed, welcomed>>
  BY DEF VerifyUpdate, At
<1>1. NoNewWinner
  <2>1. \E pc \in {"unlink", "done"} : MovesOn(r, pc)
    BY GotoMoves, FinishMoves DEF VerifyUpdate, AInv
  <2> QED
    BY <2>1, MovesWin
<1>2. UNCHANGED verified \/ \E e \in Emails : Exists(e) /\ e \in followed /\ verified' = verified \cup {e}
  <2>1. CASE Holders(req[r].link) # {} /\ verified' = verified \cup Holders(req[r].link)
    <3>1. PICK e \in Emails : e \in Holders(req[r].link)
      BY <2>1 DEF Holders
    <3>2. req[r].link # NoLink /\ verify[e] = req[r].link /\ Exists(e) /\ req[r].link \in Links
      BY <3>1 DEF Holders, AInv, TypeOK
    <3>3. e \in followed
      BY <1>0, <3>1, <3>2, HoldersFollowed
    <3>4. Holders(req[r].link) = {e}
      BY <3>1, <3>2 DEF Holders, AInv, OneOwner, CarriedBy
    <3> QED
      BY <2>1, <3>2, <3>3, <3>4
  <2>2. UNCHANGED verified \/ (Holders(req[r].link) # {} /\ verified' = verified \cup Holders(req[r].link))
    BY DEF VerifyUpdate
  <2> QED
    BY <2>1, <2>2
<1>3. Implements
  BY <1>0, <1>2 DEF Implements, Promised!Next, Promised!Confirm, Promised!vars, Exists
<1> QED
  BY <1>0, <1>1, <1>3, NoNewWinnerKeeps

LEMMA QuietImplements ==
  ASSUME AInv, WInv, NEW r \in Reqs, ResendRead(r) \/ UpsertLink(r) \/ VerifyUnlink(r) \/ Reply(r)
  PROVE  WInv' /\ Implements
<1>1. UNCHANGED <<password, verified, inbox, followed, welcomed>>
  BY DEF ResendRead, UpsertLink, VerifyUnlink, Reply, linkVars
<1>2. CASE ResendRead(r)
  <2>1. req[r].op = "resend" /\ \E pc \in {"upsert", "done"} : MovesOn(r, pc)
    BY <1>2, GotoMoves, FinishMoves DEF ResendRead, At, AInv
  <2> QED
    BY <1>1, <2>1, MovesWin, HiddenStep
<1>3. CASE UpsertLink(r)
  <2>1. /\ req[r].op \in {"signup", "resend"} /\ req[r].pc = "upsert"
        /\ \E pc \in {"mail", "done"} : MovesOn(r, pc)
    BY <1>3, GotoMoves, FinishMoves DEF UpsertLink, At, AInv
  <2>2. req[r].op = "signup" => Winner(r)
    BY <2>1 DEF Winner
  <2> QED
    BY <1>1, <2>1, <2>2, MovesWin, HiddenStep
<1>4. CASE VerifyUnlink(r)
  <2>1. MovesOn(r, "done")
    BY <1>4, FinishMoves DEF VerifyUnlink, AInv
  <2> QED
    BY <1>1, <2>1, MovesWin, HiddenStep
<1>5. CASE Reply(r)
  <2>1. Idle.op = "none" /\ req \in [Reqs -> Request]
    BY DEF Idle, AInv, TypeOK
  <2>2. NoNewWinner
    BY <1>5, <2>1 DEF Reply, NoNewWinner, Winner
  <2> QED
    BY <1>1, <2>2, HiddenStep
<1> QED
  BY <1>2, <1>3, <1>4, <1>5

LEMMA EnvironmentImplements ==
  ASSUME AInv, WInv, (\E e \in Emails : Expire(e)) \/ Crash \/ UNCHANGED vars
  PROVE  WInv' /\ Implements
<1>1. UNCHANGED <<password, verified, inbox, followed, welcomed>>
  BY DEF Expire, Crash, vars, linkVars
<1>2. NoNewWinner
  <2>1. CASE UNCHANGED req
    BY <2>1 DEF NoNewWinner, Winner
  <2>2. CASE Crash
    <3>1. Idle.op = "none"
      BY DEF Idle
    <3> QED
      BY <2>2, <3>1 DEF Crash, NoNewWinner, Winner
  <2> QED
    BY <2>1, <2>2 DEF Expire, vars
<1> QED
  BY <1>1, <1>2, HiddenStep

LEMMA NextImplements == AInv /\ WInv /\ [Next]_vars => WInv' /\ Implements
<1> SUFFICES ASSUME AInv, WInv, [Next]_vars PROVE WInv' /\ Implements
  OBVIOUS
<1>1. CASE \E r \in Reqs : (\E e \in Emails : SignUpStart(r, e) \/ ResendStart(r, e)) \/ VerifyStart(r)
  BY <1>1, StartImplements
<1>2. CASE \E r \in Reqs : SignUpInsert(r) \/ MailLink(r) \/ VerifyUpdate(r)
  BY <1>2, InsertImplements, MailImplements, VerifyImplements
<1>3. CASE \E r \in Reqs : ResendRead(r) \/ UpsertLink(r) \/ VerifyUnlink(r) \/ Reply(r)
  BY <1>3, QuietImplements
<1>4. CASE (\E e \in Emails : Expire(e)) \/ Crash \/ UNCHANGED vars
  BY <1>4, EnvironmentImplements
<1> QED
  BY <1>1, <1>2, <1>3, <1>4, Zenon DEF Next

\* Whatever races, fails, is repeated or crashes, owners of mailboxes see one
\* account for an address, one welcome for it, links that nobody else gets, and
\* a verification that they asked for.
THEOREM AccountsImplementRegistration == Spec => ImplementsRegistration
<1>1. Init => WInv /\ Promised!Init
  BY DEF Init, WInv, Winner, Idle, Promised!Init
<1>2. Spec => []WInv
  BY <1>1, NextImplements, AccountsInvariant, PTL DEF Spec
<1>3. AInv /\ WInv /\ [Next]_vars => [Promised!Next]_(Promised!vars)
  BY NextImplements DEF Implements
<1> QED
  BY <1>1, <1>2, <1>3, AccountsInvariant, PTL DEF Spec, ImplementsRegistration, Promised!Spec
=============================================================================
