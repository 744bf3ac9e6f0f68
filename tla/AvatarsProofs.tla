---------------------------- MODULE AvatarsProofs ----------------------------
(***************************************************************************)
(* Avatars are served, never half seen and not left behind without a cause,*)
(* for any users, files, requests and faults.                              *)
(***************************************************************************)
EXTENDS Avatars, TLAPS

USE AvatarAssumption

-----------------------------------------------------------------------------
(***************************************************************************)
(* The inductive invariant.  Until a file is in the row of its uploader    *)
(* only the upload that writes it knows its name (FreshOK), so an upload   *)
(* puts a file into a row once, and nobody knows the name of a file that   *)
(* is not complete (KnownWhole).  So what an upload removes at its end is  *)
(* in no row that an upload wrote, unless the row is another user's and    *)
(* named the file already when the upload read its own (SafeToRemove).     *)
(***************************************************************************)
Mentions(r, f) == req[r].old = f \/ req[r].new = f
Named(f) == f \in known \/ \E u \in Users : avatar[u] = f

RequestOK(r) ==
  /\ req[r].op \in {"upload", "profile"} => req[r].user \in Users
  /\ req[r].op \in {"none", "view"} => req[r].user = "nobody"
  /\ req[r].op = "view" => req[r].new \in Files
  /\ req[r].op = "upload" =>
       /\ \/ req[r].pc \in {"copy", "update", "undo", "delete"}
          \/ req[r].pc = "done" /\ req[r].status = 200
          => req[r].new \in Files
       /\ req[r].pc \in {"read", "create"} => req[r].new = NoFile

ReqsOK == \A r \in Reqs : RequestOK(r)

FreshOK ==
  \A r \in Reqs : req[r].op = "upload" /\ req[r].pc \in {"copy", "update"} =>
    /\ req[r].old # req[r].new
    /\ ~Named(req[r].new)
    /\ \A p \in Reqs \ {r} : ~Mentions(p, req[r].new)

SafeToRemove ==
  \A r \in Reqs : \A u \in Users : req[r].op = "upload" /\ source[u] = "upload" =>
    /\ req[r].pc = "undo" => avatar[u] # req[r].new
    /\ (req[r].pc = "delete" \/ req[r].user # u) /\ avatar[u] = req[r].old => avatar[u] \in claimed

\* An upload that failed may leave a file that only it has known.
MayBePartial(r) ==
  req[r].op = "upload" /\ (req[r].pc = "copy" \/ (req[r].pc = "done" /\ req[r].status # 200))
KnownWhole ==
  \A f \in Files : files[f] = "partial" =>
    /\ ~Named(f)
    /\ \A r \in Reqs : req[r].old # f /\ (req[r].new = f => MayBePartial(r))

UploadNamesFile == \A u \in Users : source[u] = "upload" => avatar[u] \in Files

BInv == /\ TypeOK /\ ReqsOK /\ FreshOK /\ SafeToRemove /\ KnownWhole
        /\ UploadNamesFile /\ AvatarServed

LEMMA InitBInv == Init => BInv
<1> SUFFICES ASSUME Init PROVE BInv
  OBVIOUS
<1>1. TypeOK
  BY DEF Init, TypeOK, Idle, Request, Avatar, At
<1>2. ReqsOK /\ FreshOK /\ SafeToRemove
  BY DEF Init, ReqsOK, RequestOK, FreshOK, SafeToRemove, Idle
<1>4. KnownWhole /\ UploadNamesFile /\ AvatarServed
  BY DEF Init, KnownWhole, UploadNamesFile, AvatarServed
<1> QED
  BY <1>1, <1>2, <1>4 DEF BInv

LEMMA BInvImplies == BInv => TypeOK /\ AvatarServed /\ ViewedIsWhole
  BY DEF BInv, KnownWhole, MayBePartial, ReqsOK, RequestOK, ViewedIsWhole

-----------------------------------------------------------------------------
(***************************************************************************)
(* Steps that touch no table and no file                                   *)
(***************************************************************************)
Others(r) == req' \in [Reqs -> Request] /\ \A p \in Reqs \ {r} : req'[p] = req[p]
MovesOn(r, pc) ==
  /\ Others(r)
  /\ req'[r].pc = pc
  /\ req'[r].op = req[r].op /\ req'[r].user = req[r].user
  /\ req'[r].old = req[r].old /\ req'[r].new = req[r].new

LEMMA GotoMoves ==
  ASSUME TypeOK, NEW r \in Reqs,
         NEW pc \in {"create", "copy", "update", "undo", "delete", "stat", "send", "done"}, Goto(r, pc)
  PROVE  MovesOn(r, pc) /\ req'[r].status = req[r].status
<1>1. req \in [Reqs -> Request]
  BY DEF TypeOK
<1>2. req' = [req EXCEPT ![r] = [req[r] EXCEPT !.pc = pc]]
  BY DEF Goto
<1>3. [req[r] EXCEPT !.pc = pc] \in Request
  BY <1>1 DEF Request
<1> QED
  BY <1>1, <1>2, <1>3 DEF MovesOn, Others, Request

\* The two fields that Finish sets.
Ended(q, status) == [[q EXCEPT !.pc = "done"] EXCEPT !.status = status]

LEMMA EndedRequest ==
  ASSUME NEW q \in Request, NEW status \in {200, 404, 422, 500}
  PROVE  /\ Ended(q, status) \in Request
         /\ Ended(q, status).pc = "done" /\ Ended(q, status).status = status
         /\ Ended(q, status).op = q.op /\ Ended(q, status).user = q.user
         /\ Ended(q, status).old = q.old /\ Ended(q, status).new = q.new
<1> DEFINE x == [q EXCEPT !.pc = "done"]
<1> DEFINE y == [x EXCEPT !.status = status]
<1>1. x \in Request /\ x.pc = "done" /\ x.op = q.op /\ x.user = q.user /\ x.old = q.old /\ x.new = q.new
  BY DEF Request
<1>2. Ended(q, status) = y
  BY Zenon DEF Ended
<1> HIDE DEF x
<1>3. /\ y \in Request /\ y.pc = x.pc /\ y.status = status
      /\ y.op = x.op /\ y.user = x.user /\ y.old = x.old /\ y.new = x.new
  BY <1>1 DEF Request
<1> HIDE DEF y
<1> QED
  BY <1>1, <1>2, <1>3

LEMMA FinishMoves ==
  ASSUME TypeOK, NEW r \in Reqs, NEW status \in {200, 404, 422, 500}, Finish(r, status)
  PROVE  MovesOn(r, "done") /\ req'[r].status = status
<1>1. req' = [req EXCEPT ![r] = Ended(req[r], status)]
  BY Zenon DEF Finish, Ended
<1>2. req \in [Reqs -> Request]
  BY DEF TypeOK
<1> QED
  BY <1>1, <1>2, EndedRequest DEF MovesOn, Others

Tables == <<avatar, files, known, source, claimed>>

\* A request moves on, and not to a statement that writes or removes a file.
LEMMA QuietMove ==
  ASSUME BInv, NEW r \in Reqs, NEW pc \in {"stat", "send", "done"}, MovesOn(r, pc),
         req[r].op = "upload" => pc = "done" /\ (req'[r].status # 200 \/ req[r].pc \in {"undo", "delete"}),
         UNCHANGED Tables, excused' \subseteq Users
  PROVE  BInv'
<1>0. UNCHANGED <<avatar, files, known, source, claimed>>
  BY DEF Tables
<1>1. \A p \in Reqs : req'[p].user = req[p].user /\ req'[p].old = req[p].old /\ req'[p].new = req[p].new
  BY DEF MovesOn, Others
<1>2. \A f : Named(f)' <=> Named(f)
  BY <1>0 DEF Named
<1>3. \A p \in Reqs : \A f : Mentions(p, f)' <=> Mentions(p, f)
  BY <1>1 DEF Mentions
<1>4. \A p \in Reqs : req'[p].op = "upload" /\ req'[p].pc # "done" => req'[p] = req[p]
  BY DEF MovesOn, Others
<1>5. TypeOK'
  BY <1>0, <1>4 DEF BInv, TypeOK, At, MovesOn, Others
<1>6. ReqsOK'
  BY DEF BInv, ReqsOK, RequestOK, MovesOn, Others
<1>8. FreshOK'
  BY <1>2, <1>3, <1>4 DEF BInv, FreshOK
<1>9. SafeToRemove'
  BY <1>0, <1>1, <1>4 DEF BInv, SafeToRemove, MovesOn, Others
<1>10. KnownWhole'
  <2> SUFFICES ASSUME NEW f \in Files, files[f] = "partial"
               PROVE  /\ ~Named(f)
                      /\ \A p \in Reqs : req[p].old # f /\ (req[p].new = f => MayBePartial(p)')
    BY <1>0, <1>1, <1>2 DEF KnownWhole
  <2>1. /\ ~Named(f)
        /\ \A p \in Reqs : req[p].old # f /\ (req[p].new = f => MayBePartial(p))
    BY DEF BInv, KnownWhole
  <2>2. MayBePartial(r) => MayBePartial(r)'
    BY DEF MayBePartial, MovesOn
  <2>3. \A p \in Reqs \ {r} : MayBePartial(p) => MayBePartial(p)'
    BY DEF MayBePartial, MovesOn, Others
  <2> QED
    BY <2>1, <2>2, <2>3
<1>11. UploadNamesFile' /\ AvatarServed'
  BY <1>0 DEF BInv, UploadNamesFile, AvatarServed
<1> QED
  BY <1>5, <1>6, <1>8, <1>9, <1>10, <1>11 DEF BInv

\* A request begins, or goes on with files that somebody knows.
LEMMA QuietBegin ==
  ASSUME BInv, NEW r \in Reqs, NEW q \in Request, req' = [req EXCEPT ![r] = q],
         q.op = "upload" => q.pc \in {"read", "create"} /\ q.user \in Users /\ q.new = NoFile,
         q.op = "profile" => q.user \in Users,
         q.op \in {"none", "view"} => q.user = "nobody",
         q.op = "view" => q.new \in Files,
         \A f \in Files : q.old = f \/ q.new = f => Named(f),
         q.op = "upload" => \A u \in Users \ {q.user} :
           source[u] = "upload" /\ avatar[u] = q.old => avatar[u] \in claimed',
         UNCHANGED <<avatar, files, known, source>>,
         claimed \subseteq claimed', claimed' \subseteq Files, excused' \subseteq Users
  PROVE  BInv'
<1>0. UNCHANGED <<avatar, files, known, source>>
  OBVIOUS
<1>1. Others(r) /\ req'[r] = q
  BY DEF Others, BInv, TypeOK
<1>2. \A f : Named(f)' <=> Named(f)
  BY <1>0 DEF Named
<1>3. \A p \in Reqs \ {r} : \A f : Mentions(p, f)' <=> Mentions(p, f)
  BY <1>1 DEF Mentions, Others
<1>4. \A f \in Files : Mentions(r, f)' => Named(f)
  BY <1>1 DEF Mentions
<1>5. TypeOK'
  BY <1>0, <1>1 DEF BInv, TypeOK, At, Others
<1>6. ReqsOK'
  BY <1>1 DEF BInv, ReqsOK, RequestOK, Others
<1>9. FreshOK'
  <2> SUFFICES ASSUME NEW p \in Reqs, req'[p].op = "upload", req'[p].pc \in {"copy", "update"},
                      NEW f, f = req'[p].new
               PROVE  /\ req'[p].old # f
                      /\ ~Named(f)'
                      /\ \A s \in Reqs \ {p} : ~Mentions(s, f)'
    BY DEF FreshOK, Named, Mentions
  <2>1. p # r /\ req'[p] = req[p]
    BY <1>1 DEF Others
  <2>2. /\ req[p].old # f
        /\ ~Named(f)
        /\ \A s \in Reqs \ {p} : ~Mentions(s, f)
    BY <2>1 DEF BInv, FreshOK
  <2>3. f \in Files
    BY <2>1 DEF BInv, ReqsOK, RequestOK
  <2>4. ~Mentions(r, f)'
    BY <1>4, <2>2, <2>3
  <2> QED
    BY <1>2, <1>3, <2>1, <2>2, <2>4
<1>10. SafeToRemove'
  BY <1>0, <1>1 DEF BInv, SafeToRemove, Others
<1>11. KnownWhole'
  <2> SUFFICES ASSUME NEW f \in Files, files[f] = "partial"
               PROVE  /\ ~Named(f)
                      /\ \A p \in Reqs : req'[p].old # f /\ (req'[p].new = f => MayBePartial(p)')
    BY <1>0, <1>2 DEF KnownWhole
  <2>1. /\ ~Named(f)
        /\ \A p \in Reqs : req[p].old # f /\ (req[p].new = f => MayBePartial(p))
    BY DEF BInv, KnownWhole
  <2>2. ~Mentions(r, f)'
    BY <1>4, <2>1
  <2>3. \A p \in Reqs \ {r} : req'[p] = req[p] /\ (MayBePartial(p) => MayBePartial(p)')
    BY <1>1 DEF MayBePartial, Others
  <2> QED
    BY <2>1, <2>2, <2>3 DEF Mentions
<1>12. UploadNamesFile' /\ AvatarServed'
  BY <1>0 DEF BInv, UploadNamesFile, AvatarServed
<1> QED
  BY <1>5, <1>6, <1>9, <1>10, <1>11, <1>12 DEF BInv

-----------------------------------------------------------------------------
LEMMA UploadStartKeeps ==
  ASSUME BInv, NEW r \in Reqs, NEW u \in Users, UploadStart(r, u)
  PROVE  BInv'
<1> DEFINE q == [Idle EXCEPT !.op = "upload", !.pc = "read", !.user = u]
<1>1. req' = [req EXCEPT ![r] = q]
  BY Zenon DEF UploadStart
<1>2. q \in Request
  BY DEF Request, Idle, Avatar
<1>3. q.op = "upload" /\ q.pc = "read" /\ q.user = u /\ q.old = NoFile /\ q.new = NoFile
  BY DEF Idle
<1> HIDE DEF q
<1>4. UNCHANGED <<avatar, files, known, source, claimed>> /\ excused' \subseteq Users /\ claimed \subseteq Files
  BY DEF UploadStart, BInv, TypeOK
<1>5. \A v \in Users : source[v] = "upload" => avatar[v] # NoFile
  BY DEF BInv, UploadNamesFile
<1> QED
  BY <1>1, <1>2, <1>3, <1>4, <1>5, QuietBegin

LEMMA UploadReadKeeps ==
  ASSUME BInv, NEW r \in Reqs, UploadRead(r)
  PROVE  BInv'
<1>1. req[r].op = "upload" /\ req[r].pc = "read" /\ req[r] \in Request
  BY DEF UploadRead, At, BInv, TypeOK
<1>2. PICK u \in Users : u = req[r].user
  BY <1>1 DEF BInv, ReqsOK, RequestOK
<1>3. PICK a \in Avatar : a = avatar[u]
  BY DEF BInv, TypeOK
<1>4. UNCHANGED <<avatar, files, known, source>> /\ excused' \subseteq Users
  BY DEF UploadRead, BInv, TypeOK
<1>5. CASE /\ req' = [req EXCEPT ![r] = [[@ EXCEPT !.pc = "create"] EXCEPT !.old = avatar[req[r].user]]]
           /\ claimed' = claimed \cup Shared(req[r].user)
  <2> DEFINE x == [req[r] EXCEPT !.pc = "create"]
  <2> DEFINE q == [x EXCEPT !.old = a]
  <2>1. req' = [req EXCEPT ![r] = q]
    BY <1>2, <1>3, <1>5, Zenon
  <2>2. x \in Request /\ x.op = "upload" /\ x.pc = "create" /\ x.user = u /\ x.new = NoFile
    BY <1>1, <1>2 DEF Request, BInv, ReqsOK, RequestOK
  <2> HIDE DEF x
  <2>3. q \in Request /\ q.op = "upload" /\ q.pc = "create" /\ q.user = u /\ q.new = NoFile /\ q.old = a
    BY <2>2 DEF Request
  <2> HIDE DEF q
  <2>4. Named(a)
    BY <1>3 DEF Named
  <2>5. /\ claimed \subseteq claimed' /\ claimed' \subseteq Files
        /\ \A v \in Users \ {u} : source[v] = "upload" /\ avatar[v] = a => avatar[v] \in claimed'
    BY <1>2, <1>3, <1>5 DEF Shared, BInv, TypeOK, UploadNamesFile
  <2> QED
    BY <1>4, <2>1, <2>3, <2>4, <2>5, QuietBegin
<1>6. CASE Finish(r, 404) /\ UNCHANGED claimed
  <2>1. MovesOn(r, "done") /\ req'[r].status = 404
    BY <1>6, FinishMoves DEF BInv
  <2>2. UNCHANGED Tables
    BY <1>4, <1>6 DEF Tables
  <2> QED
    BY <1>1, <1>4, <2>1, <2>2, QuietMove
<1> QED
  BY <1>5, <1>6 DEF UploadRead

LEMMA ProfileStartKeeps ==
  ASSUME BInv, NEW r \in Reqs, NEW u \in Users, ProfileStart(r, u)
  PROVE  BInv'
<1>1. PICK a \in known \cup {NoFile, Foreign} :
        req' = [req EXCEPT ![r] = [Idle EXCEPT !.op = "profile", !.pc = "update", !.user = u, !.new = a]]
  BY DEF ProfileStart
<1> DEFINE q == [Idle EXCEPT !.op = "profile", !.pc = "update", !.user = u, !.new = a]
<1>2. a \in Avatar
  BY DEF BInv, TypeOK, Avatar
<1>3. q \in Request
  BY <1>2 DEF Request, Idle, Avatar
<1>4. q.op = "profile" /\ q.user = u /\ q.old = NoFile /\ q.new = a
  BY DEF Idle
<1>5. req' = [req EXCEPT ![r] = q]
  BY <1>1, Zenon
<1> HIDE DEF q
<1>6. UNCHANGED <<avatar, files, known, source, claimed>> /\ excused' \subseteq Users /\ claimed \subseteq Files
  BY DEF ProfileStart, BInv, TypeOK
<1>7. a \in Files => Named(a)
  BY DEF Named
<1> QED
  BY <1>3, <1>4, <1>5, <1>6, <1>7, QuietBegin

LEMMA ViewStartKeeps ==
  ASSUME BInv, NEW r \in Reqs, ViewStart(r)
  PROVE  BInv'
<1>0. PICK f \in known :
        req' = [req EXCEPT ![r] = [Idle EXCEPT !.op = "view", !.pc = "stat", !.new = f]]
  BY Zenon DEF ViewStart
<1>7. f \in Files
  BY DEF BInv, TypeOK
<1> DEFINE q == [Idle EXCEPT !.op = "view", !.pc = "stat", !.new = f]
<1>2. q \in Request
  BY <1>7 DEF Request, Idle, Avatar
<1>3. q.op = "view" /\ q.user = "nobody" /\ q.old = NoFile /\ q.new = f
  BY DEF Idle
<1>4. req' = [req EXCEPT ![r] = q]
  BY <1>0, Zenon
<1> HIDE DEF q
<1>5. UNCHANGED <<avatar, files, known, source, claimed>> /\ excused' \subseteq Users /\ claimed \subseteq Files
  BY DEF ViewStart, BInv, TypeOK
<1>6. Named(f)
  BY DEF Named
<1> QED
  BY <1>2, <1>3, <1>4, <1>5, <1>6, <1>7, QuietBegin

LEMMA ViewStepKeeps ==
  ASSUME BInv, NEW r \in Reqs, ViewStat(r) \/ ViewSend(r)
  PROVE  BInv'
<1>1. req[r].op = "view"
  BY DEF ViewStat, ViewSend, At
<1>2. UNCHANGED Tables /\ excused' \subseteq Users
  BY DEF ViewStat, ViewSend, Tables, BInv, TypeOK
<1>3. Goto(r, "send") \/ \E status \in {200, 404, 500} : Finish(r, status)
  BY DEF ViewStat, ViewSend
<1>4. \E pc \in {"send", "done"} : MovesOn(r, pc)
  BY <1>3, GotoMoves, FinishMoves DEF BInv
<1> QED
  BY <1>1, <1>2, <1>4, QuietMove

LEMMA CrashKeeps ==
  ASSUME BInv, Crash
  PROVE  BInv'
<1>1. \A r \in Reqs : req'[r] = Idle
  BY DEF Crash
<1>2. /\ Idle \in Request /\ Idle.op = "none" /\ Idle.pc = "idle" /\ Idle.user = "nobody"
      /\ Idle.old = NoFile /\ Idle.new = NoFile
  BY DEF Idle, Request, Avatar
<1>3. UNCHANGED <<avatar, files, known, source, claimed>>
  BY DEF Crash
<1>4. excused' \subseteq Users
  BY DEF Crash, BInv, TypeOK, ReqsOK, RequestOK
<1>5. TypeOK'
  BY <1>1, <1>2, <1>3, <1>4 DEF Crash, BInv, TypeOK, At
<1>6. ReqsOK' /\ FreshOK' /\ SafeToRemove'
  BY <1>1, <1>2 DEF ReqsOK, RequestOK, FreshOK, SafeToRemove
<1>7. KnownWhole'
  BY <1>1, <1>2, <1>3 DEF BInv, Named, KnownWhole
<1>8. UploadNamesFile' /\ AvatarServed'
  BY <1>3 DEF BInv, UploadNamesFile, AvatarServed
<1> QED
  BY <1>5, <1>6, <1>7, <1>8 DEF BInv

-----------------------------------------------------------------------------
(***************************************************************************)
(* The steps of an upload that write files or the row                      *)
(***************************************************************************)
LEMMA Creates ==
  ASSUME BInv, NEW r \in Reqs, NEW u \in Users, NEW f \in FreeFiles, NEW q \in Request,
         req[r].op = "upload", req[r].pc = "create", req[r].user = u,
         q.op = "upload", q.pc = "copy", q.user = u, q.old = req[r].old, q.new = f,
         req' = [req EXCEPT ![r] = q], files' = [files EXCEPT ![f] = "partial"],
         UNCHANGED <<avatar, known, source, claimed, excused>>
  PROVE  BInv'
<1>1. Others(r) /\ req'[r] = q
  BY DEF Others, BInv, TypeOK
<1>2. /\ f \in Files /\ ~Named(f)
      /\ \A p \in Reqs : ~Mentions(p, f)
  BY DEF FreeFiles, Named, Mentions
<1>3. /\ files' \in [Files -> {"absent", "partial", "complete"}] /\ files'[f] = "partial"
      /\ \A g \in Files \ {f} : files'[g] = files[g]
  BY <1>2 DEF BInv, TypeOK
<1>4. \A g : Named(g)' <=> Named(g)
  BY DEF Named
<1>5. /\ \A p \in Reqs \ {r} : \A g : Mentions(p, g)' <=> Mentions(p, g)
      /\ \A g : Mentions(r, g)' => Mentions(r, g) \/ g = f
  BY <1>1 DEF Mentions, Others
<1>6. \A p \in Reqs : req[p].op = "upload" /\ req[p].pc \in {"copy", "update"} => req[p].new \in Files \ {f}
  BY <1>2 DEF BInv, ReqsOK, RequestOK, Mentions
<1>7. TypeOK'
  BY <1>1, <1>3, <1>6 DEF BInv, TypeOK, At, Others
<1>8. ReqsOK'
  BY <1>1, <1>2 DEF BInv, ReqsOK, RequestOK, Others
<1>12. FreshOK'
  <2> SUFFICES ASSUME NEW p \in Reqs, req'[p].op = "upload", req'[p].pc \in {"copy", "update"},
                      NEW g, g = req'[p].new
               PROVE  /\ req'[p].old # g
                      /\ ~Named(g)'
                      /\ \A s \in Reqs \ {p} : ~Mentions(s, g)'
    BY DEF FreshOK, Named, Mentions
  <2>1. CASE p = r
    BY <1>1, <1>2, <1>4, <1>5, <2>1 DEF Mentions
  <2>2. CASE p # r
    <3>1. req'[p] = req[p] /\ g \in Files \ {f}
      BY <1>1, <1>6, <2>2 DEF Others
    <3>2. /\ req[p].old # g
          /\ ~Named(g)
          /\ \A s \in Reqs \ {p} : ~Mentions(s, g)
      BY <3>1 DEF BInv, FreshOK
    <3> QED
      BY <1>4, <1>5, <3>1, <3>2
  <2> QED
    BY <2>1, <2>2
<1>13. SafeToRemove'
  BY <1>1 DEF BInv, SafeToRemove, Others
<1>14. KnownWhole'
  <2> SUFFICES ASSUME NEW g \in Files, files'[g] = "partial"
               PROVE  /\ ~Named(g)
                      /\ \A p \in Reqs : req'[p].old # g /\ (req'[p].new = g => MayBePartial(p)')
    BY <1>4 DEF KnownWhole
  <2>1. MayBePartial(r)'
    BY <1>1 DEF MayBePartial
  <2>2. \A p \in Reqs \ {r} : req'[p] = req[p] /\ (MayBePartial(p) => MayBePartial(p)')
    BY <1>1 DEF MayBePartial, Others
  <2>3. CASE g = f
    BY <1>1, <1>2, <2>1, <2>2, <2>3 DEF Mentions
  <2>4. CASE g # f
    <3>1. /\ ~Named(g)
          /\ \A p \in Reqs : req[p].old # g /\ (req[p].new = g => MayBePartial(p))
      BY <1>3, <2>4 DEF BInv, KnownWhole
    <3> QED
      BY <1>1, <2>1, <2>2, <2>4, <3>1
  <2> QED
    BY <2>3, <2>4
<1>15. UploadNamesFile'
  BY DEF BInv, UploadNamesFile
<1>16. AvatarServed'
  BY <1>2, <1>3 DEF BInv, AvatarServed, UploadNamesFile, Named
<1> QED
  BY <1>7, <1>8, <1>12, <1>13, <1>14, <1>15, <1>16 DEF BInv

LEMMA UploadCreateKeeps ==
  ASSUME BInv, NEW r \in Reqs, UploadCreate(r)
  PROVE  BInv'
<1>1. /\ req[r].op = "upload" /\ req[r].pc = "create" /\ req[r] \in Request
      /\ UNCHANGED <<avatar, known, source, claimed, excused>>
  BY DEF UploadCreate, At, BInv, TypeOK
<1>2. PICK u \in Users : u = req[r].user
  BY <1>1 DEF BInv, ReqsOK, RequestOK
<1>3. CASE \E f \in FreeFiles :
             /\ files' = [files EXCEPT ![f] = "partial"]
             /\ req' = [req EXCEPT ![r] = [[@ EXCEPT !.pc = "copy"] EXCEPT !.new = f]]
  <2>1. PICK f \in FreeFiles :
             /\ files' = [files EXCEPT ![f] = "partial"]
             /\ req' = [req EXCEPT ![r] = [[@ EXCEPT !.pc = "copy"] EXCEPT !.new = f]]
    BY <1>3
  <2> DEFINE x == [req[r] EXCEPT !.pc = "copy"]
  <2> DEFINE q == [x EXCEPT !.new = f]
  <2>2. req' = [req EXCEPT ![r] = q]
    BY <2>1, Zenon
  <2>3. x \in Request /\ x.op = "upload" /\ x.pc = "copy" /\ x.user = u /\ x.old = req[r].old
    BY <1>1, <1>2 DEF Request
  <2>4. f \in Avatar
    BY DEF FreeFiles, Avatar
  <2> HIDE DEF x
  <2>5. q \in Request /\ q.op = "upload" /\ q.pc = "copy" /\ q.user = u /\ q.old = req[r].old /\ q.new = f
    BY <2>3, <2>4 DEF Request
  <2> HIDE DEF q
  <2>6. PICK z \in Request : z = q
    BY <2>5
  <2>7. req' = [req EXCEPT ![r] = z] /\ z.op = "upload" /\ z.pc = "copy" /\ z.user = u
        /\ z.old = req[r].old /\ z.new = f
    BY <2>2, <2>5, <2>6
  <2>8. files' = [files EXCEPT ![f] = "partial"]
    BY <2>1
  <2> QED
    BY <1>1, <1>2, <2>7, <2>8, Creates
<1>4. CASE Finish(r, 422) /\ UNCHANGED files
  <2>1. MovesOn(r, "done") /\ req'[r].status = 422
    BY <1>4, FinishMoves DEF BInv
  <2>2. UNCHANGED Tables /\ excused' \subseteq Users
    BY <1>1, <1>4 DEF Tables, BInv, TypeOK
  <2> QED
    BY <1>1, <2>1, <2>2, QuietMove
<1> QED
  BY <1>3, <1>4 DEF UploadCreate

\* An upload completes its file, or removes one of the two that it knows.
LEMMA WritesFile ==
  ASSUME BInv, NEW r \in Reqs, NEW pc, NEW k, MovesOn(r, pc),
         req[r].op = "upload", Mentions(r, k),
         \/ req[r].pc = "copy" /\ k = req[r].new /\ pc \in {"update", "done"}
         \/ req[r].pc \in {"undo", "delete"} /\ pc = "done",
         pc = "update" => files'[k] = "complete",
         files' \in [Files -> {"absent", "partial", "complete"}],
         \A g \in Files \ {k} : files'[g] = files[g],
         k \in Files => files'[k] # "partial",
         \A u \in Users : source[u] = "upload" /\ avatar[u] = k => k \in claimed,
         UNCHANGED <<avatar, known, source, claimed>>, excused' \subseteq Users
  PROVE  BInv'
<1>1. \A p \in Reqs : req'[p].user = req[p].user /\ req'[p].old = req[p].old /\ req'[p].new = req[p].new
  BY DEF MovesOn, Others
<1>2. \A f : Named(f)' <=> Named(f)
  BY DEF Named
<1>3. \A p \in Reqs : \A f : Mentions(p, f)' <=> Mentions(p, f)
  BY <1>1 DEF Mentions
<1>4. \A p \in Reqs \ {r} : req'[p] = req[p]
  BY DEF MovesOn, Others
<1>5. \A p \in Reqs \ {r} : req[p].op = "upload" /\ req[p].pc \in {"copy", "update"} =>
        req[p].new \in Files \ {k}
  BY DEF BInv, FreshOK, ReqsOK, RequestOK
<1>6. TypeOK'
  BY <1>4, <1>5 DEF BInv, TypeOK, At, MovesOn, Others
<1>7. ReqsOK'
  BY DEF BInv, ReqsOK, RequestOK, MovesOn, Others
<1>9. FreshOK'
  <2>1. \A p \in Reqs : req'[p].op = "upload" /\ req'[p].pc \in {"copy", "update"} =>
          req[p].op = "upload" /\ req[p].pc \in {"copy", "update"}
    BY <1>4 DEF MovesOn
  <2> QED
    BY <1>1, <1>2, <1>3, <2>1 DEF BInv, FreshOK
<1>10. SafeToRemove'
  BY <1>4 DEF BInv, SafeToRemove, MovesOn
<1>11. KnownWhole'
  <2> SUFFICES ASSUME NEW f \in Files, files'[f] = "partial"
               PROVE  /\ ~Named(f)
                      /\ \A p \in Reqs : req[p].old # f /\ (req[p].new = f => MayBePartial(p)')
    BY <1>1, <1>2 DEF KnownWhole
  <2>1. f # k /\ files[f] = "partial"
    OBVIOUS
  <2>2. /\ ~Named(f)
        /\ \A p \in Reqs : req[p].old # f /\ (req[p].new = f => MayBePartial(p))
    BY <2>1 DEF BInv, KnownWhole
  <2>3. req[r].new # f
    BY <2>1, <2>2 DEF MayBePartial
  <2>4. \A p \in Reqs \ {r} : MayBePartial(p) => MayBePartial(p)'
    BY <1>4 DEF MayBePartial
  <2> QED
    BY <2>2, <2>3, <2>4
<1>12. UploadNamesFile' /\ AvatarServed'
  BY DEF BInv, UploadNamesFile, AvatarServed
<1> QED
  BY <1>6, <1>7, <1>9, <1>10, <1>11, <1>12 DEF BInv

LEMMA UploadCopyKeeps ==
  ASSUME BInv, NEW r \in Reqs, UploadCopy(r)
  PROVE  BInv'
<1>1. req[r].op = "upload" /\ req[r].pc = "copy" /\ req \in [Reqs -> Request]
  BY DEF UploadCopy, At, BInv, TypeOK
<1>2. PICK k \in Files : k = req[r].new
  BY <1>1 DEF BInv, ReqsOK, RequestOK
<1>3. Mentions(r, k) /\ \A u \in Users : avatar[u] # k
  BY <1>1, <1>2 DEF Mentions, BInv, FreshOK, Named
<1>4. UNCHANGED <<avatar, known, source, claimed>>
  BY DEF UploadCopy
<1>5. excused' \subseteq Users
  BY <1>1 DEF UploadCopy, BInv, TypeOK, ReqsOK, RequestOK
<1>6. files \in [Files -> {"absent", "partial", "complete"}]
  BY DEF BInv, TypeOK
<1>7. CASE files' = [files EXCEPT ![req[r].new] = "complete"] /\ Goto(r, "update")
  <2>1. MovesOn(r, "update")
    BY <1>7, GotoMoves DEF BInv
  <2>2. /\ files' \in [Files -> {"absent", "partial", "complete"}] /\ files'[k] = "complete"
        /\ \A g \in Files \ {k} : files'[g] = files[g]
    BY <1>2, <1>6, <1>7
  <2> QED
    BY <1>1, <1>2, <1>3, <1>4, <1>5, <2>1, <2>2, WritesFile
<1>8. CASE req' = [req EXCEPT ![r] = AfterFailedCopy(@)] /\ (files' = Removed(req[r].new) \/ UNCHANGED files)
  <2>1. req' = [req EXCEPT ![r] = Ended(req[r], 422)]
    BY <1>8, Zenon DEF AfterFailedCopy, Ended
  <2>2. MovesOn(r, "done") /\ req'[r].status = 422
    BY <1>1, <2>1, EndedRequest DEF MovesOn, Others
  <2>3. CASE files' = Removed(req[r].new)
    <3>1. /\ files' \in [Files -> {"absent", "partial", "complete"}] /\ files'[k] = "absent"
          /\ \A g \in Files \ {k} : files'[g] = files[g]
      BY <1>2, <1>6, <2>3 DEF Removed
    <3> QED
      BY <1>1, <1>2, <1>3, <1>4, <1>5, <2>2, <3>1, WritesFile
  <2>4. CASE UNCHANGED files
    <3>1. UNCHANGED Tables
      BY <1>4, <2>4 DEF Tables
    <3> QED
      BY <1>5, <2>2, <3>1, QuietMove
  <2> QED
    BY <1>8, <2>3, <2>4
<1> QED
  BY <1>7, <1>8 DEF UploadCopy

LEMMA UploadDeleteKeeps ==
  ASSUME BInv, NEW r \in Reqs, UploadDelete(r)
  PROVE  BInv'
<1>1. req[r].op = "upload" /\ req[r].pc \in {"undo", "delete"}
  BY DEF UploadDelete, At
<1>2. PICK k : k = Outdated(r)
  OBVIOUS
<1>3. Mentions(r, k) /\ \A u \in Users : source[u] = "upload" /\ avatar[u] = k => k \in claimed
  BY <1>1, <1>2 DEF Mentions, Outdated, BInv, SafeToRemove
<1>4. UNCHANGED <<avatar, known, source, claimed>>
  BY DEF UploadDelete
<1>5. excused' \subseteq Users
  BY <1>1 DEF UploadDelete, BInv, TypeOK, ReqsOK, RequestOK
<1>6. MovesOn(r, "done")
  BY FinishMoves DEF UploadDelete, BInv
<1>7. CASE files' = Removed(k)
  <2>1. /\ files' \in [Files -> {"absent", "partial", "complete"}] /\ (k \in Files => files'[k] = "absent")
        /\ \A g \in Files \ {k} : files'[g] = files[g]
    BY <1>7 DEF Removed, BInv, TypeOK
  <2> QED
    BY <1>1, <1>3, <1>4, <1>5, <1>6, <2>1, WritesFile
<1>8. CASE UNCHANGED files
  <2>1. UNCHANGED Tables
    BY <1>4, <1>8 DEF Tables
  <2> QED
    BY <1>1, <1>5, <1>6, <2>1, QuietMove
<1> QED
  BY <1>2, <1>7, <1>8 DEF UploadDelete

-----------------------------------------------------------------------------
(***************************************************************************)
(* The steps that write the row                                            *)
(***************************************************************************)
\* The row gets what the request carries, by an upload that succeeds ("upload")
\* or does not know ("unsure"), or by PUT /profile.
LEMMA WritesRow ==
  ASSUME BInv, NEW r \in Reqs, NEW u \in Users, NEW k \in Avatar, NEW pc, NEW by, MovesOn(r, pc),
         req[r].user = u, req[r].new = k, req[r].pc = "update",
         \/ req[r].op = "upload" /\ pc = "delete" /\ by = "upload"
         \/ req[r].op = "upload" /\ pc = "undo" /\ by = "unsure"
         \/ req[r].op = "profile" /\ pc = "done" /\ by = "profile",
         avatar' = [avatar EXCEPT ![u] = k], source' = [source EXCEPT ![u] = by],
         UNCHANGED <<files, known, claimed>>, excused' \subseteq Users
  PROVE  BInv'
<1>1. \A p \in Reqs : req'[p].user = req[p].user /\ req'[p].old = req[p].old /\ req'[p].new = req[p].new
  BY DEF MovesOn, Others
<1>2. /\ avatar' \in [Users -> Avatar] /\ avatar'[u] = k /\ source'[u] = by
      /\ source' \in [Users -> {"none", "upload", "profile", "unsure"}]
      /\ \A v \in Users \ {u} : avatar'[v] = avatar[v] /\ source'[v] = source[v]
  BY DEF BInv, TypeOK
<1>3. \A f : Named(f)' => Named(f) \/ f = k
  BY <1>2 DEF Named
<1>4. \A p \in Reqs : \A f : Mentions(p, f)' <=> Mentions(p, f)
  BY <1>1 DEF Mentions
<1>5. \A p \in Reqs \ {r} : req'[p] = req[p]
  BY DEF MovesOn, Others
<1>6. Mentions(r, k)
  BY DEF Mentions
<1>7. \A p \in Reqs \ {r} : req[p].op = "upload" /\ req[p].pc \in {"copy", "update"} => req[p].new # k
  BY <1>6 DEF BInv, FreshOK
<1>8. by = "upload" => k \in Files /\ files[k] = "complete"
  BY DEF BInv, ReqsOK, RequestOK, TypeOK, At
<1>9. k \in Files => files[k] # "partial"
  BY DEF BInv, KnownWhole, MayBePartial
<1>10. TypeOK'
  BY <1>2, <1>5 DEF BInv, TypeOK, At, MovesOn, Others
<1>11. ReqsOK'
  BY DEF BInv, ReqsOK, RequestOK, MovesOn, Others
<1>13. FreshOK'
  <2> SUFFICES ASSUME NEW p \in Reqs, req'[p].op = "upload", req'[p].pc \in {"copy", "update"},
                      NEW g, g = req'[p].new
               PROVE  /\ req'[p].old # g
                      /\ ~Named(g)'
                      /\ \A s \in Reqs \ {p} : ~Mentions(s, g)'
    BY DEF FreshOK, Named, Mentions
  <2>1. p # r /\ req'[p] = req[p]
    BY <1>5 DEF MovesOn
  <2>2. /\ req[p].old # g
        /\ ~Named(g)
        /\ \A s \in Reqs \ {p} : ~Mentions(s, g)
    BY <2>1 DEF BInv, FreshOK
  <2> QED
    BY <1>3, <1>4, <1>7, <2>1, <2>2
<1>14. SafeToRemove'
  <2> SUFFICES ASSUME NEW p \in Reqs, NEW v \in Users, req'[p].op = "upload", source'[v] = "upload"
               PROVE  /\ req'[p].pc = "undo" => avatar'[v] # req'[p].new
                      /\ (req'[p].pc = "delete" \/ req'[p].user # v) /\ avatar'[v] = req'[p].old
                           => avatar'[v] \in claimed
    BY DEF SafeToRemove
  <2>1. CASE p = r
    <3>1. req[r].op = "upload" /\ req[r].old # k /\ ~Named(k)
      BY <2>1 DEF BInv, FreshOK, MovesOn
    <3>2. CASE v = u
      BY <1>1, <1>2, <2>1, <3>1, <3>2 DEF MovesOn
    <3>3. CASE v # u
      <4>1. avatar'[v] = avatar[v] /\ source[v] = "upload" /\ avatar[v] # k
        BY <1>2, <3>1, <3>3 DEF Named
      <4>2. avatar[v] = req[r].old => avatar[v] \in claimed
        BY <3>1, <3>3, <4>1 DEF BInv, SafeToRemove
      <4> QED
        BY <1>1, <2>1, <4>1, <4>2
    <3> QED
      BY <3>2, <3>3
  <2>2. CASE p # r
    <3>1. req'[p] = req[p]
      BY <1>5, <2>2
    <3>2. CASE v = u
      <4>1. req[r].op = "upload"
        BY <1>2, <2>2, <3>2
      <4>2. ~Mentions(p, k)
        BY <2>2, <4>1 DEF BInv, FreshOK
      <4> QED
        BY <1>2, <3>1, <3>2, <4>2 DEF Mentions
    <3>3. CASE v # u
      BY <1>2, <3>1, <3>3 DEF BInv, SafeToRemove
    <3> QED
      BY <3>2, <3>3
  <2> QED
    BY <2>1, <2>2
<1>15. KnownWhole'
  <2> SUFFICES ASSUME NEW f \in Files, files[f] = "partial"
               PROVE  /\ ~Named(f)'
                      /\ \A p \in Reqs : req[p].old # f /\ (req[p].new = f => MayBePartial(p)')
    BY <1>1 DEF KnownWhole
  <2>1. /\ ~Named(f)
        /\ \A p \in Reqs : req[p].old # f /\ (req[p].new = f => MayBePartial(p))
    BY DEF BInv, KnownWhole
  <2>2. f # k
    BY <1>9
  <2>3. \A p \in Reqs \ {r} : MayBePartial(p) => MayBePartial(p)'
    BY <1>5 DEF MayBePartial
  <2> QED
    BY <1>3, <2>1, <2>2, <2>3
<1>16. UploadNamesFile' /\ AvatarServed'
  BY <1>2, <1>8 DEF BInv, UploadNamesFile, AvatarServed
<1> QED
  BY <1>10, <1>11, <1>13, <1>14, <1>15, <1>16 DEF BInv

\* An upload whose UPDATE failed goes on to remove its file.
LEMMA GivesUp ==
  ASSUME BInv, NEW r \in Reqs, req[r].op = "upload", req[r].pc = "update", MovesOn(r, "undo"),
         UNCHANGED Tables, UNCHANGED excused
  PROVE  BInv'
<1>0. UNCHANGED <<avatar, files, known, source, claimed>>
  BY DEF Tables
<1>1. \A p \in Reqs : req'[p].user = req[p].user /\ req'[p].old = req[p].old /\ req'[p].new = req[p].new
  BY DEF MovesOn, Others
<1>2. \A p \in Reqs \ {r} : req'[p] = req[p]
  BY DEF MovesOn, Others
<1>3. \A f : Named(f)' <=> Named(f)
  BY <1>0 DEF Named
<1>4. \A p \in Reqs : \A f : Mentions(p, f)' <=> Mentions(p, f)
  BY <1>1 DEF Mentions
<1>5. TypeOK'
  BY <1>0, <1>2 DEF BInv, TypeOK, At, MovesOn, Others
<1>6. ReqsOK'
  BY DEF BInv, ReqsOK, RequestOK, MovesOn, Others
<1>8. FreshOK'
  <2>1. \A p \in Reqs : req'[p].op = "upload" /\ req'[p].pc \in {"copy", "update"} => req'[p] = req[p]
    BY <1>2 DEF MovesOn
  <2> QED
    BY <1>3, <1>4, <2>1 DEF BInv, FreshOK
<1>9. SafeToRemove'
  <2>1. \A u \in Users : avatar[u] # req[r].new
    BY DEF BInv, FreshOK, Named
  <2> QED
    BY <1>0, <1>1, <1>2, <2>1 DEF BInv, SafeToRemove, MovesOn
<1>10. KnownWhole'
  <2>1. \A p \in Reqs : MayBePartial(p) => MayBePartial(p)'
    BY <1>2 DEF MayBePartial
  <2> QED
    BY <1>0, <1>1, <1>3, <2>1 DEF BInv, KnownWhole
<1>11. UploadNamesFile' /\ AvatarServed'
  BY <1>0 DEF BInv, UploadNamesFile, AvatarServed
<1> QED
  BY <1>5, <1>6, <1>8, <1>9, <1>10, <1>11 DEF BInv

LEMMA UploadUpdateKeeps ==
  ASSUME BInv, NEW r \in Reqs, UploadUpdate(r)
  PROVE  BInv'
<1>1. /\ req[r].op = "upload" /\ req[r].pc = "update" /\ req[r] \in Request
      /\ UNCHANGED <<files, known, claimed>>
  BY DEF UploadUpdate, At, BInv, TypeOK
<1>2. PICK u \in Users, k \in Avatar : u = req[r].user /\ k = req[r].new
  BY <1>1 DEF BInv, ReqsOK, RequestOK, Request
<1>3. excused' \subseteq Users
  BY <1>1, <1>2 DEF UploadUpdate, BInv, TypeOK
<1>4. req' = [req EXCEPT ![r] = AfterFailedUpdate(@)] => MovesOn(r, "undo")
  <2> SUFFICES ASSUME req' = [req EXCEPT ![r] = AfterFailedUpdate(@)] PROVE MovesOn(r, "undo")
    OBVIOUS
  <2>1. Goto(r, "undo")
    BY Zenon DEF AfterFailedUpdate, Goto
  <2> QED
    BY <2>1, GotoMoves DEF BInv
<1>5. CASE /\ avatar' = [avatar EXCEPT ![u] = k] /\ source' = [source EXCEPT ![u] = "upload"]
           /\ Goto(r, "delete")
  <2>1. MovesOn(r, "delete")
    BY <1>5, GotoMoves DEF BInv
  <2> QED
    BY <1>1, <1>2, <1>3, <1>5, <2>1, WritesRow
<1>6. CASE /\ avatar' = [avatar EXCEPT ![u] = k] /\ source' = [source EXCEPT ![u] = "unsure"]
           /\ req' = [req EXCEPT ![r] = AfterFailedUpdate(@)]
  BY <1>1, <1>2, <1>3, <1>4, <1>6, WritesRow
<1>7. CASE /\ req' = [req EXCEPT ![r] = AfterFailedUpdate(@)]
           /\ UNCHANGED <<avatar, source, excused>>
  <2>1. UNCHANGED Tables /\ UNCHANGED excused
    BY <1>1, <1>7 DEF Tables
  <2> QED
    BY <1>1, <1>4, <1>7, <2>1, GivesUp
<1> QED
  BY <1>2, <1>5, <1>6, <1>7 DEF UploadUpdate

LEMMA ProfileUpdateKeeps ==
  ASSUME BInv, NEW r \in Reqs, ProfileUpdate(r)
  PROVE  BInv'
<1>1. /\ req[r].op = "profile" /\ req[r].pc = "update" /\ req[r] \in Request
      /\ UNCHANGED <<files, known, claimed>>
  BY DEF ProfileUpdate, At, BInv, TypeOK
<1>2. PICK u \in Users, k \in Avatar : u = req[r].user /\ k = req[r].new
  BY <1>1 DEF BInv, ReqsOK, RequestOK, Request
<1>3. excused' \subseteq Users
  BY <1>1, <1>2 DEF ProfileUpdate, BInv, TypeOK
<1>4. MovesOn(r, "done")
  BY FinishMoves DEF ProfileUpdate, BInv
<1>5. CASE avatar' = [avatar EXCEPT ![u] = k] /\ source' = [source EXCEPT ![u] = "profile"]
  BY <1>1, <1>2, <1>3, <1>4, <1>5, WritesRow
<1>6. CASE UNCHANGED <<avatar, source, excused>>
  <2>1. UNCHANGED Tables
    BY <1>1, <1>6 DEF Tables
  <2> QED
    BY <1>1, <1>3, <1>4, <2>1, QuietMove
<1> QED
  BY <1>2, <1>5, <1>6 DEF ProfileUpdate

-----------------------------------------------------------------------------
(***************************************************************************)
(* Answers                                                                 *)
(***************************************************************************)
\* A client learns the name of a file.
LEMMA Learns ==
  ASSUME BInv, NEW k \in Files, files[k] # "partial",
         \A p \in Reqs : req[p].op = "upload" /\ req[p].pc \in {"copy", "update"} => req[p].new # k,
         req' \in [Reqs -> Request], \A p \in Reqs : req'[p] = req[p] \/ req'[p] = Idle,
         known' = known \cup {k}, UNCHANGED <<avatar, files, source, claimed, excused>>
  PROVE  BInv'
<1>1. known' \subseteq Files
  BY DEF BInv, TypeOK
<1>2. /\ Idle.op = "none" /\ Idle.pc = "idle" /\ Idle.user = "nobody"
      /\ Idle.old = NoFile /\ Idle.new = NoFile
  BY DEF Idle
<1>3. \A f : Named(f)' => Named(f) \/ f = k
  BY <1>1 DEF Named
<1>4. \A p \in Reqs : \A f \in Files : Mentions(p, f)' => Mentions(p, f) /\ req'[p] = req[p]
  BY <1>2 DEF Mentions
<1>5. \A p \in Reqs : req'[p].op = "upload" => req'[p] = req[p]
  BY <1>2
<1>6. TypeOK'
  BY <1>1, <1>5 DEF BInv, TypeOK, At
<1>7. ReqsOK'
  BY <1>2 DEF BInv, ReqsOK, RequestOK
<1>9. FreshOK'
  <2> SUFFICES ASSUME NEW p \in Reqs, req'[p].op = "upload", req'[p].pc \in {"copy", "update"},
                      NEW g, g = req'[p].new
               PROVE  /\ req'[p].old # g
                      /\ ~Named(g)'
                      /\ \A s \in Reqs \ {p} : ~Mentions(s, g)'
    BY DEF FreshOK, Named, Mentions
  <2>1. req'[p] = req[p]
    BY <1>5
  <2>2. /\ req[p].old # g /\ g # k /\ g \in Files
        /\ ~Named(g)
        /\ \A s \in Reqs \ {p} : ~Mentions(s, g)
    BY <2>1 DEF BInv, FreshOK, ReqsOK, RequestOK
  <2> QED
    BY <1>3, <1>4, <2>1, <2>2
<1>10. SafeToRemove'
  BY <1>5 DEF BInv, SafeToRemove
<1>11. KnownWhole'
  <2> SUFFICES ASSUME NEW f \in Files, files[f] = "partial"
               PROVE  /\ ~Named(f)'
                      /\ \A p \in Reqs : req'[p].old # f /\ (req'[p].new = f => MayBePartial(p)')
    BY DEF KnownWhole
  <2>1. /\ ~Named(f)
        /\ \A p \in Reqs : req[p].old # f /\ (req[p].new = f => MayBePartial(p))
    BY DEF BInv, KnownWhole
  <2>2. \A p \in Reqs : req'[p] = req[p] /\ MayBePartial(p) => MayBePartial(p)'
    BY DEF MayBePartial
  <2> QED
    BY <1>2, <1>3, <2>1, <2>2
<1>12. UploadNamesFile' /\ AvatarServed'
  BY DEF BInv, UploadNamesFile, AvatarServed
<1> QED
  BY <1>6, <1>7, <1>9, <1>10, <1>11, <1>12 DEF BInv

LEMMA ReplyKeeps ==
  ASSUME BInv, NEW r \in Reqs, Reply(r)
  PROVE  BInv'
<1>1. /\ req[r].pc = "done" /\ req[r] \in Request /\ req' = [req EXCEPT ![r] = Idle]
      /\ UNCHANGED <<avatar, files, source, claimed, excused>>
  BY DEF Reply, BInv, TypeOK
<1>2. /\ Idle \in Request /\ Idle.op = "none" /\ Idle.user = "nobody"
      /\ Idle.old = NoFile /\ Idle.new = NoFile
  BY DEF Idle, Request, Avatar
<1>3. CASE UNCHANGED known
  <2>1. claimed \subseteq Files /\ excused \subseteq Users
    BY DEF BInv, TypeOK
  <2> QED
    BY <1>1, <1>2, <1>3, <2>1, QuietBegin
<1>4. CASE /\ req[r].op = "upload" /\ req[r].status = 200
           /\ known' = known \cup {req[r].new}
  <2>1. PICK k \in Files : k = req[r].new
    BY <1>1, <1>4 DEF BInv, ReqsOK, RequestOK
  <2>2. Mentions(r, k)
    BY <2>1 DEF Mentions
  <2>3. files[k] # "partial"
    BY <1>1, <1>4, <2>1 DEF BInv, KnownWhole, MayBePartial
  <2>4. \A p \in Reqs : req[p].op = "upload" /\ req[p].pc \in {"copy", "update"} => req[p].new # k
    BY <1>1, <2>2 DEF BInv, FreshOK
  <2>5. req' \in [Reqs -> Request] /\ \A p \in Reqs : req'[p] = req[p] \/ req'[p] = Idle
    BY <1>1, <1>2 DEF BInv, TypeOK
  <2>6. known' = known \cup {k}
    BY <1>4, <2>1
  <2> QED
    BY <1>1, <2>3, <2>4, <2>5, <2>6, Learns
<1> QED
  BY <1>3, <1>4 DEF Reply

LEMMA StutterKeeps ==
  ASSUME BInv, UNCHANGED vars
  PROVE  BInv'
<1>1. UNCHANGED <<avatar, files, known, source, claimed, excused, req>>
  BY DEF vars
<1>2. TypeOK' /\ ReqsOK' /\ SafeToRemove' /\ UploadNamesFile' /\ AvatarServed'
  BY <1>1 DEF BInv, TypeOK, At, ReqsOK, RequestOK, SafeToRemove, UploadNamesFile, AvatarServed
<1>3. FreshOK' /\ KnownWhole'
  BY <1>1 DEF BInv, FreshOK, KnownWhole, Mentions, Named, MayBePartial
<1> QED
  BY <1>2, <1>3 DEF BInv

LEMMA GetProfileKeeps ==
  ASSUME BInv, NEW u \in Users, GetProfile(u)
  PROVE  BInv'
<1>1. UNCHANGED <<avatar, files, source, claimed, excused, req>>
  BY DEF GetProfile
<1>2. CASE avatar[u] \in Files
  <2>1. PICK k \in Files : k = avatar[u]
    BY <1>2
  <2>2. Named(k)
    BY <2>1 DEF Named
  <2>3. files[k] # "partial"
    BY <2>2 DEF BInv, KnownWhole
  <2>4. \A p \in Reqs : req[p].op = "upload" /\ req[p].pc \in {"copy", "update"} => req[p].new # k
    BY <2>2 DEF BInv, FreshOK
  <2>5. known' = known \cup {k}
    BY <2>1 DEF GetProfile
  <2>6. req' \in [Reqs -> Request] /\ \A p \in Reqs : req'[p] = req[p] \/ req'[p] = Idle
    BY <1>1 DEF BInv, TypeOK
  <2> QED
    BY <1>1, <2>3, <2>4, <2>5, <2>6, Learns
<1>3. CASE avatar[u] \notin Files
  <2>1. known' = known
    BY <1>3 DEF GetProfile
  <2>2. UNCHANGED vars
    BY <1>1, <2>1 DEF vars
  <2> QED
    BY <2>2, StutterKeeps
<1> QED
  BY <1>2, <1>3

-----------------------------------------------------------------------------
\* Every step of every handler, and of the environment, keeps the invariant.
LEMMA NextBInv == BInv /\ [Next]_vars => BInv'
<1> SUFFICES ASSUME BInv, [Next]_vars PROVE BInv'
  OBVIOUS
<1>1. CASE \E r \in Reqs, u \in Users : UploadStart(r, u) \/ ProfileStart(r, u)
  BY <1>1, UploadStartKeeps, ProfileStartKeeps
<1>2. CASE \E r \in Reqs : UploadRead(r) \/ UploadCreate(r) \/ UploadCopy(r) \/ UploadUpdate(r) \/ UploadDelete(r)
  BY <1>2, UploadReadKeeps, UploadCreateKeeps, UploadCopyKeeps, UploadUpdateKeeps, UploadDeleteKeeps
<1>3. CASE \E r \in Reqs : ProfileUpdate(r) \/ ViewStart(r) \/ ViewStat(r) \/ ViewSend(r) \/ Reply(r)
  BY <1>3, ProfileUpdateKeeps, ViewStartKeeps, ViewStepKeeps, ReplyKeeps
<1>4. CASE \E u \in Users : GetProfile(u)
  BY <1>4, GetProfileKeeps
<1>5. CASE Crash
  BY <1>5, CrashKeeps
<1>6. CASE UNCHANGED vars
  BY <1>6, StutterKeeps
<1> QED
  BY <1>1, <1>2, <1>3, <1>4, <1>5, <1>6 DEF Next

\* Every reachable state satisfies the inductive invariant.
THEOREM AvatarsInvariant == Spec => []BInv
<1>1. Init => BInv
  BY InitBInv
<1>2. BInv /\ [Next]_vars => BInv'
  BY NextBInv
<1> QED
  BY <1>1, <1>2, PTL DEF Spec

\* Rows, files and requests are well formed, and an upload has the file that it
\* writes to itself: no other upload, however it ends, writes or removes it.
THEOREM AvatarsTypeCorrect == Spec => []TypeOK
<1>1. BInv => TypeOK
  BY BInvImplies
<1> QED
  BY <1>1, AvatarsInvariant, PTL

\* The avatar that an upload put into the row has its file, complete, until an
\* upload of another user, whose row names the file as well, reads it there as the
\* avatar to replace: nothing else that the DeleteAvatar calls of UploadAvatar
\* remove is in a row that an upload wrote.
THEOREM UploadedAvatarIsServed == Spec => []AvatarServed
<1>1. BInv => AvatarServed
  BY BInvImplies
<1> QED
  BY <1>1, AvatarsInvariant, PTL

\* SecureStaticHandler never meets a file that is still being written.
THEOREM NobodySeesHalfAnImage == Spec => []ViewedIsWhole
<1>1. BInv => ViewedIsWhole
  BY BInvImplies
<1> QED
  BY <1>1, AvatarsInvariant, PTL
-----------------------------------------------------------------------------
(***************************************************************************)
(* Leaks.  As long as nothing has been excused, a user has one upload at a *)
(* time (OneUpload), so that the row it has read is the row it replaces    *)
(* (RowIsOld), and every file is in a row or will be put into one or       *)
(* removed by the upload that holds it (NoLeak).                           *)
(***************************************************************************)
Running(r) == req[r].op = "upload" /\ req[r].pc # "done"
OneUpload ==
  \A p \in Reqs : \A q \in Reqs : Running(p) /\ Running(q) /\ req[p].user = req[q].user => p = q

RowIsOld ==
  \A r \in Reqs : req[r].op = "upload" =>
    /\ req[r].pc \in {"create", "copy", "update"} => req[r].old = avatar[req[r].user]
    /\ req[r].pc = "delete" => req[r].new = avatar[req[r].user]

Holds(r, f) ==
  /\ req[r].op = "upload"
  /\ \/ req[r].pc \in {"copy", "update", "undo"} /\ req[r].new = f
     \/ req[r].pc = "delete" /\ req[r].old = f
InRow(f) == \E u \in Users : avatar[u] = f
NoLeak == \A f \in Files : files[f] # "absent" => InRow(f) \/ \E r \in Reqs : Holds(r, f)

Clean == OneUpload /\ RowIsOld /\ NoLeak
CInv == excused = {} => Clean

LEMMA InitCInv == Init => CInv
<1> SUFFICES ASSUME Init PROVE Clean
  BY DEF CInv
<1>1. OneUpload /\ RowIsOld
  BY DEF Init, OneUpload, RowIsOld, Running, Idle
<1>2. NoLeak
  BY DEF Init, NoLeak
<1> QED
  BY <1>1, <1>2 DEF Clean

LEMMA CInvImplies == CInv => LeaksHaveACause
  BY DEF CInv, Clean, NoLeak, Holds, InRow, LeaksHaveACause, Kept

\* Steps of which a running upload that has a file knows nothing.
LEMMA CleanQuiet ==
  ASSUME Clean, UNCHANGED <<avatar, files>>,
         \A p \in Reqs : Running(p)' => req'[p] = req[p],
         \A p \in Reqs : \A f : Holds(p, f) => req'[p] = req[p]
  PROVE  Clean'
<1>1. OneUpload'
  BY DEF Clean, OneUpload, Running
<1>2. RowIsOld'
  <2> SUFFICES ASSUME NEW p \in Reqs, req'[p].op = "upload"
               PROVE  /\ req'[p].pc \in {"create", "copy", "update"} => req'[p].old = avatar'[req'[p].user]
                      /\ req'[p].pc = "delete" => req'[p].new = avatar'[req'[p].user]
    BY DEF RowIsOld
  <2>1. CASE req'[p].pc = "done"
    BY <2>1
  <2>2. CASE req'[p].pc # "done"
    BY <2>2 DEF Running, Clean, RowIsOld
  <2> QED
    BY <2>1, <2>2
<1>3. \A p \in Reqs : \A f : Holds(p, f) => Holds(p, f)'
  BY DEF Holds
<1>4. NoLeak'
  BY <1>3 DEF Clean, NoLeak, InRow
<1> QED
  BY <1>1, <1>2, <1>4 DEF Clean

\* A running upload goes on.  What it held it still holds, or it is removed.
LEMMA CleanMove ==
  ASSUME Clean, NEW r \in Reqs, Running(r), Others(r),
         req'[r].op = "upload", req'[r].user = req[r].user,
         req'[r].pc \in {"create", "copy", "update"} => req'[r].old = avatar[req[r].user],
         req'[r].pc # "delete", UNCHANGED avatar,
         \A f \in Files : files'[f] # "absent" =>
           \/ Holds(r, f)'
           \/ files[f] # "absent" /\ ~Holds(r, f)
  PROVE  Clean'
<1>1. \A p \in Reqs \ {r} : req'[p] = req[p]
  BY DEF Others
<1>2. \A p \in Reqs : req'[p].user = req[p].user /\ (Running(p)' => Running(p))
  BY <1>1 DEF Running
<1>3. OneUpload'
  BY <1>2 DEF Clean, OneUpload
<1>4. RowIsOld'
  BY <1>1 DEF Clean, RowIsOld
<1>5. \A p \in Reqs \ {r} : \A f : Holds(p, f) => Holds(p, f)'
  BY <1>1 DEF Holds
<1>6. NoLeak'
  BY <1>5 DEF Clean, NoLeak, InRow
<1> QED
  BY <1>3, <1>4, <1>6 DEF Clean

-----------------------------------------------------------------------------
LEMMA CleanStart ==
  ASSUME BInv, Clean, NEW r \in Reqs, NEW u \in Users, UploadStart(r, u), excused' = {}
  PROVE  Clean'
<1> DEFINE q == [Idle EXCEPT !.op = "upload", !.pc = "read", !.user = u]
<1>1. req' = [req EXCEPT ![r] = q] /\ UNCHANGED <<avatar, files>>
  BY Zenon DEF UploadStart
<1>2. q.op = "upload" /\ q.pc = "read" /\ q.user = u
  BY DEF Idle
<1> HIDE DEF q
<1>3. req'[r] = q /\ \A p \in Reqs \ {r} : req'[p] = req[p]
  BY <1>1 DEF BInv, TypeOK
<1>4. req[r].op = "none"
  BY DEF UploadStart, Idle
<1>5. \A p \in Reqs : Running(p) => req[p].user # u
  BY DEF UploadStart, Uploading, Running
<1>6. \A p \in Reqs \ {r} : Running(p)' <=> Running(p)
  BY <1>3 DEF Running
<1>7. OneUpload'
  <2> SUFFICES ASSUME NEW p \in Reqs, NEW s \in Reqs, Running(p)', Running(s)', req'[p].user = req'[s].user
               PROVE  p = s
    BY DEF OneUpload
  <2>1. CASE p # r /\ s # r
    BY <1>3, <1>6, <2>1 DEF Clean, OneUpload
  <2>2. CASE p = r \/ s = r
    BY <1>2, <1>3, <1>5, <1>6, <2>2
  <2> QED
    BY <2>1, <2>2
<1>8. RowIsOld'
  BY <1>1, <1>2, <1>3 DEF Clean, RowIsOld
<1>9. \A p \in Reqs : \A f : Holds(p, f) => Holds(p, f)'
  BY <1>3, <1>4 DEF Holds
<1>10. NoLeak'
  BY <1>1, <1>9 DEF Clean, NoLeak, InRow
<1> QED
  BY <1>7, <1>8, <1>10 DEF Clean

LEMMA CleanRead ==
  ASSUME BInv, Clean, NEW r \in Reqs, UploadRead(r)
  PROVE  Clean'
<1>1. req[r].op = "upload" /\ req[r].pc = "read" /\ req[r] \in Request /\ UNCHANGED <<avatar, files>>
  BY DEF UploadRead, At, BInv, TypeOK
<1>2. PICK a \in Avatar : a = avatar[req[r].user]
  BY <1>1 DEF BInv, TypeOK, ReqsOK, RequestOK
<1>3. Running(r) /\ \A f : ~Holds(r, f)
  BY <1>1 DEF Running, Holds
<1>4. CASE req' = [req EXCEPT ![r] = [[@ EXCEPT !.pc = "create"] EXCEPT !.old = avatar[req[r].user]]]
  <2> DEFINE x == [req[r] EXCEPT !.pc = "create"]
  <2> DEFINE q == [x EXCEPT !.old = a]
  <2>1. req' = [req EXCEPT ![r] = q]
    BY <1>2, <1>4, Zenon
  <2>2. x \in Request /\ x.op = "upload" /\ x.pc = "create" /\ x.user = req[r].user
    BY <1>1 DEF Request
  <2> HIDE DEF x
  <2>3. q \in Request /\ q.op = "upload" /\ q.pc = "create" /\ q.user = req[r].user /\ q.old = a
    BY <2>2 DEF Request
  <2> HIDE DEF q
  <2>4. Others(r) /\ req'[r] = q
    BY <2>1, <2>3 DEF Others, BInv, TypeOK
  <2> QED
    BY <1>1, <1>2, <1>3, <2>3, <2>4, CleanMove
<1>5. CASE Finish(r, 404)
  <2>1. MovesOn(r, "done")
    BY <1>5, FinishMoves DEF BInv
  <2> QED
    BY <1>1, <1>3, <2>1, CleanMove DEF MovesOn
<1> QED
  BY <1>4, <1>5 DEF UploadRead

LEMMA CleanCreate ==
  ASSUME BInv, Clean, NEW r \in Reqs, UploadCreate(r)
  PROVE  Clean'
<1>1. req[r].op = "upload" /\ req[r].pc = "create" /\ req[r] \in Request /\ UNCHANGED avatar
  BY DEF UploadCreate, At, BInv, TypeOK
<1>2. /\ Running(r) /\ \A f : ~Holds(r, f)
      /\ req[r].old = avatar[req[r].user]
  BY <1>1 DEF Running, Holds, Clean, RowIsOld
<1>3. CASE \E f \in FreeFiles :
             /\ files' = [files EXCEPT ![f] = "partial"]
             /\ req' = [req EXCEPT ![r] = [[@ EXCEPT !.pc = "copy"] EXCEPT !.new = f]]
  <2>1. PICK f \in FreeFiles :
             /\ files' = [files EXCEPT ![f] = "partial"]
             /\ req' = [req EXCEPT ![r] = [[@ EXCEPT !.pc = "copy"] EXCEPT !.new = f]]
    BY <1>3
  <2> DEFINE x == [req[r] EXCEPT !.pc = "copy"]
  <2> DEFINE q == [x EXCEPT !.new = f]
  <2>2. req' = [req EXCEPT ![r] = q]
    BY <2>1, Zenon
  <2>3. x \in Request /\ x.op = "upload" /\ x.pc = "copy" /\ x.user = req[r].user /\ x.old = req[r].old
    BY <1>1 DEF Request
  <2>4. f \in Avatar
    BY DEF FreeFiles, Avatar
  <2> HIDE DEF x
  <2>5. /\ q \in Request /\ q.op = "upload" /\ q.pc = "copy" /\ q.user = req[r].user
        /\ q.old = req[r].old /\ q.new = f
    BY <2>3, <2>4 DEF Request
  <2> HIDE DEF q
  <2>6. Others(r) /\ req'[r] = q
    BY <2>2, <2>5 DEF Others, BInv, TypeOK
  <2>7. Holds(r, f)' /\ \A g \in Files \ {f} : files'[g] = files[g]
    BY <2>1, <2>5, <2>6 DEF Holds, BInv, TypeOK
  <2> QED
    BY <1>1, <1>2, <2>5, <2>6, <2>7, CleanMove
<1>4. CASE Finish(r, 422) /\ UNCHANGED files
  <2>1. MovesOn(r, "done")
    BY <1>4, FinishMoves DEF BInv
  <2> QED
    BY <1>1, <1>2, <1>4, <2>1, CleanMove DEF MovesOn
<1> QED
  BY <1>3, <1>4 DEF UploadCreate

LEMMA CleanCopy ==
  ASSUME BInv, Clean, NEW r \in Reqs, UploadCopy(r), excused' = {}
  PROVE  Clean'
<1>1. req[r].op = "upload" /\ req[r].pc = "copy" /\ req \in [Reqs -> Request] /\ UNCHANGED avatar
  BY DEF UploadCopy, At, BInv, TypeOK
<1>2. PICK k \in Files : k = req[r].new
  BY <1>1 DEF BInv, ReqsOK, RequestOK
<1>3. /\ Running(r) /\ \A f : Holds(r, f) <=> f = k
      /\ req[r].old = avatar[req[r].user]
  BY <1>1, <1>2 DEF Running, Holds, Clean, RowIsOld
<1>4. CASE files' = [files EXCEPT ![req[r].new] = "complete"] /\ Goto(r, "update")
  <2>1. MovesOn(r, "update")
    BY <1>4, GotoMoves DEF BInv
  <2>2. Holds(r, k)' /\ \A g \in Files \ {k} : files'[g] = files[g]
    BY <1>1, <1>2, <1>4, <2>1 DEF Holds, MovesOn, BInv, TypeOK
  <2> QED
    BY <1>1, <1>3, <2>1, <2>2, CleanMove DEF MovesOn
<1>5. CASE files' = Removed(req[r].new) /\ req' = [req EXCEPT ![r] = AfterFailedCopy(@)]
  <2>1. req' = [req EXCEPT ![r] = Ended(req[r], 422)]
    BY <1>5, Zenon DEF AfterFailedCopy, Ended
  <2>2. MovesOn(r, "done")
    BY <1>1, <2>1, EndedRequest DEF MovesOn, Others
  <2>3. files'[k] = "absent" /\ \A g \in Files \ {k} : files'[g] = files[g]
    BY <1>2, <1>5 DEF Removed
  <2> QED
    BY <1>1, <1>3, <2>2, <2>3, CleanMove DEF MovesOn
<1>6. excused' # excused \cup {req[r].user}
  OBVIOUS
<1> QED
  BY <1>4, <1>5, <1>6 DEF UploadCopy

\* The row gets the new file, and the upload takes over the one that was there.
LEMMA CleanUpdate ==
  ASSUME BInv, Clean, NEW r \in Reqs, UploadUpdate(r), excused' = {}
  PROVE  Clean'
<1>1. /\ req[r].op = "upload" /\ req[r].pc = "update" /\ req[r] \in Request
      /\ UNCHANGED <<files, known, claimed>>
  BY DEF UploadUpdate, At, BInv, TypeOK
<1>2. PICK u \in Users, k \in Avatar : u = req[r].user /\ k = req[r].new
  BY <1>1 DEF BInv, ReqsOK, RequestOK, Request
<1>3. /\ Running(r) /\ \A f : Holds(r, f) <=> f = k
      /\ req[r].old = avatar[u]
  BY <1>1, <1>2 DEF Running, Holds, Clean, RowIsOld
<1>4. CASE avatar' = [avatar EXCEPT ![u] = k] /\ Goto(r, "delete")
  <2>1. MovesOn(r, "delete")
    BY <1>4, GotoMoves DEF BInv
  <2>2. \A p \in Reqs \ {r} : req'[p] = req[p]
    BY <2>1 DEF MovesOn, Others
  <2>3. avatar'[u] = k /\ \A v \in Users \ {u} : avatar'[v] = avatar[v]
    BY <1>4 DEF BInv, TypeOK
  <2>4. \A p \in Reqs : req'[p].user = req[p].user /\ (Running(p)' => Running(p))
    BY <1>3, <2>1, <2>2 DEF Running, MovesOn
  <2>5. OneUpload'
    BY <2>4 DEF Clean, OneUpload
  <2>6. RowIsOld'
    <3> SUFFICES ASSUME NEW p \in Reqs, req'[p].op = "upload"
                 PROVE  /\ req'[p].pc \in {"create", "copy", "update"} => req'[p].old = avatar'[req'[p].user]
                        /\ req'[p].pc = "delete" => req'[p].new = avatar'[req'[p].user]
      BY DEF RowIsOld
    <3>1. CASE p = r
      BY <1>2, <2>1, <2>3, <3>1 DEF MovesOn
    <3>2. CASE p # r /\ Running(p)
      <4>1. req[p].user \in Users \ {u}
        BY <1>2, <1>3, <3>2 DEF Clean, OneUpload, Running, BInv, ReqsOK, RequestOK
      <4> QED
        BY <2>2, <2>3, <3>2, <4>1 DEF Clean, RowIsOld, Running
    <3>3. CASE p # r /\ ~Running(p)
      BY <2>2, <3>3 DEF Running
    <3> QED
      BY <3>1, <3>2, <3>3
  <2>7. NoLeak'
    <3> SUFFICES ASSUME NEW f \in Files, files[f] # "absent"
                 PROVE  InRow(f)' \/ \E p \in Reqs : Holds(p, f)'
      BY <1>1 DEF NoLeak
    <3>1. InRow(k)'
      BY <2>3 DEF InRow
    <3>2. PICK a : a = avatar[u]
      OBVIOUS
    <3>4. Holds(r, a)'
      BY <1>1, <1>3, <2>1, <3>2 DEF Holds, MovesOn
    <3>3. \A p \in Reqs \ {r} : Holds(p, f) => Holds(p, f)'
      BY <2>2 DEF Holds
    <3>5. InRow(f) => InRow(f)' \/ f = a
      BY <2>3, <3>2 DEF InRow
    <3>6. CASE InRow(f)
      BY <3>4, <3>5, <3>6
    <3>7. CASE ~InRow(f)
      <4>1. PICK p \in Reqs : Holds(p, f)
        BY <3>7 DEF Clean, NoLeak
      <4>2. p = r => f = k
        BY <1>3, <4>1
      <4> QED
        BY <3>1, <3>3, <4>1, <4>2
    <3> QED
      BY <3>6, <3>7
  <2> QED
    BY <2>5, <2>6, <2>7 DEF Clean
<1>5. CASE req' = [req EXCEPT ![r] = AfterFailedUpdate(@)] /\ UNCHANGED avatar
  <2>1. Goto(r, "undo")
    BY <1>5, Zenon DEF AfterFailedUpdate, Goto
  <2>2. MovesOn(r, "undo")
    BY <2>1, GotoMoves DEF BInv
  <2>3. Holds(r, k)'
    BY <1>1, <1>2, <2>2 DEF Holds, MovesOn
  <2> QED
    BY <1>1, <1>3, <1>5, <2>2, <2>3, CleanMove DEF MovesOn
<1>6. excused' # excused \cup {req[r].user}
  OBVIOUS
<1> QED
  BY <1>2, <1>4, <1>5, <1>6 DEF UploadUpdate

LEMMA CleanDelete ==
  ASSUME BInv, Clean, NEW r \in Reqs, UploadDelete(r), excused' = {}
  PROVE  Clean'
<1>1. req[r].op = "upload" /\ req[r].pc \in {"undo", "delete"} /\ UNCHANGED avatar
  BY DEF UploadDelete, At
<1>2. PICK k : k = Outdated(r)
  OBVIOUS
<1>3. Running(r) /\ \A f : Holds(r, f) <=> f = k
  BY <1>1, <1>2 DEF Running, Holds, Outdated
<1>4. MovesOn(r, "done")
  BY FinishMoves DEF UploadDelete, BInv
<1>5. files' = Removed(k)
  BY <1>2 DEF UploadDelete
<1>6. \A g \in Files : files'[g] = IF g = k THEN "absent" ELSE files[g]
  BY <1>5 DEF Removed
<1> QED
  BY <1>1, <1>3, <1>4, <1>6, CleanMove DEF MovesOn

\* The other steps concern no upload, or one that is through.
LEMMA CleanOther ==
  ASSUME BInv, Clean, NEW r \in Reqs,
         \/ \E u \in Users : ProfileStart(r, u)
         \/ ProfileUpdate(r) \/ ViewStart(r) \/ ViewStat(r) \/ ViewSend(r) \/ Reply(r),
         excused' = {}
  PROVE  Clean'
<1>1. ~Running(r) /\ \A f : ~Holds(r, f)
  <2>1. req[r] = Idle => req[r].op = "none"
    BY DEF Idle
  <2>2. req[r].op \in {"none", "profile", "view"} \/ req[r].pc = "done"
    BY <2>1 DEF ProfileStart, ProfileUpdate, ViewStart, ViewStat, ViewSend, Reply, At
  <2> QED
    BY <2>2 DEF Running, Holds
<1>2. UNCHANGED <<avatar, files>>
  BY DEF ProfileStart, ProfileUpdate, ViewStart, ViewStat, ViewSend, Reply
<1>3. Others(r) /\ ~Running(r)'
  <2>1. CASE \E u \in Users : ProfileStart(r, u)
    <3>1. PICK u \in Users, a \in Avatar :
            req' = [req EXCEPT ![r] = [Idle EXCEPT !.op = "profile", !.pc = "update", !.user = u, !.new = a]]
      BY <2>1 DEF ProfileStart, BInv, TypeOK, Avatar
    <3> DEFINE q == [Idle EXCEPT !.op = "profile", !.pc = "update", !.user = u, !.new = a]
    <3>2. q \in Request
      BY DEF Request, Idle, Avatar
    <3>3. q.op = "profile"
      BY DEF Idle
    <3>4. req' = [req EXCEPT ![r] = q]
      BY <3>1, Zenon
    <3> HIDE DEF q
    <3> QED
      BY <3>2, <3>3, <3>4 DEF Others, Running, BInv, TypeOK
  <2>2. CASE ViewStart(r)
    <3>1. PICK a \in Avatar :
            req' = [req EXCEPT ![r] = [Idle EXCEPT !.op = "view", !.pc = "stat", !.new = a]]
      BY <2>2 DEF ViewStart, Avatar, BInv, TypeOK
    <3> DEFINE q == [Idle EXCEPT !.op = "view", !.pc = "stat", !.new = a]
    <3>2. q \in Request
      BY DEF Request, Idle, Avatar
    <3>3. q.op = "view"
      BY DEF Idle
    <3>4. req' = [req EXCEPT ![r] = q]
      BY <3>1, Zenon
    <3> HIDE DEF q
    <3> QED
      BY <3>2, <3>3, <3>4 DEF Others, Running, BInv, TypeOK
  <2>3. CASE ProfileUpdate(r) \/ ViewStat(r) \/ ViewSend(r)
    <3>1. req[r].op # "upload"
      BY <2>3 DEF ProfileUpdate, ViewStat, ViewSend, At
    <3>2. Goto(r, "send") \/ \E status \in {200, 404, 500} : Finish(r, status)
      BY <2>3 DEF ProfileUpdate, ViewStat, ViewSend
    <3>3. \E pc \in {"send", "done"} : MovesOn(r, pc)
      BY <3>2, GotoMoves, FinishMoves DEF BInv
    <3> QED
      BY <3>1, <3>3 DEF MovesOn, Running
  <2>4. CASE Reply(r)
    <3>1. Idle \in Request /\ Idle.op = "none"
      BY DEF Idle, Request, Avatar
    <3> QED
      BY <2>4, <3>1 DEF Reply, Others, Running, BInv, TypeOK
  <2> QED
    BY <2>1, <2>2, <2>3, <2>4
<1>4. \A p \in Reqs \ {r} : req'[p] = req[p]
  BY <1>3 DEF Others
<1>5. \A p \in Reqs : Running(p)' => req'[p] = req[p]
  BY <1>3, <1>4
<1>6. \A p \in Reqs : \A f : Holds(p, f) => req'[p] = req[p]
  BY <1>1, <1>4
<1> QED
  BY <1>2, <1>5, <1>6, CleanQuiet

\* A crash that cuts no upload, a look at the profile, or nothing at all.
LEMMA CleanEnvironment ==
  ASSUME BInv, Clean, Crash \/ (\E u \in Users : GetProfile(u)) \/ UNCHANGED vars, excused' = {}
  PROVE  Clean'
<1>1. UNCHANGED <<avatar, files>>
  BY DEF Crash, GetProfile, vars
<1>2. CASE Crash
  <2>1. \A p \in Reqs : req[p].op # "upload"
    BY <1>2 DEF Crash
  <2>2. \A p \in Reqs : req'[p].op # "upload"
    BY <1>2 DEF Crash, Idle
  <2>3. /\ \A p \in Reqs : ~Running(p)'
        /\ \A p \in Reqs : \A f : ~Holds(p, f)
    BY <2>1, <2>2 DEF Running, Holds
  <2> QED
    BY <1>1, <2>3, CleanQuiet
<1>3. CASE UNCHANGED req
  BY <1>1, <1>3, CleanQuiet
<1> QED
  BY <1>2, <1>3 DEF GetProfile, vars

\* What has been excused stays so.
LEMMA ExcusedGrows == [Next]_vars => excused \subseteq excused'
<1> SUFFICES ASSUME [Next]_vars PROVE excused \subseteq excused'
  OBVIOUS
<1>1. CASE \E r \in Reqs, u \in Users : UploadStart(r, u) \/ ProfileStart(r, u)
  BY <1>1 DEF UploadStart, ProfileStart
<1>2. CASE \E r \in Reqs : UploadRead(r) \/ UploadCreate(r) \/ UploadCopy(r) \/ UploadUpdate(r) \/ UploadDelete(r)
  BY <1>2 DEF UploadRead, UploadCreate, UploadCopy, UploadUpdate, UploadDelete
<1>3. CASE \E r \in Reqs : ProfileUpdate(r) \/ ViewStart(r) \/ ViewStat(r) \/ ViewSend(r) \/ Reply(r)
  BY <1>3 DEF ProfileUpdate, ViewStart, ViewStat, ViewSend, Reply
<1>4. CASE (\E u \in Users : GetProfile(u)) \/ Crash \/ UNCHANGED vars
  BY <1>4 DEF GetProfile, Crash, vars
<1> QED
  BY <1>1, <1>2, <1>3, <1>4 DEF Next

LEMMA NextCInv == BInv /\ CInv /\ [Next]_vars => CInv'
<1> SUFFICES ASSUME BInv, CInv, [Next]_vars, excused' = {} PROVE Clean'
  BY DEF CInv
<1>1. Clean
  BY ExcusedGrows DEF CInv
<1>2. CASE \E r \in Reqs, u \in Users : UploadStart(r, u)
  BY <1>1, <1>2, CleanStart
<1>3. CASE \E r \in Reqs : UploadRead(r) \/ UploadCreate(r) \/ UploadCopy(r) \/ UploadUpdate(r) \/ UploadDelete(r)
  BY <1>1, <1>3, CleanRead, CleanCreate, CleanCopy, CleanUpdate, CleanDelete
<1>4. CASE \E r \in Reqs : \/ \E u \in Users : ProfileStart(r, u)
                           \/ ProfileUpdate(r) \/ ViewStart(r) \/ ViewStat(r) \/ ViewSend(r) \/ Reply(r)
  BY <1>1, <1>4, CleanOther
<1>5. CASE Crash \/ (\E u \in Users : GetProfile(u)) \/ UNCHANGED vars
  BY <1>1, <1>5, CleanEnvironment
<1> QED
  BY <1>2, <1>3, <1>4, <1>5 DEF Next

\* The clean-up of UploadAvatar, of the file of a failed upload and of the avatar
\* that a successful one replaces, forgets no file: one that nothing names is the
\* work of two uploads at once or of one of the other causes.
THEOREM LeaksAreExplained == Spec => []LeaksHaveACause
<1>1. Init => CInv
  BY InitCInv
<1>2. BInv /\ CInv /\ [Next]_vars => CInv'
  BY NextCInv
<1>3. CInv => LeaksHaveACause
  BY CInvImplies
<1> QED
  BY <1>1, <1>2, <1>3, AvatarsInvariant, PTL DEF Spec
=============================================================================
