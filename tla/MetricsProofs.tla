---------------------------- MODULE MetricsProofs ----------------------------
(***************************************************************************)
(* The books of the metrics balance, for any number of requests, scrapes   *)
(* and restarts.                                                           *)
(***************************************************************************)
EXTENDS Metrics, FiniteSetTheorems, TLAPS

USE MetricsAssumption

-----------------------------------------------------------------------------
(***************************************************************************)
(* The inductive invariant.  The properties compare counters with the      *)
(* numbers of requests that have got so far: Past, Leaving, Succeeding,    *)
(* Joining and Refused are the sets that they count.  Open, the requests   *)
(* that are counted but will count (or might have counted) no login or     *)
(* sign-up any more or yet, is what makes a scrape plausible: the one that *)
(* takes the snapshot is itself one of them.                               *)
(***************************************************************************)
InPast(r) == req[r].pc \notin {"idle", "count", "counting"}
IsLeaving(r, s) == req[r].pc = "answer" /\ req[r].status = s
IsBehind(r) == req[r].pc \in {"time", "tally", "tallying", "answer"}
Succeeds(r, route) == IsBehind(r) /\ req[r].route = route /\ req[r].status = 200
IsRefused(r) == IsBehind(r) /\ req[r].route = "login" /\ req[r].status = 401
Joins(r) == req[r].pc = "joined"
IsOpen(r) ==
  /\ InPast(r)
  /\ \/ req[r].route \in {"scrape", "health"}
     \/ req[r].route = "login" /\ req[r].pc = "handle"
     \/ req[r].route = "signup" /\ req[r].pc \in {"handle", "joined"}

Past == {r \in Reqs : InPast(r)}
Leaving(s) == {r \in Reqs : IsLeaving(r, s)}
Succeeding(route) == {r \in Reqs : Succeeds(r, route)}
Refused == {r \in Reqs : IsRefused(r)}
Joining == {r \in Reqs : Joins(r)}
Open == {r \in Reqs : IsOpen(r)}

Traffic ==
  /\ requests = answered + Cardinality(Past)
  /\ \A s \in Statuses : statuses[s] = told[s] + Cardinality(Leaving(s))
Business ==
  /\ attempts = failed + entered + Cardinality(Succeeding("login"))
  /\ registered = joined + Cardinality(Succeeding("signup"))
  /\ sent <= registered + Cardinality(Joining)
Plausible == attempts + registered + Cardinality(Open) <= requests
Honest == failed <= told[401] + Cardinality(Refused)

\* What a request has done before the statement it is at, when n requests and m
\* failures are counted.
Reading == {"snapshot", "walk requests", "walk statuses"}
Through == {"time", "tally", "tallying", "answer"}
RecordOK(q, n, m) ==
  /\ q.pc = "joined" => q.route = "signup"
  /\ q.pc \in Reading => q.route \in {"scrape", "health"}
  /\ q.route = "health" /\ q.pc \in Reading \cup Through => q.status = IF q.down THEN 503 ELSE 200
  /\ q.route = "health" /\ q.pc \in {"walk requests", "walk statuses"} \cup Through =>
       q.verdict = Verdict(q.down, q.read.failed) /\ q.read.failed <= m
  /\ q.pc = "walk requests" => q.read.attempts + q.read.registered < n
  /\ q.route \in {"scrape", "health"} /\ q.pc \in {"walk statuses"} \cup Through =>
       q.read.attempts + q.read.registered < q.read.requests
RequestOK(r) == RecordOK(req[r], requests, failed)
ReqsOK == \A r \in Reqs : RequestOK(r)

MInv == TypeOK /\ ReqsOK /\ Traffic /\ Business /\ Plausible /\ Honest

Numbers ==
  /\ requests \in Nat /\ attempts \in Nat /\ failed \in Nat /\ registered \in Nat /\ sent \in Nat
  /\ answered \in Nat /\ entered \in Nat /\ joined \in Nat
  /\ statuses \in [Statuses -> Nat] /\ told \in [Statuses -> Nat]

LEMMA NumbersAre == TypeOK => Numbers
  BY DEF TypeOK, Numbers

\* The numbers of elements are those that the properties name.
LEMMA MInvImplies ==
  MInv => TypeOK /\ TrafficBalance /\ BusinessBalance /\ ScrapeIsPlausible /\ HealthIsHonest
<1> SUFFICES ASSUME MInv PROVE TypeOK /\ TrafficBalance /\ BusinessBalance /\ ScrapeIsPlausible /\ HealthIsHonest
  OBVIOUS
<1>0. TypeOK /\ Numbers
  BY NumbersAre DEF MInv
<1>1. TrafficBalance
  BY DEF MInv, Traffic, TrafficBalance, Past, InPast, Leaving, IsLeaving
<1>2. BusinessBalance
  <2>1. /\ {r \in Behind : req[r].route = "login" /\ req[r].status = 200} = Succeeding("login")
        /\ {r \in Behind : req[r].route = "signup" /\ req[r].status = 200} = Succeeding("signup")
    BY DEF Behind, Succeeding, Succeeds, IsBehind
  <2>2. {r \in Reqs : req[r].pc = "joined"} = Joining
    BY DEF Joining, Joins
  <2>3. Cardinality(Succeeding("login")) \in Nat
    <3>1. IsFiniteSet(Succeeding("login"))
      BY FS_Subset DEF Succeeding
    <3> QED
      BY <3>1, FS_CardinalityType
  <2>4. attempts - failed = entered + Cardinality(Succeeding("login"))
    BY <1>0, <2>3 DEF MInv, Business, Numbers
  <2>5. registered = joined + Cardinality(Succeeding("signup")) /\ sent <= registered + Cardinality(Joining)
    BY DEF MInv, Business
  <2> QED
    BY <2>1, <2>2, <2>4, <2>5, Zenon DEF BusinessBalance
<1>3. ScrapeIsPlausible
  BY DEF MInv, ReqsOK, RequestOK, RecordOK, Through, ScrapeIsPlausible, Behind
<1>4. HealthIsHonest
  <2>1. {r \in Behind : req[r].route = "login" /\ req[r].status = 401} = Refused
    BY DEF Behind, Refused, IsRefused, IsBehind
  <2> SUFFICES ASSUME NEW r \in Behind, req[r].route = "health"
               PROVE  /\ req[r].status = 503 <=> req[r].down
                      /\ req[r].verdict = "unhealthy" => req[r].status = 503
                      /\ req[r].verdict = "healthy" => req[r].status = 200 /\ req[r].read.failed <= Alarm
                      /\ req[r].verdict = "degraded" => told[401] + Cardinality(Refused) > Alarm
    BY <2>1 DEF HealthIsHonest
  <2>2. r \in Reqs /\ IsBehind(r) /\ req[r] \in Request
    BY <1>0 DEF Behind, IsBehind, TypeOK
  <2>3. /\ req[r].status = IF req[r].down THEN 503 ELSE 200
        /\ req[r].verdict = Verdict(req[r].down, req[r].read.failed) /\ req[r].read.failed <= failed
    BY <2>2 DEF MInv, ReqsOK, RequestOK, RecordOK, IsBehind, Through
  <2>4. /\ req[r].verdict = "healthy" => ~req[r].down /\ req[r].read.failed <= Alarm
        /\ req[r].verdict = "unhealthy" => req[r].down
        /\ req[r].verdict = "degraded" => req[r].read.failed > Alarm
    <3>1. req[r].read.failed \in Nat
      BY <2>2 DEF Request
    <3> QED
      BY <2>3, <3>1 DEF Verdict
  <2>5. Cardinality(Refused) \in Nat /\ told[401] \in Nat /\ failed \in Nat /\ req[r].read.failed \in Nat
    <3>1. IsFiniteSet(Refused)
      BY FS_Subset DEF Refused
    <3>2. Cardinality(Refused) \in Nat
      BY <3>1, FS_CardinalityType
    <3>3. told[401] \in Nat /\ failed \in Nat
      BY <1>0 DEF Numbers, Statuses
    <3>4. req[r].read.failed \in Nat
      BY <2>2 DEF Request
    <3> QED
      BY <3>2, <3>3, <3>4
  <2>6. failed <= told[401] + Cardinality(Refused)
    BY DEF MInv, Honest
  <2>7. req[r].verdict = "degraded" => told[401] + Cardinality(Refused) > Alarm
    BY <2>3, <2>4, <2>5, <2>6
  <2>8. req[r].status = 503 <=> req[r].down
    BY <2>3
  <2> QED
    BY <2>3, <2>4, <2>7, <2>8
<1> QED
  BY <1>0, <1>1, <1>2, <1>3, <1>4

LEMMA InitMInv == Init => MInv
<1> SUFFICES ASSUME Init PROVE MInv
  OBVIOUS
<1>1. \A r \in Reqs : req[r] = Idle
  BY DEF Init
<1>2. Idle.pc = "idle" /\ Idle \in Request
  BY DEF Idle, Request, NothingRead, Routes, Statuses
<1>3. TypeOK
  <2>1. \A r \in Reqs : mutex = r <=> req[r].pc \in {"counting", "tallying"}
    BY <1>1, <1>2 DEF Init
  <2>2. {requests, attempts, failed, registered, sent, answered, entered, joined} \subseteq Nat
    BY DEF Init
  <2>3. statuses \in [Statuses -> Nat] /\ told \in [Statuses -> Nat]
    BY DEF Init
  <2>4. alive \in BOOLEAN /\ timed \in BOOLEAN /\ mutex \in Reqs \cup {NoReq}
    BY DEF Init
  <2>5. req \in [Reqs -> Request]
    BY <1>2 DEF Init
  <2> QED
    BY <2>1, <2>2, <2>3, <2>4, <2>5 DEF TypeOK
<1>4. ReqsOK
  BY <1>1, <1>2 DEF ReqsOK, RequestOK, RecordOK, Reading, Through
<1>5. /\ Past = {} /\ Joining = {} /\ Open = {} /\ Refused = {}
      /\ \A s : Leaving(s) = {}
      /\ \A route : Succeeding(route) = {}
  BY <1>1, <1>2 DEF Past, InPast, Joining, Joins, Open, IsOpen, Refused, IsRefused, Leaving, IsLeaving,
                    Succeeding, Succeeds, IsBehind
<1>6. Cardinality({}) = 0
  BY FS_EmptySet
<1>7. Traffic /\ Business /\ Plausible /\ Honest
  BY <1>5, <1>6 DEF Init, Traffic, Business, Plausible, Honest, Statuses
<1> QED
  BY <1>3, <1>4, <1>7 DEF MInv

-----------------------------------------------------------------------------
(***************************************************************************)
(* How the counted sets change when one request does.                      *)
(***************************************************************************)
Others(r) == req' \in [Reqs -> Request] /\ \A p \in Reqs \ {r} : req'[p] = req[p]

\* Counted sets S and T that differ at most in r.
Differ(S, T, r) ==
  /\ Cardinality(S) \in Nat /\ Cardinality(T) \in Nat
  /\ (r \in S <=> r \in T) => Cardinality(T) = Cardinality(S)
  /\ r \notin S /\ r \in T => Cardinality(T) = Cardinality(S) + 1
  /\ r \in S /\ r \notin T => Cardinality(S) = Cardinality(T) + 1

LEMMA OneDiffers ==
  ASSUME NEW r \in Reqs, NEW S \in SUBSET Reqs, NEW T \in SUBSET Reqs, S \ {r} = T \ {r}
  PROVE  Differ(S, T, r)
<1>1. IsFiniteSet(S) /\ IsFiniteSet(T)
  BY FS_Subset
<1>2. Cardinality(S) \in Nat /\ Cardinality(T) \in Nat
  BY <1>1, FS_CardinalityType
<1>3. CASE r \in S <=> r \in T
  <2>1. S = T
    BY <1>3
  <2> QED
    BY <1>2, <1>3, <2>1 DEF Differ
<1>4. CASE r \notin S /\ r \in T
  <2>1. T = S \cup {r}
    BY <1>4
  <2>2. Cardinality(T) = Cardinality(S) + 1
    BY <1>1, <1>4, <2>1, FS_AddElement
  <2> QED
    BY <1>2, <1>4, <2>2 DEF Differ
<1>5. CASE r \in S /\ r \notin T
  <2>1. S = T \cup {r}
    BY <1>5
  <2>2. Cardinality(S) = Cardinality(T) + 1
    BY <1>1, <1>5, <2>1, FS_AddElement
  <2> QED
    BY <1>2, <1>5, <2>2 DEF Differ
<1> QED
  BY <1>3, <1>4, <1>5

LEMMA SetsDiffer ==
  ASSUME NEW r \in Reqs, Others(r)
  PROVE  /\ Differ(Past, Past', r) /\ Differ(Joining, Joining', r)
         /\ Differ(Open, Open', r) /\ Differ(Refused, Refused', r)
         /\ \A s \in Statuses : Differ(Leaving(s), Leaving(s)', r)
         /\ Differ(Succeeding("login"), Succeeding("login")', r)
         /\ Differ(Succeeding("signup"), Succeeding("signup")', r)
<1>1. \A p \in Reqs \ {r} : /\ InPast(p)' <=> InPast(p)
                            /\ Joins(p)' <=> Joins(p)
                            /\ IsOpen(p)' <=> IsOpen(p)
                            /\ IsRefused(p)' <=> IsRefused(p)
  BY DEF Others, InPast, Joins, IsOpen, IsRefused, IsBehind
<1>2. Differ(Past, Past', r)
  BY <1>1, OneDiffers DEF Past
<1>3. Differ(Joining, Joining', r)
  BY <1>1, OneDiffers DEF Joining
<1>4. Differ(Open, Open', r)
  BY <1>1, OneDiffers DEF Open
<1>5. Differ(Refused, Refused', r)
  BY <1>1, OneDiffers DEF Refused
<1>6. ASSUME NEW s \in Statuses PROVE Differ(Leaving(s), Leaving(s)', r)
  <2>1. \A p \in Reqs \ {r} : IsLeaving(p, s)' <=> IsLeaving(p, s)
    BY DEF Others, IsLeaving
  <2> QED
    BY <2>1, OneDiffers DEF Leaving
<1>7. ASSUME NEW route \in {"login", "signup"} PROVE Differ(Succeeding(route), Succeeding(route)', r)
  <2>1. \A p \in Reqs \ {r} : Succeeds(p, route)' <=> Succeeds(p, route)
    BY DEF Others, Succeeds, IsBehind
  <2> QED
    BY <2>1, OneDiffers DEF Succeeding
<1> QED
  BY <1>2, <1>3, <1>4, <1>5, <1>6, <1>7

-----------------------------------------------------------------------------
(***************************************************************************)
(* Shapes of steps                                                         *)
(***************************************************************************)
Writes(r) == req[r].pc \in {"counting", "tallying"}
Locks(r) ==
  \/ UNCHANGED mutex /\ (Writes(r)' <=> Writes(r))
  \/ mutex = NoReq /\ mutex' = r /\ Writes(r)'
  \/ mutex' = NoReq /\ Writes(r) /\ ~Writes(r)'

LEMMA TypeStep ==
  ASSUME TypeOK, NEW r \in Reqs, Others(r), Locks(r), Numbers', alive' \in BOOLEAN, timed' \in BOOLEAN
  PROVE  TypeOK'
<1>1. mutex' \in Reqs \cup {NoReq}
  BY DEF TypeOK, Locks
<1>2. \A p \in Reqs : mutex' = p <=> req'[p].pc \in {"counting", "tallying"}
  BY DEF TypeOK, Locks, Writes, Others
<1>3. {requests, attempts, failed, registered, sent, answered, entered, joined}' \subseteq Nat
  BY DEF Numbers
<1>4. statuses' \in [Statuses -> Nat] /\ told' \in [Statuses -> Nat]
  BY DEF Numbers
<1>5. req' \in [Reqs -> Request]
  BY DEF Others
<1> QED
  BY <1>1, <1>2, <1>3, <1>4, <1>5 DEF TypeOK

LEMMA RecordStaysOK ==
  ASSUME NEW q \in Request, NEW n1 \in Nat, NEW n2 \in Nat, NEW m1 \in Nat, NEW m2 \in Nat,
         n1 <= n2, m1 <= m2, RecordOK(q, n1, m1)
  PROVE  RecordOK(q, n2, m2)
<1>1. PICK a \in Nat, b \in Nat, c \in Nat : a = q.read.attempts /\ b = q.read.registered /\ c = q.read.failed
  BY DEF Request
<1>2. PICK k \in Nat : k = a + b
  OBVIOUS
<1>3. c <= m1 => c <= m2
  OBVIOUS
<1>4. k < n1 => k < n2
  OBVIOUS
<1> QED
  BY <1>1, <1>2, <1>3, <1>4 DEF RecordOK

LEMMA ReqsStep ==
  ASSUME TypeOK, ReqsOK, NEW r \in Reqs, Others(r), Numbers', RequestOK(r)',
         requests <= requests', failed <= failed'
  PROVE  ReqsOK'
<1>1. ASSUME NEW p \in Reqs \ {r} PROVE RequestOK(p)'
  <2>1. req'[p] = req[p] /\ RecordOK(req[p], requests, failed) /\ req[p] \in Request
    BY DEF Others, ReqsOK, RequestOK, TypeOK
  <2>2. requests \in Nat /\ failed \in Nat /\ requests' \in Nat /\ failed' \in Nat
    BY NumbersAre DEF Numbers
  <2>3. RecordOK(req[p], requests', failed')
    BY <2>1, <2>2, RecordStaysOK
  <2> QED
    BY <2>1, <2>3 DEF RequestOK
<1> QED
  BY <1>1 DEF ReqsOK

\* Steps that change no counter.
LEMMA QuietStep ==
  ASSUME MInv, NEW r \in Reqs, Others(r), Locks(r), RequestOK(r)',
         UNCHANGED <<alive, requests, statuses, counters, history>>, timed' \in BOOLEAN,
         InPast(r)' <=> InPast(r), req[r].pc # "answer", req'[r].pc # "answer",
         Succeeds(r, "login")' <=> Succeeds(r, "login"), Succeeds(r, "signup")' <=> Succeeds(r, "signup"),
         Joins(r)' <=> Joins(r), IsOpen(r)' => IsOpen(r), IsRefused(r) => IsRefused(r)'
  PROVE  MInv'
<1>0. UNCHANGED <<alive, requests, statuses, attempts, failed, registered, sent, answered, told, entered, joined>>
  BY DEF counters, history
<1>1. Numbers /\ Numbers'
  BY <1>0, NumbersAre DEF MInv, Numbers
<1>2. TypeOK'
  BY <1>0, <1>1, TypeStep DEF MInv, TypeOK
<1>3. ReqsOK'
  BY <1>0, <1>1, ReqsStep DEF MInv, Numbers
<1>4. /\ Cardinality(Past') = Cardinality(Past) /\ Cardinality(Joining') = Cardinality(Joining)
      /\ Cardinality(Succeeding("login")') = Cardinality(Succeeding("login"))
      /\ Cardinality(Succeeding("signup")') = Cardinality(Succeeding("signup"))
  BY SetsDiffer DEF Differ, Past, Joining, Succeeding
<1>5. \A s \in Statuses : Cardinality(Leaving(s)') = Cardinality(Leaving(s))
  BY SetsDiffer DEF Differ, Leaving, IsLeaving
<1>6. /\ Cardinality(Open) \in Nat /\ Cardinality(Open') \in Nat
      /\ Cardinality(Refused) \in Nat /\ Cardinality(Refused') \in Nat
      /\ Cardinality(Open') <= Cardinality(Open) /\ Cardinality(Refused) <= Cardinality(Refused')
  <2>1. (r \in Open' => r \in Open) /\ (r \in Refused => r \in Refused')
    BY DEF Open, Refused
  <2>2. Differ(Open, Open', r) /\ Differ(Refused, Refused', r)
    BY SetsDiffer
  <2> QED
    BY <2>1, <2>2 DEF Differ
<1>7. Traffic' /\ Business'
  BY <1>0, <1>4, <1>5 DEF MInv, Traffic, Business
<1>8. Plausible'
  BY <1>0, <1>1, <1>6 DEF MInv, Plausible, Numbers
<1>9. Honest'
  <2>1. told[401] \in Nat
    BY <1>1 DEF Numbers, Statuses
  <2> QED
    BY <1>0, <1>1, <1>6, <2>1 DEF MInv, Honest, Numbers
<1> QED
  BY <1>2, <1>3, <1>7, <1>8, <1>9 DEF MInv

Same(r) ==
  /\ req'[r].route = req[r].route /\ req'[r].verdict = req[r].verdict
  /\ req'[r].down = req[r].down /\ req'[r].read = req[r].read

LEMMA GotoMoves ==
  ASSUME TypeOK, NEW r \in Reqs, Goto(r, "counting") \/ Goto(r, "handle") \/ Goto(r, "joined")
         \/ Goto(r, "snapshot") \/ Goto(r, "tally") \/ Goto(r, "tallying") \/ Goto(r, "answer")
  PROVE  /\ Others(r) /\ Same(r) /\ req'[r].status = req[r].status
         /\ \A pc : Goto(r, pc) => req'[r].pc = pc
<1>1. PICK pc \in {"counting", "handle", "joined", "snapshot", "tally", "tallying", "answer"} : Goto(r, pc)
  OBVIOUS
<1>2. req \in [Reqs -> Request] /\ req[r] \in Request
  BY DEF TypeOK
<1>3. req' = [req EXCEPT ![r] = [req[r] EXCEPT !.pc = pc]]
  BY <1>1, Zenon DEF Goto
<1>4. [req[r] EXCEPT !.pc = pc] \in Request
  BY <1>2 DEF Request
<1>5. Others(r) /\ Same(r) /\ req'[r].status = req[r].status
  BY <1>2, <1>3, <1>4 DEF Others, Same, Request
<1>6. ASSUME NEW x, Goto(r, x) PROVE req'[r].pc = x
  <2>1. req' = [req EXCEPT ![r] = [req[r] EXCEPT !.pc = x]]
    BY <1>6, Zenon DEF Goto
  <2> QED
    BY <1>2, <2>1 DEF Request
<1> QED
  BY <1>5, <1>6

LEMMA HandledMoves ==
  ASSUME TypeOK, NEW r \in Reqs, NEW status \in Statuses, Handled(r, status)
  PROVE  Others(r) /\ Same(r) /\ req'[r].pc = "time" /\ req'[r].status = status
<1>1. req \in [Reqs -> Request] /\ req[r] \in Request
  BY DEF TypeOK
<1> DEFINE q == [req[r] EXCEPT !.pc = "time", !.status = status]
<1>2. req' = [req EXCEPT ![r] = q]
  BY Zenon DEF Handled, AfterHandler
<1>3. /\ q \in Request /\ q.pc = "time" /\ q.status = status /\ q.route = req[r].route
      /\ q.verdict = req[r].verdict /\ q.down = req[r].down /\ q.read = req[r].read
  BY <1>1 DEF Request
<1> HIDE DEF q
<1> QED
  BY <1>1, <1>2, <1>3 DEF Others, Same

-----------------------------------------------------------------------------
(***************************************************************************)
(* Steps that change no counter                                            *)
(***************************************************************************)
LEMMA ArriveKeeps ==
  ASSUME MInv, NEW r \in Reqs, NEW route \in Routes, Arrive(r, route)
  PROVE  MInv'
<1> DEFINE q == [Idle EXCEPT !.route = route, !.pc = "count"]
<1>1. req' = [req EXCEPT ![r] = q]
  BY Zenon DEF Arrive, After
<1>2. q \in Request /\ q.pc = "count"
  BY DEF Idle, Request, NothingRead, Statuses
<1> HIDE DEF q
<1>3. Others(r) /\ req'[r].pc = "count"
  BY <1>1, <1>2 DEF Others, MInv, TypeOK
<1>4. req[r].pc = "idle"
  BY DEF Arrive, Idle
<1>5. Locks(r) /\ RequestOK(r)'
  BY <1>3, <1>4 DEF Arrive, Locks, Writes, RequestOK, RecordOK, Reading, Through
<1>6. UNCHANGED <<alive, requests, statuses, counters, history>> /\ timed' \in BOOLEAN
  BY DEF Arrive, maps, MInv, TypeOK
<1> QED
  BY <1>3, <1>4, <1>5, <1>6, QuietStep DEF InPast, Succeeds, IsBehind, Joins, IsOpen, IsRefused

\* The statements of the middleware that only write to the mutex or to the durations.
LEMMA MiddlewareKeeps ==
  ASSUME MInv, NEW r \in Reqs, CountBegin(r) \/ RecordDuration(r) \/ TallyBegin(r)
  PROVE  MInv'
<1>1. /\ UNCHANGED <<alive, requests, statuses, counters, history>> /\ timed' \in BOOLEAN
      /\ RequestOK(r) /\ UNCHANGED failed
  BY DEF CountBegin, RecordDuration, TallyBegin, maps, counters, MInv, TypeOK, ReqsOK
<1>2. Goto(r, "counting") \/ Goto(r, "tally") \/ Goto(r, "tallying")
  BY DEF CountBegin, RecordDuration, TallyBegin
<1>3. Others(r) /\ Same(r) /\ req'[r].status = req[r].status
  BY <1>2, GotoMoves DEF MInv
<1>4. \/ req[r].pc = "count" /\ req'[r].pc = "counting"
      \/ req[r].pc = "time" /\ req'[r].pc = "tally"
      \/ req[r].pc = "tally" /\ req'[r].pc = "tallying"
  BY GotoMoves DEF CountBegin, RecordDuration, TallyBegin, At, MInv
<1>5. Locks(r)
  BY <1>4 DEF CountBegin, RecordDuration, TallyBegin, At, MutexFree, Locks, Writes
<1>6. RequestOK(r)'
  BY <1>1, <1>3, <1>4 DEF RequestOK, RecordOK, Reading, Through, Same
<1> QED
  BY <1>1, <1>3, <1>4, <1>5, <1>6, QuietStep DEF Same, InPast, Succeeds, IsBehind, Joins, IsOpen, IsRefused

Untouched == UNCHANGED <<alive, mutex, maps, counters, history>>

\* A handler that counts nothing answers.
LEMMA HandledQuietly ==
  ASSUME MInv, NEW r \in Reqs, NEW status \in Statuses, Handled(r, status), Untouched,
         \/ req[r].pc = "handle" /\ req[r].route \in {"login", "signup", "missing"} /\ status # 200
         \/ req[r].pc = "walk statuses" /\ status = req[r].status
  PROVE  MInv'
<1>1. UNCHANGED <<alive, requests, statuses, counters, history>> /\ timed' \in BOOLEAN /\ UNCHANGED mutex
  BY DEF Untouched, maps, MInv, TypeOK
<1>2. Others(r) /\ Same(r) /\ req'[r].pc = "time" /\ req'[r].status = status
  BY HandledMoves DEF MInv
<1>3. RequestOK(r)
  BY DEF MInv, ReqsOK
<1>4. Locks(r)
  BY <1>1, <1>2 DEF Locks, Writes
<1>5. RequestOK(r)'
  BY <1>1, <1>2, <1>3 DEF RequestOK, RecordOK, Reading, Through, Same, counters
<1>6. req[r].pc = "walk statuses" => req[r].route \in {"scrape", "health"}
  BY <1>3 DEF RequestOK, RecordOK, Reading
<1> QED
  BY <1>1, <1>2, <1>4, <1>5, <1>6, QuietStep DEF Same, InPast, Succeeds, IsBehind, Joins, IsOpen, IsRefused

LEMMA MissingKeeps ==
  ASSUME MInv, NEW r \in Reqs, Missing(r)
  PROVE  MInv'
<1>1. PICK status \in Statuses : status = 404 /\ status # 200
  BY DEF Statuses
<1>2. /\ Handled(r, status) /\ Untouched
      /\ req[r].pc = "handle" /\ req[r].route \in {"login", "signup", "missing"}
  BY <1>1 DEF Missing, At, Untouched
<1>3. \/ req[r].pc = "handle" /\ req[r].route \in {"login", "signup", "missing"} /\ status # 200
      \/ req[r].pc = "walk statuses" /\ status = req[r].status
  BY <1>1, <1>2
<1> QED
  BY <1>2, <1>3, HandledQuietly, Zenon

LEMMA ScrapeStartKeeps ==
  ASSUME MInv, NEW r \in Reqs, ScrapeStart(r)
  PROVE  MInv'
<1>1. /\ UNCHANGED <<alive, requests, statuses, counters, history>> /\ timed' \in BOOLEAN /\ UNCHANGED mutex
      /\ req[r].pc = "handle" /\ req[r].route = "scrape"
  BY DEF ScrapeStart, At, maps, MInv, TypeOK
<1>2. Others(r) /\ Same(r) /\ req'[r].pc = "snapshot"
  BY GotoMoves DEF ScrapeStart, MInv
<1>3. Locks(r) /\ RequestOK(r)'
  BY <1>1, <1>2 DEF Locks, Writes, RequestOK, RecordOK, Reading, Through, Same
<1> QED
  BY <1>1, <1>2, <1>3, QuietStep DEF Same, InPast, Succeeds, IsBehind, Joins, IsOpen, IsRefused

LEMMA HealthPingKeeps ==
  ASSUME MInv, NEW r \in Reqs, HealthPing(r)
  PROVE  MInv'
<1>1. /\ UNCHANGED <<alive, requests, statuses, counters, history>> /\ timed' \in BOOLEAN /\ UNCHANGED mutex
      /\ req[r].pc = "handle" /\ req[r].route = "health" /\ req[r] \in Request
  BY DEF HealthPing, At, maps, MInv, TypeOK
<1>2. PICK down \in BOOLEAN :
        req' = [req EXCEPT ![r] = [@ EXCEPT !.pc = "snapshot", !.down = down, !.status = IF down THEN 503 ELSE 200]]
  BY DEF HealthPing
<1>3. PICK status \in Statuses : status = IF down THEN 503 ELSE 200
  BY DEF Statuses
<1> DEFINE q == [req[r] EXCEPT !.pc = "snapshot", !.down = down, !.status = status]
<1>4. req' = [req EXCEPT ![r] = q]
  BY <1>2, <1>3, Zenon
<1>5. q \in Request /\ q.pc = "snapshot" /\ q.down = down /\ q.status = status /\ q.route = "health"
  BY <1>1 DEF Request
<1> HIDE DEF q
<1>6. Others(r) /\ req'[r] = q
  BY <1>4, <1>5 DEF Others, MInv, TypeOK
<1>7. Locks(r) /\ RequestOK(r)'
  BY <1>1, <1>3, <1>5, <1>6 DEF Locks, Writes, RequestOK, RecordOK, Reading, Through
<1> QED
  BY <1>1, <1>5, <1>6, <1>7, QuietStep DEF InPast, Succeeds, IsBehind, Joins, IsOpen, IsRefused

\* The request that takes the snapshot is open itself.
LEMMA SnapshotKeeps ==
  ASSUME MInv, NEW r \in Reqs, Snapshot(r)
  PROVE  MInv'
<1>1. /\ UNCHANGED <<alive, requests, statuses, counters, history>> /\ timed' \in BOOLEAN /\ UNCHANGED mutex
      /\ req[r].pc = "snapshot" /\ req[r] \in Request /\ UNCHANGED <<attempts, failed, registered>>
  BY DEF Snapshot, At, maps, counters, MInv, TypeOK
<1>2. req[r].route \in {"scrape", "health"} /\ RequestOK(r)
  BY <1>1 DEF MInv, ReqsOK, RequestOK, RecordOK, Reading
<1>3. Numbers
  BY NumbersAre DEF MInv
<1>4. PICK a \in Nat, f \in Nat, g \in Nat : a = attempts /\ f = failed /\ g = registered
  BY <1>3 DEF Numbers
<1>5. PICK v \in {"none", "healthy", "degraded", "unhealthy"} :
        v = IF req[r].route = "health" THEN Verdict(req[r].down, f) ELSE "none"
  BY DEF Verdict
<1> DEFINE q == [req[r] EXCEPT !.pc = "walk requests",
                   !.read = [attempts |-> a, failed |-> f, registered |-> g, requests |-> 0], !.verdict = v]
<1>6. req' = [req EXCEPT ![r] = q]
  BY <1>4, <1>5, Zenon DEF Snapshot
<1>7. /\ q \in Request /\ q.pc = "walk requests" /\ q.route = req[r].route /\ q.status = req[r].status
      /\ q.down = req[r].down /\ q.verdict = v
      /\ q.read.attempts = a /\ q.read.failed = f /\ q.read.registered = g
  BY <1>1 DEF Request
<1> HIDE DEF q
<1>8. Others(r) /\ req'[r] = q
  BY <1>6, <1>7 DEF Others, MInv, TypeOK
<1>9. a + g < requests
  <2>1. r \in Open
    BY <1>1, <1>2 DEF Open, IsOpen, InPast
  <2>2. IsFiniteSet(Open)
    BY FS_Subset DEF Open
  <2>3. Cardinality(Open) \in Nat /\ Cardinality(Open) # 0
    BY <2>1, <2>2, FS_CardinalityType, FS_EmptySet
  <2> QED
    BY <1>3, <1>4, <2>3 DEF MInv, Plausible, Numbers
<1>10. Locks(r)
  BY <1>1, <1>7, <1>8 DEF Locks, Writes
<1>11. RecordOK(q, requests, f)
  <2>1. q.route = "health" => q.status = IF q.down THEN 503 ELSE 200
    BY <1>1, <1>2, <1>7 DEF RequestOK, RecordOK, Reading
  <2>2. q.route = "health" => q.verdict = Verdict(q.down, q.read.failed) /\ q.read.failed <= f
    <3>1. q.route = "health" => q.verdict = Verdict(q.down, q.read.failed)
      BY <1>5, <1>7 DEF Verdict
    <3>2. f <= f
      OBVIOUS
    <3>3. q.read.failed <= f
      BY <1>7, <3>2, Zenon
    <3> QED
      BY <3>1, <3>3
  <2> QED
    BY <1>2, <1>7, <1>9, <2>1, <2>2 DEF RecordOK, Reading, Through
<1>12. RequestOK(r)'
  BY <1>1, <1>4, <1>8, <1>11 DEF RequestOK
<1> QED
  BY <1>1, <1>2, <1>7, <1>8, <1>10, <1>12, QuietStep DEF InPast, Succeeds, IsBehind, Joins, IsOpen, IsRefused

\* A walk that survives finds at least the requests that were counted before.
LEMMA WalkKeeps ==
  ASSUME MInv, NEW r \in Reqs, WalkRequests(r), ~Die
  PROVE  MInv'
<1>1. /\ UNCHANGED <<alive, requests, statuses, counters, history>> /\ timed' \in BOOLEAN /\ UNCHANGED mutex
      /\ req[r].pc = "walk requests" /\ req[r] \in Request /\ UNCHANGED failed
  BY DEF WalkRequests, At, maps, counters, MInv, TypeOK
<1>2. PICK n \in requests .. requests + 1 :
        req' = [req EXCEPT ![r] = [@ EXCEPT !.pc = "walk statuses", !.read.requests = n]]
  BY DEF WalkRequests
<1>3. requests \in Nat /\ failed \in Nat /\ n \in Nat /\ requests <= n
  BY NumbersAre DEF MInv, Numbers
<1>4. RecordOK(req[r], requests, failed)
  BY DEF MInv, ReqsOK, RequestOK
<1> DEFINE q == [req[r] EXCEPT !.pc = "walk statuses", !.read.requests = n]
<1>5. req' = [req EXCEPT ![r] = q]
  BY <1>2, Zenon
<1>6. /\ q \in Request /\ q.pc = "walk statuses" /\ q.route = req[r].route /\ q.status = req[r].status
      /\ q.down = req[r].down /\ q.verdict = req[r].verdict
      /\ q.read.attempts = req[r].read.attempts /\ q.read.failed = req[r].read.failed
      /\ q.read.registered = req[r].read.registered /\ q.read.requests = n
  BY <1>1, <1>3 DEF Request
<1> HIDE DEF q
<1>7. Others(r) /\ req'[r] = q
  BY <1>5, <1>6 DEF Others, MInv, TypeOK
<1>8. q.read.attempts + q.read.registered < n
  <2>1. PICK a \in Nat, g \in Nat : a = req[r].read.attempts /\ g = req[r].read.registered
    BY <1>1 DEF Request
  <2>2. a + g < requests
    BY <1>1, <1>4, <2>1 DEF RecordOK
  <2>3. a + g < n
    BY <1>3, <2>2
  <2> QED
    BY <1>6, <2>1, <2>3
<1>9. RecordOK(q, requests, failed)
  BY <1>1, <1>4, <1>6, <1>8 DEF RecordOK, Reading, Through
<1>10. Locks(r) /\ RequestOK(r)'
  BY <1>1, <1>6, <1>7, <1>9 DEF Locks, Writes, RequestOK
<1>11. req[r].route \in {"scrape", "health"}
  BY <1>1, <1>4 DEF RecordOK, Reading
<1> QED
  BY <1>1, <1>6, <1>7, <1>10, <1>11, QuietStep DEF InPast, Succeeds, IsBehind, Joins, IsOpen, IsRefused

-----------------------------------------------------------------------------
(***************************************************************************)
(* Steps that count                                                        *)
(***************************************************************************)
LEMMA CountingStep ==
  ASSUME MInv, NEW r \in Reqs, Others(r), Locks(r), RequestOK(r)', Numbers',
         alive' \in BOOLEAN, timed' \in BOOLEAN, requests <= requests', failed <= failed',
         Traffic', Business', Plausible', Honest'
  PROVE  MInv'
  BY TypeStep, ReqsStep DEF MInv

LEMMA CountEndKeeps ==
  ASSUME MInv, NEW r \in Reqs, CountEnd(r)
  PROVE  MInv'
<1>1. /\ req[r].pc = "counting" /\ mutex' = NoReq /\ requests' = requests + 1
      /\ UNCHANGED <<alive, statuses, timed, attempts, failed, registered, sent,
                     answered, told, entered, joined>>
  BY DEF CountEnd, At, counters, history
<1>2. Others(r) /\ Same(r) /\ req'[r].status = req[r].status /\ req'[r].pc = "handle"
  BY GotoMoves DEF CountEnd, After, MInv
<1>3. Numbers /\ Numbers'
  BY <1>1, NumbersAre DEF MInv, Numbers
<1>4. /\ r \notin Past /\ r \in Past' /\ r \notin Joining /\ r \notin Joining'
      /\ r \notin Refused /\ r \notin Refused'
      /\ \A s \in Statuses : r \notin Leaving(s) /\ r \notin Leaving(s)'
      /\ \A route : r \notin Succeeding(route) /\ r \notin Succeeding(route)'
      /\ r \notin Open
  BY <1>1, <1>2 DEF Past, InPast, Joining, Joins, Refused, IsRefused, Leaving, IsLeaving,
                    Succeeding, Succeeds, IsBehind, Open, IsOpen
<1>5. /\ Cardinality(Past') = Cardinality(Past) + 1 /\ Cardinality(Past) \in Nat
      /\ Cardinality(Joining') = Cardinality(Joining) /\ Cardinality(Refused') = Cardinality(Refused)
      /\ \A s \in Statuses : Cardinality(Leaving(s)') = Cardinality(Leaving(s))
      /\ Cardinality(Succeeding("login")') = Cardinality(Succeeding("login"))
      /\ Cardinality(Succeeding("signup")') = Cardinality(Succeeding("signup"))
  BY <1>2, <1>4, SetsDiffer DEF Differ
<1>6. /\ Cardinality(Open) \in Nat /\ Cardinality(Open') \in Nat
      /\ Cardinality(Open') <= Cardinality(Open) + 1
  BY <1>2, <1>4, SetsDiffer DEF Differ
<1>7. Traffic' /\ Business' /\ Honest'
  BY <1>1, <1>3, <1>5 DEF MInv, Traffic, Business, Honest, Numbers
<1>8. Plausible'
  BY <1>1, <1>3, <1>6 DEF MInv, Plausible, Numbers
<1>9. Locks(r) /\ RequestOK(r)' /\ alive' \in BOOLEAN /\ timed' \in BOOLEAN
  BY <1>1, <1>2 DEF Locks, Writes, RequestOK, RecordOK, Reading, Through, MInv, TypeOK
<1>10. requests <= requests' /\ failed <= failed'
  BY <1>1, <1>3 DEF Numbers
<1> QED
  BY <1>2, <1>3, <1>7, <1>8, <1>9, <1>10, CountingStep

LEMMA LoginKeeps ==
  ASSUME MInv, NEW r \in Reqs, Login(r)
  PROVE  MInv'
<1>1. /\ req[r].pc = "handle" /\ req[r].route = "login"
      /\ UNCHANGED <<alive, mutex, requests, statuses, timed, registered, sent,
                     answered, told, entered, joined>>
  BY DEF Login, At, maps, history
<1>2. PICK o \in LoginOutcomes :
       /\ attempts' = IF o[1] = "nothing" THEN attempts ELSE attempts + 1
       /\ failed' = IF o[1] = "failure" THEN failed + 1 ELSE failed
       /\ Handled(r, o[2])
  BY DEF Login
<1>3. PICK status \in Statuses : status = o[2]
  BY DEF LoginOutcomes, Statuses
<1>4. \/ o[1] = "nothing" /\ status # 200
      \/ o[1] = "failure" /\ status = 401
      \/ o[1] = "success" /\ status = 200
  BY <1>3 DEF LoginOutcomes
<1>5. Handled(r, status)
  BY <1>2, <1>3
<1>6. CASE o[1] = "nothing" /\ status # 200
  <2>1. UNCHANGED <<attempts, failed>>
    BY <1>2, <1>6
  <2>2. Untouched
    BY <1>1, <2>1 DEF Untouched, maps, counters, history
  <2>3. \/ req[r].pc = "handle" /\ req[r].route \in {"login", "signup", "missing"} /\ status # 200
        \/ req[r].pc = "walk statuses" /\ status = req[r].status
    BY <1>1, <1>6
  <2> QED
    BY <1>5, <2>2, <2>3, HandledQuietly, Zenon
<1>7. Others(r) /\ Same(r) /\ req'[r].pc = "time" /\ req'[r].status = status
  BY <1>5, HandledMoves DEF MInv
<1>8. CASE o[1] # "nothing"
  <2>1. Numbers /\ attempts' = attempts + 1
    BY <1>2, <1>8, NumbersAre DEF MInv
  <2>2. failed' = failed \/ failed' = failed + 1
    BY <1>2
  <2>3. Numbers'
    BY <1>1, <2>1, <2>2 DEF Numbers
  <2>4. /\ r \in Past /\ r \in Past' /\ r \notin Joining /\ r \notin Joining'
        /\ \A s \in Statuses : r \notin Leaving(s) /\ r \notin Leaving(s)'
        /\ r \notin Succeeding("signup") /\ r \notin Succeeding("signup")'
        /\ r \in Open /\ r \notin Open' /\ r \notin Succeeding("login") /\ r \notin Refused
    BY <1>1, <1>7 DEF Past, InPast, Joining, Joins, Refused, IsRefused, Leaving, IsLeaving,
                      Succeeding, Succeeds, IsBehind, Open, IsOpen, Same
  <2>5. /\ Cardinality(Past') = Cardinality(Past)
        /\ Cardinality(Joining') = Cardinality(Joining)
        /\ \A s \in Statuses : Cardinality(Leaving(s)') = Cardinality(Leaving(s))
        /\ Cardinality(Succeeding("signup")') = Cardinality(Succeeding("signup"))
        /\ Cardinality(Open) = Cardinality(Open') + 1 /\ Cardinality(Open') \in Nat
        /\ Cardinality(Succeeding("login")) \in Nat /\ Cardinality(Refused) \in Nat
    BY <1>7, <2>4, SetsDiffer DEF Differ
  <2>6. Traffic' /\ Plausible'
    BY <1>1, <2>1, <2>5 DEF MInv, Traffic, Plausible, Numbers
  <2>7. Business' /\ Honest'
    <3>0. told[401] \in Nat
      BY <2>1 DEF Numbers, Statuses
    <3>1. CASE o[1] = "failure" /\ status = 401
      <4>1. r \in Refused' /\ r \notin Succeeding("login")'
        BY <1>1, <1>7, <3>1 DEF Refused, IsRefused, Succeeding, Succeeds, IsBehind, Same
      <4>2. /\ Cardinality(Refused') = Cardinality(Refused) + 1
            /\ Cardinality(Succeeding("login")') = Cardinality(Succeeding("login"))
        BY <1>7, <2>4, <4>1, SetsDiffer DEF Differ
      <4>3. failed' = failed + 1
        BY <1>2, <3>1
      <4> QED
        BY <1>1, <2>1, <2>5, <3>0, <4>2, <4>3 DEF MInv, Business, Honest, Numbers
    <3>2. CASE o[1] = "success" /\ status = 200
      <4>1. r \notin Refused' /\ r \in Succeeding("login")'
        BY <1>1, <1>7, <3>2 DEF Refused, IsRefused, Succeeding, Succeeds, IsBehind, Same
      <4>2. /\ Cardinality(Refused') = Cardinality(Refused)
            /\ Cardinality(Succeeding("login")') = Cardinality(Succeeding("login")) + 1
        BY <1>7, <2>4, <4>1, SetsDiffer DEF Differ
      <4>3. failed' = failed
        BY <1>2, <3>2
      <4> QED
        BY <1>1, <2>1, <2>5, <3>0, <4>2, <4>3 DEF MInv, Business, Honest, Numbers
    <3> QED
      BY <1>4, <1>8, <3>1, <3>2
  <2>8. Locks(r) /\ RequestOK(r)' /\ alive' \in BOOLEAN /\ timed' \in BOOLEAN
    BY <1>1, <1>7 DEF Locks, Writes, RequestOK, RecordOK, Reading, Through, Same, MInv, TypeOK
  <2>9. requests <= requests' /\ failed <= failed'
    BY <1>1, <2>1, <2>2 DEF Numbers
  <2> QED
    BY <1>7, <2>3, <2>6, <2>7, <2>8, <2>9, CountingStep
<1> QED
  BY <1>4, <1>6, <1>8

\* The account is stored, with or without a mail that is counted.
LEMMA SignUpKeeps ==
  ASSUME MInv, NEW r \in Reqs, SignUp(r)
  PROVE  MInv'
<1>1. /\ req[r].pc = "handle" /\ req[r].route = "signup"
      /\ UNCHANGED <<alive, mutex, requests, statuses, timed, attempts, failed, registered,
                     answered, told, entered, joined>>
  BY DEF SignUp, At, maps, history
<1>2. CASE Handled(r, 500) /\ UNCHANGED sent
  <2>1. PICK status \in Statuses : status = 500 /\ status # 200
    BY DEF Statuses
  <2>2. Handled(r, status)
    BY <1>2, <2>1
  <2>3. Untouched
    BY <1>1, <1>2 DEF Untouched, maps, counters, history
  <2>4. \/ req[r].pc = "handle" /\ req[r].route \in {"login", "signup", "missing"} /\ status # 200
        \/ req[r].pc = "walk statuses" /\ status = req[r].status
    BY <1>1, <2>1
  <2> QED
    BY <2>2, <2>3, <2>4, HandledQuietly, Zenon
<1>3. CASE Goto(r, "joined") /\ (sent' = sent \/ sent' = sent + 1)
  <2>1. Others(r) /\ Same(r) /\ req'[r].status = req[r].status /\ req'[r].pc = "joined"
    BY <1>3, GotoMoves DEF MInv
  <2>2. Numbers
    BY NumbersAre DEF MInv
  <2>3. Numbers'
    BY <1>1, <1>3, <2>2 DEF Numbers
  <2>4. /\ r \in Past /\ r \in Past' /\ r \notin Joining /\ r \in Joining'
        /\ r \notin Refused /\ r \notin Refused' /\ r \in Open /\ r \in Open'
        /\ \A s \in Statuses : r \notin Leaving(s) /\ r \notin Leaving(s)'
        /\ \A route : r \notin Succeeding(route) /\ r \notin Succeeding(route)'
    BY <1>1, <2>1 DEF Past, InPast, Joining, Joins, Refused, IsRefused, Leaving, IsLeaving,
                      Succeeding, Succeeds, IsBehind, Open, IsOpen, Same
  <2>5. /\ Cardinality(Past') = Cardinality(Past) /\ Cardinality(Open') = Cardinality(Open)
        /\ Cardinality(Joining') = Cardinality(Joining) + 1 /\ Cardinality(Joining) \in Nat
        /\ Cardinality(Refused') = Cardinality(Refused)
        /\ \A s \in Statuses : Cardinality(Leaving(s)') = Cardinality(Leaving(s))
        /\ Cardinality(Succeeding("login")') = Cardinality(Succeeding("login"))
        /\ Cardinality(Succeeding("signup")') = Cardinality(Succeeding("signup"))
    BY <2>1, <2>4, SetsDiffer DEF Differ
  <2>6. Traffic' /\ Plausible' /\ Honest'
    BY <1>1, <2>5 DEF MInv, Traffic, Plausible, Honest
  <2>7. Business'
    BY <1>1, <1>3, <2>2, <2>5 DEF MInv, Business, Numbers
  <2>8. Locks(r) /\ RequestOK(r)' /\ alive' \in BOOLEAN /\ timed' \in BOOLEAN
    BY <1>1, <2>1 DEF Locks, Writes, RequestOK, RecordOK, Reading, Through, Same, MInv, TypeOK
  <2>9. requests <= requests' /\ failed <= failed'
    BY <1>1, <2>2 DEF Numbers
  <2> QED
    BY <2>1, <2>3, <2>6, <2>7, <2>8, <2>9, CountingStep
<1> QED
  BY <1>2, <1>3 DEF SignUp

LEMMA SignUpCountKeeps ==
  ASSUME MInv, NEW r \in Reqs, SignUpCount(r)
  PROVE  MInv'
<1>1. /\ req[r].pc = "joined" /\ registered' = registered + 1
      /\ UNCHANGED <<alive, mutex, requests, statuses, timed, attempts, failed, sent,
                     answered, told, entered, joined>>
  BY DEF SignUpCount, At, maps, history
<1>2. req[r].route = "signup"
  BY <1>1 DEF MInv, ReqsOK, RequestOK, RecordOK
<1>3. Others(r) /\ Same(r) /\ req'[r].pc = "time" /\ req'[r].status = 200
  <2>1. PICK status \in Statuses : status = 200
    BY DEF Statuses
  <2>2. Handled(r, status)
    BY <2>1 DEF SignUpCount
  <2> QED
    BY <2>1, <2>2, HandledMoves DEF MInv
<1>4. Numbers /\ Numbers'
  BY <1>1, NumbersAre DEF MInv, Numbers
<1>5. /\ r \in Past /\ r \in Past' /\ r \in Joining /\ r \notin Joining'
      /\ r \notin Refused /\ r \notin Refused' /\ r \in Open /\ r \notin Open'
      /\ \A s \in Statuses : r \notin Leaving(s) /\ r \notin Leaving(s)'
      /\ r \notin Succeeding("login") /\ r \notin Succeeding("login")'
      /\ r \notin Succeeding("signup") /\ r \in Succeeding("signup")'
  BY <1>1, <1>2, <1>3 DEF Past, InPast, Joining, Joins, Refused, IsRefused, Leaving, IsLeaving,
                          Succeeding, Succeeds, IsBehind, Open, IsOpen, Same
<1>6. /\ Cardinality(Past') = Cardinality(Past)
      /\ Cardinality(Open) = Cardinality(Open') + 1 /\ Cardinality(Open') \in Nat
      /\ Cardinality(Joining) = Cardinality(Joining') + 1 /\ Cardinality(Joining') \in Nat
      /\ Cardinality(Refused') = Cardinality(Refused)
      /\ \A s \in Statuses : Cardinality(Leaving(s)') = Cardinality(Leaving(s))
      /\ Cardinality(Succeeding("login")') = Cardinality(Succeeding("login"))
      /\ Cardinality(Succeeding("signup")') = Cardinality(Succeeding("signup")) + 1
      /\ Cardinality(Succeeding("signup")) \in Nat
  BY <1>3, <1>5, SetsDiffer DEF Differ
<1>7. Traffic' /\ Honest'
  BY <1>1, <1>6 DEF MInv, Traffic, Honest
<1>8. Business' /\ Plausible'
  BY <1>1, <1>4, <1>6 DEF MInv, Business, Plausible, Numbers
<1>9. Locks(r) /\ RequestOK(r)' /\ alive' \in BOOLEAN /\ timed' \in BOOLEAN
  BY <1>1, <1>2, <1>3 DEF Locks, Writes, RequestOK, RecordOK, Reading, Through, Same, MInv, TypeOK
<1>10. requests <= requests' /\ failed <= failed'
  BY <1>1, <1>4 DEF Numbers
<1> QED
  BY <1>3, <1>4, <1>7, <1>8, <1>9, <1>10, CountingStep

LEMMA TallyEndKeeps ==
  ASSUME MInv, NEW r \in Reqs, TallyEnd(r)
  PROVE  MInv'
<1>1. /\ req[r].pc = "tallying" /\ mutex' = NoReq /\ req[r] \in Request
      /\ statuses' = [statuses EXCEPT ![req[r].status] = @ + 1]
      /\ UNCHANGED <<alive, requests, timed, attempts, failed, registered, sent,
                     answered, told, entered, joined>>
  BY DEF TallyEnd, At, counters, history, MInv, TypeOK
<1>2. PICK status \in Statuses : status = req[r].status
  BY <1>1 DEF Request
<1>3. Others(r) /\ Same(r) /\ req'[r].status = status /\ req'[r].pc = "answer"
  BY <1>2, GotoMoves DEF TallyEnd, After, MInv
<1>4. Numbers
  BY NumbersAre DEF MInv
<1>5. /\ statuses' \in [Statuses -> Nat] /\ statuses'[status] = statuses[status] + 1
      /\ \A s \in Statuses \ {status} : statuses'[s] = statuses[s]
  BY <1>1, <1>2, <1>4 DEF Numbers
<1>6. Numbers'
  BY <1>1, <1>4, <1>5 DEF Numbers
<1>7. /\ r \in Past /\ r \in Past' /\ r \notin Joining /\ r \notin Joining'
      /\ r \in Refused <=> r \in Refused'
      /\ r \in Open <=> r \in Open'
      /\ \A s \in Statuses : r \notin Leaving(s) /\ (r \in Leaving(s)' <=> s = status)
      /\ \A route : r \in Succeeding(route) <=> r \in Succeeding(route)'
  BY <1>1, <1>2, <1>3 DEF Past, InPast, Joining, Joins, Refused, IsRefused, Leaving, IsLeaving,
                          Succeeding, Succeeds, IsBehind, Open, IsOpen, Same
<1>8. /\ Cardinality(Past') = Cardinality(Past) /\ Cardinality(Open') = Cardinality(Open)
      /\ Cardinality(Joining') = Cardinality(Joining) /\ Cardinality(Refused') = Cardinality(Refused)
      /\ \A s \in Statuses \ {status} : Cardinality(Leaving(s)') = Cardinality(Leaving(s))
      /\ Cardinality(Leaving(status)') = Cardinality(Leaving(status)) + 1
      /\ Cardinality(Leaving(status)) \in Nat
      /\ Cardinality(Succeeding("login")') = Cardinality(Succeeding("login"))
      /\ Cardinality(Succeeding("signup")') = Cardinality(Succeeding("signup"))
  BY <1>3, <1>7, SetsDiffer DEF Differ
<1>9. Business' /\ Plausible' /\ Honest'
  BY <1>1, <1>8 DEF MInv, Business, Plausible, Honest
<1>10. Traffic'
  <2>1. requests' = answered' + Cardinality(Past')
    BY <1>1, <1>8 DEF MInv, Traffic
  <2>2. ASSUME NEW s \in Statuses PROVE statuses'[s] = told'[s] + Cardinality(Leaving(s)')
    <3>1. statuses[s] = told[s] + Cardinality(Leaving(s)) /\ told[s] \in Nat
      BY <1>4 DEF MInv, Traffic, Numbers
    <3> QED
      BY <1>1, <1>5, <1>8, <3>1
  <2> QED
    BY <2>1, <2>2 DEF Traffic
<1>11. Locks(r)
  BY <1>1, <1>3 DEF Locks, Writes
<1>12. RequestOK(r)'
  <2>1. RecordOK(req[r], requests, failed)
    BY DEF MInv, ReqsOK, RequestOK
  <2>2. RecordOK(req'[r], requests, failed)
    BY <1>1, <1>2, <1>3, <2>1 DEF RecordOK, Reading, Through, Same
  <2> QED
    BY <1>1, <2>2 DEF RequestOK
<1>13. requests <= requests' /\ failed <= failed' /\ alive' \in BOOLEAN /\ timed' \in BOOLEAN
  BY <1>1, <1>4 DEF Numbers, MInv, TypeOK
<1> QED
  BY <1>3, <1>6, <1>9, <1>10, <1>11, <1>12, <1>13, CountingStep

LEMMA WalkStatusesKeeps ==
  ASSUME MInv, NEW r \in Reqs, WalkStatuses(r), ~Die
  PROVE  MInv'
<1>1. /\ req[r].pc = "walk statuses" /\ req[r] \in Request /\ Handled(r, req[r].status) /\ Untouched
  BY DEF WalkStatuses, At, Untouched, MInv, TypeOK
<1>2. PICK status \in Statuses : status = req[r].status
  BY <1>1 DEF Request
<1>3. Handled(r, status)
  BY <1>1, <1>2
<1>4. \/ req[r].pc = "handle" /\ req[r].route \in {"login", "signup", "missing"} /\ status # 200
      \/ req[r].pc = "walk statuses" /\ status = req[r].status
  BY <1>1, <1>2
<1> QED
  BY <1>1, <1>3, <1>4, HandledQuietly, Zenon

\* The answer takes the request out of every set and into what history has counted.
LEMMA AnswerKeeps ==
  ASSUME MInv, NEW r \in Reqs, Answer(r)
  PROVE  MInv'
<1>1. /\ req[r].pc = "answer" /\ req[r] \in Request /\ req' = [req EXCEPT ![r] = Idle]
      /\ answered' = answered + 1 /\ told' = [told EXCEPT ![req[r].status] = @ + 1]
      /\ entered' = IF req[r].route = "login" /\ req[r].status = 200 THEN entered + 1 ELSE entered
      /\ joined' = IF req[r].route = "signup" /\ req[r].status = 200 THEN joined + 1 ELSE joined
      /\ UNCHANGED <<alive, mutex, requests, statuses, timed, attempts, failed, registered, sent>>
  BY DEF Answer, At, maps, counters, MInv, TypeOK
<1>2. PICK status \in Statuses : status = req[r].status
  BY <1>1 DEF Request
<1>3. Idle \in Request /\ Idle.pc = "idle"
  BY DEF Idle, Request, NothingRead, Routes, Statuses
<1>4. Others(r) /\ req'[r].pc = "idle"
  BY <1>1, <1>3 DEF Others, MInv, TypeOK
<1>5. Numbers
  BY NumbersAre DEF MInv
<1>6. /\ told' \in [Statuses -> Nat] /\ told'[status] = told[status] + 1
      /\ \A s \in Statuses \ {status} : told'[s] = told[s]
  BY <1>1, <1>2, <1>5 DEF Numbers
<1>7. entered' \in Nat /\ joined' \in Nat
  BY <1>1, <1>5 DEF Numbers
<1>8. Numbers'
  BY <1>1, <1>5, <1>6, <1>7 DEF Numbers
<1>9. /\ r \in Past /\ r \notin Past' /\ r \notin Joining /\ r \notin Joining'
      /\ r \in Refused <=> req[r].route = "login" /\ status = 401
      /\ r \notin Refused' /\ r \notin Open'
      /\ \A s \in Statuses : r \notin Leaving(s)' /\ (r \in Leaving(s) <=> s = status)
      /\ \A route : r \notin Succeeding(route)' /\ (r \in Succeeding(route) <=> req[r].route = route /\ status = 200)
  BY <1>1, <1>2, <1>4 DEF Past, InPast, Joining, Joins, Refused, IsRefused, Leaving, IsLeaving,
                          Succeeding, Succeeds, IsBehind, Open, IsOpen
<1>10. /\ Cardinality(Past) = Cardinality(Past') + 1 /\ Cardinality(Past') \in Nat
       /\ Cardinality(Joining') = Cardinality(Joining)
       /\ \A s \in Statuses \ {status} : Cardinality(Leaving(s)') = Cardinality(Leaving(s))
       /\ Cardinality(Leaving(status)) = Cardinality(Leaving(status)') + 1
       /\ Cardinality(Leaving(status)') \in Nat
  BY <1>4, <1>9, SetsDiffer DEF Differ
<1>11. Cardinality(Open) \in Nat /\ Cardinality(Open') \in Nat /\ Cardinality(Open') <= Cardinality(Open)
  BY <1>4, <1>9, SetsDiffer DEF Differ
<1>12. Traffic'
  <2>1. requests' = answered' + Cardinality(Past')
    BY <1>1, <1>5, <1>10 DEF MInv, Traffic, Numbers
  <2>2. ASSUME NEW s \in Statuses PROVE statuses'[s] = told'[s] + Cardinality(Leaving(s)')
    <3>1. statuses[s] = told[s] + Cardinality(Leaving(s)) /\ told[s] \in Nat
      BY <1>5 DEF MInv, Traffic, Numbers
    <3> QED
      BY <1>1, <1>6, <1>10, <3>1
  <2> QED
    BY <2>1, <2>2 DEF Traffic
<1>13. Plausible'
  BY <1>1, <1>5, <1>11 DEF MInv, Plausible, Numbers
<1>14. Honest'
  <2>1. told[401] \in Nat /\ 401 \in Statuses
    BY <1>5 DEF Numbers, Statuses
  <2>2. CASE req[r].route = "login" /\ status = 401
    <3>1. Cardinality(Refused) = Cardinality(Refused') + 1 /\ Cardinality(Refused') \in Nat
      BY <1>4, <1>9, <2>2, SetsDiffer DEF Differ
    <3>2. told'[401] = told[401] + 1
      BY <1>6, <2>2
    <3> QED
      BY <1>1, <1>5, <2>1, <3>1, <3>2 DEF MInv, Honest, Numbers
  <2>3. CASE ~(req[r].route = "login" /\ status = 401)
    <3>1. Cardinality(Refused) = Cardinality(Refused') /\ Cardinality(Refused') \in Nat
      BY <1>4, <1>9, <2>3, SetsDiffer DEF Differ
    <3>2. told'[401] \in Nat /\ told[401] <= told'[401]
      BY <1>6, <2>1
    <3> QED
      BY <1>1, <1>5, <2>1, <3>1, <3>2 DEF MInv, Honest, Numbers
  <2> QED
    BY <2>2, <2>3
<1>15. Business'
  <2>1. attempts' = failed' + entered' + Cardinality(Succeeding("login")')
    <3>1. CASE req[r].route = "login" /\ status = 200
      <4>1. Cardinality(Succeeding("login")) = Cardinality(Succeeding("login")') + 1
            /\ Cardinality(Succeeding("login")') \in Nat
        BY <1>4, <1>9, <3>1, SetsDiffer DEF Differ
      <4> QED
        BY <1>1, <1>2, <1>5, <3>1, <4>1 DEF MInv, Business, Numbers
    <3>2. CASE ~(req[r].route = "login" /\ status = 200)
      <4>1. Cardinality(Succeeding("login")) = Cardinality(Succeeding("login")')
        BY <1>4, <1>9, <3>2, SetsDiffer DEF Differ
      <4> QED
        BY <1>1, <1>2, <3>2, <4>1 DEF MInv, Business
    <3> QED
      BY <3>1, <3>2
  <2>2. registered' = joined' + Cardinality(Succeeding("signup")')
    <3>1. CASE req[r].route = "signup" /\ status = 200
      <4>1. Cardinality(Succeeding("signup")) = Cardinality(Succeeding("signup")') + 1
            /\ Cardinality(Succeeding("signup")') \in Nat
        BY <1>4, <1>9, <3>1, SetsDiffer DEF Differ
      <4> QED
        BY <1>1, <1>2, <1>5, <3>1, <4>1 DEF MInv, Business, Numbers
    <3>2. CASE ~(req[r].route = "signup" /\ status = 200)
      <4>1. Cardinality(Succeeding("signup")) = Cardinality(Succeeding("signup")')
        BY <1>4, <1>9, <3>2, SetsDiffer DEF Differ
      <4> QED
        BY <1>1, <1>2, <3>2, <4>1 DEF MInv, Business
    <3> QED
      BY <3>1, <3>2
  <2>3. sent' <= registered' + Cardinality(Joining')
    BY <1>1, <1>10 DEF MInv, Business
  <2> QED
    BY <2>1, <2>2, <2>3 DEF Business
<1>16. Locks(r) /\ RequestOK(r)'
  BY <1>1, <1>4 DEF Locks, Writes, RequestOK, RecordOK, Reading, Through
<1>17. requests <= requests' /\ failed <= failed' /\ alive' \in BOOLEAN /\ timed' \in BOOLEAN
  BY <1>1, <1>5 DEF Numbers, MInv, TypeOK
<1> QED
  BY <1>4, <1>8, <1>12, <1>13, <1>14, <1>15, <1>16, <1>17, CountingStep

-----------------------------------------------------------------------------
(***************************************************************************)
(* The process                                                             *)
(***************************************************************************)
\* The end of the process is the initial state but for alive.
LEMMA DieKeeps ==
  ASSUME MInv, Die
  PROVE  MInv'
<1>1. /\ alive' = FALSE /\ mutex' = NoReq /\ requests' = 0 /\ statuses' = [s \in Statuses |-> 0]
      /\ timed' = FALSE /\ attempts' = 0 /\ failed' = 0 /\ registered' = 0 /\ sent' = 0
      /\ answered' = 0 /\ told' = [s \in Statuses |-> 0] /\ entered' = 0 /\ joined' = 0
      /\ req' = [p \in Reqs |-> Idle]
  BY DEF Die
<1>2. Idle.pc = "idle" /\ Idle \in Request
  BY DEF Idle, Request, NothingRead, Routes, Statuses
<1>3. req' \in [Reqs -> Request] /\ \A r \in Reqs : req'[r].pc = "idle"
  BY <1>1, <1>2
<1>4. TypeOK'
  <2>1. \A r \in Reqs : mutex' = r <=> req'[r].pc \in {"counting", "tallying"}
    BY <1>1, <1>3
  <2>2. {requests, attempts, failed, registered, sent, answered, entered, joined}' \subseteq Nat
    BY <1>1
  <2>3. statuses' \in [Statuses -> Nat] /\ told' \in [Statuses -> Nat]
    BY <1>1
  <2>4. alive' \in BOOLEAN /\ timed' \in BOOLEAN /\ mutex' \in Reqs \cup {NoReq}
    BY <1>1
  <2> QED
    BY <1>3, <2>1, <2>2, <2>3, <2>4 DEF TypeOK
<1>5. ReqsOK'
  BY <1>3 DEF ReqsOK, RequestOK, RecordOK, Reading, Through
<1>6. /\ Past' = {} /\ Joining' = {} /\ Open' = {} /\ Refused' = {}
      /\ \A s : Leaving(s)' = {}
      /\ \A route : Succeeding(route)' = {}
  BY <1>3 DEF Past, InPast, Joining, Joins, Open, IsOpen, Refused, IsRefused, Leaving, IsLeaving,
              Succeeding, Succeeds, IsBehind
<1>7. Cardinality({}) = 0
  BY FS_EmptySet
<1>8. Traffic' /\ Business' /\ Plausible' /\ Honest'
  BY <1>1, <1>6, <1>7 DEF Traffic, Business, Plausible, Honest, Statuses
<1> QED
  BY <1>4, <1>5, <1>8 DEF MInv

LEMMA RestKeeps ==
  ASSUME MInv, Restart \/ UNCHANGED vars
  PROVE  MInv'
<1>1. /\ UNCHANGED <<mutex, requests, statuses, timed, attempts, failed, registered, sent,
                     answered, told, entered, joined, req>>
      /\ alive' \in BOOLEAN
  BY DEF Restart, vars, maps, counters, history, MInv, TypeOK
<1>2. TypeOK'
  BY <1>1 DEF MInv, TypeOK
<1>3. ReqsOK'
  BY <1>1 DEF MInv, ReqsOK, RequestOK
<1>4. /\ Past' = Past /\ Joining' = Joining /\ Open' = Open /\ Refused' = Refused
      /\ \A s : Leaving(s)' = Leaving(s)
      /\ \A route : Succeeding(route)' = Succeeding(route)
  BY <1>1 DEF Past, InPast, Joining, Joins, Open, IsOpen, Refused, IsRefused, Leaving, IsLeaving,
              Succeeding, Succeeds, IsBehind
<1>5. Traffic' /\ Business' /\ Plausible' /\ Honest'
  BY <1>1, <1>4 DEF MInv, Traffic, Business, Plausible, Honest
<1> QED
  BY <1>2, <1>3, <1>5 DEF MInv

LEMMA NextMInv == MInv /\ [Next]_vars => MInv'
<1> SUFFICES ASSUME MInv, [Next]_vars PROVE MInv'
  OBVIOUS
<1>1. CASE Die
  BY <1>1, DieKeeps
<1>2. CASE \E r \in Reqs, route \in Routes : Arrive(r, route)
  BY <1>2, ArriveKeeps
<1>3. CASE ~Die /\ \E r \in Reqs : Handler(r)
  BY <1>3, LoginKeeps, SignUpKeeps, SignUpCountKeeps, MissingKeeps, ScrapeStartKeeps, HealthPingKeeps,
     SnapshotKeeps, WalkKeeps, WalkStatusesKeeps DEF Handler
<1>4. CASE \E r \in Reqs : Middleware(r)
  BY <1>4, CountEndKeeps, MiddlewareKeeps, TallyEndKeeps, AnswerKeeps DEF Middleware
<1>5. CASE Restart \/ UNCHANGED vars
  BY <1>5, RestKeeps
<1> QED
  BY <1>1, <1>2, <1>3, <1>4, <1>5 DEF Next

\* Every reachable state satisfies the inductive invariant.
THEOREM MetricsInvariant == Spec => []MInv
<1>1. Init => MInv
  BY InitMInv
<1>2. MInv /\ [Next]_vars => MInv'
  BY NextMInv
<1> QED
  BY <1>1, <1>2, PTL DEF Spec

\* The mutex of Metrics belongs to the one request that writes to a map.
THEOREM MetricsTypeCorrect == Spec => []TypeOK
<1>1. MInv => TypeOK
  BY MInvImplies
<1> QED
  BY <1>1, MetricsInvariant, PTL

\* IncrementRequests and IncrementStatus miss no request and count none twice.
THEOREM TrafficBalances == Spec => []TrafficBalance
<1>1. MInv => TrafficBalance
  BY MInvImplies
<1> QED
  BY <1>1, MetricsInvariant, PTL

\* What Login, SignUp and the mail counter have counted is what was answered.
THEOREM BusinessBalances == Spec => []BusinessBalance
<1>1. MInv => BusinessBalance
  BY MInvImplies
<1> QED
  BY <1>1, MetricsInvariant, PTL

\* GetSnapshot and the walk through the live map, which comes later, never show
\* more logins and sign-ups than requests.
THEOREM ScrapesArePlausible == Spec => []ScrapeIsPlausible
<1>1. MInv => ScrapeIsPlausible
  BY MInvImplies
<1> QED
  BY <1>1, MetricsInvariant, PTL

\* The text of Health agrees with its status, and its alert with refused logins.
THEOREM HealthIsBacked == Spec => []HealthIsHonest
<1>1. MInv => HealthIsHonest
  BY MInvImplies
<1> QED
  BY <1>1, MetricsInvariant, PTL
=============================================================================
