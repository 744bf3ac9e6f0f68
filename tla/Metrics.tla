------------------------------- MODULE Metrics -------------------------------
(***************************************************************************)
(* The metrics of the process, the middleware that counts every request,   *)
(* and the endpoints that read the counters: /metrics, /metrics/prometheus *)
(* and /health.                                                            *)
(*                                                                         *)
(* Counters change under a mutex.  GetSnapshot takes it as well and copies *)
(* the numbers, but returns the maps RequestsTotal and ResponseStatus      *)
(* themselves: whoever encodes the answer walks through them after the     *)
(* mutex is released.  The Go runtime ends the process when it notices     *)
(* that a map is walked through while it is written, so a write to one of  *)
(* them has a beginning and an end here; other counters, and the map of    *)
(* durations, which is copied, change in one step.                         *)
(*                                                                         *)
(* The keys of RequestsTotal are strings whose memory fiber uses again for *)
(* the next request.  Under which key a request is counted is therefore    *)
(* left open: requests is the sum over the map.                            *)
(***************************************************************************)
EXTENDS Integers, FiniteSets

CONSTANTS
  Reqs,         \* request goroutines that may run at the same time
  Alarm,        \* /health reports more failed logins than this (10)
  MaxRequests,  \* bound: requests in the life of a process
  NoReq

ASSUME MetricsAssumption ==
  /\ IsFiniteSet(Reqs) /\ NoReq \notin Reqs
  /\ Alarm \in Nat /\ MaxRequests \in Nat

VARIABLES
  alive,      \* the process runs
  mutex,      \* who writes to one of the two maps
  requests,   \* RequestsTotal, summed up
  statuses,   \* ResponseStatus
  timed,      \* whether RequestDuration has an entry
  attempts, failed, registered, sent,   \* the counters of those names
  answered,   \* history: requests that have been answered
  told,       \* history: the answers, by status
  entered,    \* history: logins answered with tokens
  joined,     \* history: sign-ups answered with success
  req         \* the local state of every request

counters == <<attempts, failed, registered, sent>>
maps == <<requests, statuses, timed>>
history == <<answered, told, entered, joined>>
vars == <<alive, mutex, requests, statuses, timed, attempts, failed, registered, sent,
          answered, told, entered, joined, req>>

-----------------------------------------------------------------------------
Routes == {"login", "signup", "scrape", "health", "missing"}

\* 401 and 500 stand for all refusals of their kind.
Statuses == {200, 401, 404, 500, 503}

\* What GetSnapshot has copied, and the requests found in the live map.
NothingRead == [attempts |-> 0, failed |-> 0, registered |-> 0, requests |-> 0]

Idle == [route |-> "none", pc |-> "idle", status |-> 200, verdict |-> "none", down |-> FALSE,
         read |-> NothingRead]

Request == [route : Routes \cup {"none"},
            pc : {"idle", "count", "counting", "handle", "joined", "snapshot", "walk requests",
                  "walk statuses", "time", "tally", "tallying", "answer"},
            status : Statuses, verdict : {"none", "healthy", "degraded", "unhealthy"},
            down : BOOLEAN,
            read : [attempts : Nat, failed : Nat, registered : Nat, requests : Nat]]

At(r, pc) == alive /\ req[r].pc = pc
Goto(r, pc) == req' = [req EXCEPT ![r].pc = pc]

MutexFreeAlways == TRUE   \* mutant: no lock
MutexFree == mutex = NoReq

AfterCountedLast(pc) ==   \* mutant: IncrementRequests comes behind the handler as well
  CASE pc = "arrive" -> "handle" [] pc = "counting" -> "answer" [] pc = "tallying" -> "count"
\* IncrementRequests, the handler, RecordDuration, IncrementStatus: in this order.
After(pc) ==
  CASE pc = "arrive" -> "count" [] pc = "counting" -> "handle" [] pc = "tallying" -> "answer"

AfterHandlerUnlessError(route) ==   \* mutant: an error is returned before it is counted
  IF route = "missing" THEN "answer" ELSE "time"
\* The middleware goes on behind c.Next() whatever that returned.
AfterHandler(route) == "time"

\* The handler of r is through with this status.
Handled(r, status) ==
  req' = [req EXCEPT ![r] = [@ EXCEPT !.pc = AfterHandler(req[r].route), !.status = status]]

\* The requests that are through with their handler.
Behind == {r \in Reqs : req[r].pc \in {"time", "tally", "tallying", "answer"}}

-----------------------------------------------------------------------------
(* MetricsMiddleware before the handler *)

Arrive(r, route) ==
  /\ alive /\ req[r] = Idle
  /\ answered + Cardinality({p \in Reqs : req[p] # Idle}) < MaxRequests
  /\ req' = [req EXCEPT ![r] = [Idle EXCEPT !.route = route, !.pc = After("arrive")]]
  /\ UNCHANGED <<alive, mutex, maps, counters, history>>

\* IncrementRequests: the write to the map begins ...
CountBegin(r) ==
  /\ At(r, "count") /\ MutexFree
  /\ mutex' = r
  /\ Goto(r, "counting")
  /\ UNCHANGED <<alive, maps, counters, history>>

\* ... and ends.
CountEnd(r) ==
  /\ At(r, "counting")
  /\ mutex' = NoReq
  /\ requests' = requests + 1
  /\ Goto(r, After("counting"))
  /\ UNCHANGED <<alive, statuses, timed, counters, history>>

-----------------------------------------------------------------------------
(* Handlers that count *)

LoginOutcomesEager ==   \* mutant: the login is counted before its session is stored
  {<<"failure", 401>>, <<"nothing", 401>>, <<"success", 500>>, <<"success", 200>>}
\* What Login counts and answers: a wrong address or password is a failure; an
\* unverified or banned account and a failing INSERT count as no attempt at all.
LoginOutcomes == {<<"failure", 401>>, <<"nothing", 401>>, <<"nothing", 500>>, <<"success", 200>>}

Login(r) ==
  /\ At(r, "handle") /\ req[r].route = "login"
  /\ \E o \in LoginOutcomes :
       /\ o[1] # "nothing" => MutexFree
       /\ attempts' = IF o[1] = "nothing" THEN attempts ELSE attempts + 1
       /\ failed' = IF o[1] = "failure" THEN failed + 1 ELSE failed
       /\ Handled(r, o[2])
  /\ UNCHANGED <<alive, mutex, maps, registered, sent, history>>

\* The account and its link are stored; a mail that is refused is not counted.
SignUp(r) ==
  /\ At(r, "handle") /\ req[r].route = "signup"
  /\ \/ Handled(r, 500) /\ UNCHANGED sent
     \/ Goto(r, "joined") /\ UNCHANGED sent
     \/ MutexFree /\ Goto(r, "joined") /\ sent' = sent + 1
  /\ UNCHANGED <<alive, mutex, maps, attempts, failed, registered, history>>

SignUpCount(r) ==
  /\ At(r, "joined") /\ MutexFree
  /\ registered' = registered + 1
  /\ Handled(r, 200)
  /\ UNCHANGED <<alive, mutex, maps, attempts, failed, sent, history>>

\* No route: fiber's error becomes a status in ErrorHandler, which the logger
\* middleware calls, inside of this one.
Missing(r) ==
  /\ At(r, "handle") /\ req[r].route = "missing"
  /\ Handled(r, 404)
  /\ UNCHANGED <<alive, mutex, maps, counters, history>>

-----------------------------------------------------------------------------
(* Handlers that read *)

ScrapeStart(r) ==
  /\ At(r, "handle") /\ req[r].route = "scrape"
  /\ Goto(r, "snapshot")
  /\ UNCHANGED <<alive, mutex, maps, counters, history>>

\* Health asks the database and Redis; one that does not answer makes it a 503.
HealthPing(r) ==
  /\ At(r, "handle") /\ req[r].route = "health"
  /\ \E dbDown, redisDown \in BOOLEAN :
       req' = [req EXCEPT ![r] =
                [@ EXCEPT !.pc = "snapshot", !.down = dbDown \/ redisDown,
                          !.status = IF dbDown \/ redisDown THEN 503 ELSE 200]]
  /\ UNCHANGED <<alive, mutex, maps, counters, history>>

VerdictOfPings(down, failures) == IF down THEN "unhealthy" ELSE "healthy"   \* mutant: no alert
\* The alert on failed logins is written over what the pings said; failed logins
\* are never forgotten while the process lives.
Verdict(down, failures) ==
  IF failures > Alarm THEN "degraded" ELSE IF down THEN "unhealthy" ELSE "healthy"

\* GetSnapshot, under the read lock: numbers and durations are copied.
Snapshot(r) ==
  /\ At(r, "snapshot") /\ MutexFree
  /\ req' = [req EXCEPT ![r] =
       [@ EXCEPT !.pc = "walk requests",
                 !.read = [attempts |-> attempts, failed |-> failed,
                           registered |-> registered, requests |-> 0],
                 !.verdict = IF req[r].route = "health" THEN Verdict(req[r].down, failed) ELSE "none"]]
  /\ UNCHANGED <<alive, mutex, maps, counters, history>>

\* Somebody writes to the map that is walked through.
Written(pc) == \E p \in Reqs : mutex = p /\ req[p].pc = pc

\* The process ends, and with it all it has counted.
Die ==
  /\ alive' = FALSE
  /\ mutex' = NoReq
  /\ requests' = 0 /\ statuses' = [s \in Statuses |-> 0] /\ timed' = FALSE
  /\ attempts' = 0 /\ failed' = 0 /\ registered' = 0 /\ sent' = 0
  /\ answered' = 0 /\ told' = [s \in Statuses |-> 0] /\ entered' = 0 /\ joined' = 0
  /\ req' = [p \in Reqs |-> Idle]

\* The answer is encoded from the live maps, without the lock.  While an entry is
\* being written the walk finds its old or its new value, or kills the process.
\* The entries of a map are taken at once: no property compares two of them.
WalkRequests(r) ==
  /\ At(r, "walk requests")
  /\ \/ /\ \E n \in requests .. requests + 1 :
             /\ n > requests => Written("counting")
             /\ req' = [req EXCEPT ![r] = [@ EXCEPT !.pc = "walk statuses", !.read.requests = n]]
        /\ UNCHANGED <<alive, mutex, maps, counters, history>>
     \/ Written("counting") /\ Die

WalkStatuses(r) ==
  /\ At(r, "walk statuses")
  /\ \/ Handled(r, req[r].status) /\ UNCHANGED <<alive, mutex, maps, counters, history>>
     \/ Written("tallying") /\ Die

-----------------------------------------------------------------------------
(* MetricsMiddleware behind the handler *)

RecordDuration(r) ==
  /\ At(r, "time") /\ MutexFree
  /\ timed' = TRUE
  /\ Goto(r, "tally")
  /\ UNCHANGED <<alive, mutex, requests, statuses, counters, history>>

\* IncrementStatus
TallyBegin(r) ==
  /\ At(r, "tally") /\ MutexFree
  /\ mutex' = r
  /\ Goto(r, "tallying")
  /\ UNCHANGED <<alive, maps, counters, history>>

TallyEnd(r) ==
  /\ At(r, "tallying")
  /\ mutex' = NoReq
  /\ statuses' = [statuses EXCEPT ![req[r].status] = @ + 1]
  /\ Goto(r, After("tallying"))
  /\ UNCHANGED <<alive, requests, timed, counters, history>>

Answer(r) ==
  /\ At(r, "answer")
  /\ answered' = answered + 1
  /\ told' = [told EXCEPT ![req[r].status] = @ + 1]
  /\ entered' = IF req[r].route = "login" /\ req[r].status = 200 THEN entered + 1 ELSE entered
  /\ joined' = IF req[r].route = "signup" /\ req[r].status = 200 THEN joined + 1 ELSE joined
  /\ req' = [req EXCEPT ![r] = Idle]
  /\ UNCHANGED <<alive, mutex, maps, counters>>

\* restart: unless-stopped; GetMetrics makes the counters anew.
Restart ==
  /\ ~alive
  /\ alive' = TRUE
  /\ UNCHANGED <<mutex, maps, counters, history, req>>

-----------------------------------------------------------------------------
Init ==
  /\ alive = TRUE
  /\ mutex = NoReq
  /\ requests = 0 /\ statuses = [s \in Statuses |-> 0] /\ timed = FALSE
  /\ attempts = 0 /\ failed = 0 /\ registered = 0 /\ sent = 0
  /\ answered = 0 /\ told = [s \in Statuses |-> 0] /\ entered = 0 /\ joined = 0
  /\ req = [r \in Reqs |-> Idle]

Handler(r) ==
  \/ Login(r) \/ SignUp(r) \/ SignUpCount(r) \/ Missing(r)
  \/ ScrapeStart(r) \/ HealthPing(r) \/ Snapshot(r) \/ WalkRequests(r) \/ WalkStatuses(r)
Middleware(r) ==
  CountBegin(r) \/ CountEnd(r) \/ RecordDuration(r) \/ TallyBegin(r) \/ TallyEnd(r) \/ Answer(r)

Next ==
  \/ \E r \in Reqs : (\E route \in Routes : Arrive(r, route)) \/ Handler(r) \/ Middleware(r)
  \/ Restart

Spec == Init /\ [][Next]_vars
-----------------------------------------------------------------------------
(* Properties *)

\* Every variable holds what the program can hold, and the mutex belongs to the
\* one request that writes to a map.
TypeOK ==
  /\ alive \in BOOLEAN
  /\ mutex \in Reqs \cup {NoReq}
  /\ \A r \in Reqs : mutex = r <=> req[r].pc \in {"counting", "tallying"}
  /\ {requests, attempts, failed, registered, sent, answered, entered, joined} \subseteq Nat
  /\ statuses \in [Statuses -> Nat] /\ told \in [Statuses -> Nat]
  /\ timed \in BOOLEAN
  /\ req \in [Reqs -> Request]

\* No request is counted twice or forgotten, however many run at once and
\* whatever becomes of them: the requests counted are those answered and those
\* under way, and every answer is counted under the status the client gets, also
\* where an error only becomes a status behind the handler.
TrafficBalance ==
  /\ requests = answered + Cardinality({r \in Reqs : req[r].pc \notin {"idle", "count", "counting"}})
  /\ \A s \in Statuses :
       statuses[s] = told[s] + Cardinality({r \in Reqs : req[r].pc = "answer" /\ req[r].status = s})

\* login_attempts less failed_logins are the logins that got (or are about to
\* get) their tokens, and users_registered the sign-ups that succeeded; a mail is
\* counted only for those.
BusinessBalance ==
  LET Succeeding(route) == {r \in Behind : req[r].route = route /\ req[r].status = 200}
  IN /\ attempts - failed = entered + Cardinality(Succeeding("login"))
     /\ registered = joined + Cardinality(Succeeding("signup"))
     /\ sent <= registered + Cardinality({r \in Reqs : req[r].pc = "joined"})

\* One answer mixes the numbers of its snapshot with a map that is read later,
\* while requests go on.  It never shows more logins and sign-ups than requests,
\* because a request is counted before its handler runs and the map is read last.
ScrapeIsPlausible ==
  \A r \in Reqs :
    req[r].route \in {"scrape", "health"} /\ (r \in Behind \/ req[r].pc = "walk statuses") =>
      req[r].read.attempts + req[r].read.registered < req[r].read.requests

\* An alarm hides an outage from the text of /health but never from its status,
\* and it is backed by as many refused logins since the process started.
HealthIsHonest ==
  LET Refused == {r \in Behind : req[r].route = "login" /\ req[r].status = 401}
  IN \A r \in Behind : req[r].route = "health" =>
       /\ req[r].status = 503 <=> req[r].down
       /\ req[r].verdict = "unhealthy" => req[r].status = 503
       /\ req[r].verdict = "healthy" => req[r].status = 200 /\ req[r].read.failed <= Alarm
       /\ req[r].verdict = "degraded" => told[401] + Cardinality(Refused) > Alarm

(* A claim of the comments that the code does not keep *)

\* metrics.go:104: GetSnapshot returns a snapshot that is safe to read.  Then no
\* reader would end the process.
SnapshotIsSafe == alive
=============================================================================
