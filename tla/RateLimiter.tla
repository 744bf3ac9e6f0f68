----------------------------- MODULE RateLimiter -----------------------------
(***************************************************************************)
(* The rate limiter in front of the auth and profile routes: a counter in  *)
(* Redis per bucket and client address, which a Lua script creates with a  *)
(* time to live, increments and compares.  Requests are goroutines; the    *)
(* script is atomic, the TTL that goes into the text of a refusal is read  *)
(* by a second command.  Time counts in the seconds of EX.                 *)
(***************************************************************************)
EXTENDS Integers

CONSTANTS
  Endpoints,  \* the routes that clients use, some of DOMAIN Bucket
  IPs,        \* client addresses
  Limit,      \* requests a bucket admits per window: a function of the bucket
  Window,     \* seconds
  Reqs,       \* request goroutines that may run at the same time
  Faults,     \* what may go wrong: a subset of FaultKinds
  NoKey

FaultKinds ==
  { "failed",   \* a command fails and has no effect
    "unsure",   \* the script runs and its caller gets an error
    "restart" } \* Redis restarts without its keys

\* The bucket that the middleware of a route counts in: all auth routes share one.
Bucket ==
  [signup |-> "auth", login |-> "auth", refresh |-> "auth", profile |-> "profile",
   resend_verification |-> "auth", reset_password |-> "auth"]

Buckets == DOMAIN Limit
Keys == Buckets \X IPs

ASSUME LimiterAssumption ==
  /\ Endpoints \subseteq DOMAIN Bucket
  /\ \A e \in Endpoints : Bucket[e] \in Buckets
  /\ Limit \in [Buckets -> Nat \ {0}]
  /\ Window \in Nat \ {0}
  /\ Faults \subseteq FaultKinds
  /\ NoKey \notin Keys

VARIABLES
  redis,     \* the entries of Redis, by key; one without time to live does not exist
  admitted,  \* history: requests admitted since the entry of a key was created
  recent,    \* history: requests this Redis has admitted in the last 1, 2, ..., Window seconds, by key
  req        \* the local state of every request

vars == <<redis, admitted, recent, req>>

-----------------------------------------------------------------------------
NoEntry == [count |-> 0, ttl |-> 0]
Exists(k) == redis[k].ttl > 0
LimitOf(k) == Limit[k[1]]

Idle == [pc |-> "idle", key |-> NoKey, status |-> 0, wait |-> 0]
Request == [pc : {"idle", "allow", "ttl", "done"},
            key : Keys \cup {NoKey},
            status : {0, 200, 429, 500},
            wait : -2..Window]   \* the number in the text of a refusal

NothingRecent == [k \in Keys |-> [age \in 0..Window - 1 |-> 0]]

\* The most that recent tells apart: this number or more.
RecentCap(k) == 2 * LimitOf(k)
OneMoreRecent(k) ==
  [age \in 0..Window - 1 |-> IF recent[k][age] < RecentCap(k) THEN recent[k][age] + 1 ELSE recent[k][age]]

AdmitsOneMore(k) ==   \* mutant: current > limit
  ~Exists(k) \/ redis[k].count <= LimitOf(k)
\* rateLimitScript: whether it returns 1, and the entry it leaves.
Admits(k) == ~Exists(k) \/ redis[k].count < LimitOf(k)

CountedAnew(k) ==   \* mutant: every call sets the time to live
  [count |-> IF ~Exists(k) THEN 1 ELSE IF Admits(k) THEN redis[k].count + 1 ELSE redis[k].count,
   ttl |-> Window]
CountedWithShortTTL(k) ==   \* mutant: the entry lives for a second less than the window
  IF ~Exists(k) THEN [count |-> 1, ttl |-> Window - 1]
  ELSE IF Admits(k) THEN [redis[k] EXCEPT !.count = @ + 1]
  ELSE redis[k]
Counted(k) ==
  IF ~Exists(k) THEN [count |-> 1, ttl |-> Window]
  ELSE IF Admits(k) THEN [redis[k] EXCEPT !.count = @ + 1]
  ELSE redis[k]

-----------------------------------------------------------------------------
Arrive(r, e, ip) ==
  /\ req[r] = Idle
  /\ req' = [req EXCEPT ![r] = [Idle EXCEPT !.pc = "allow", !.key = <<Bucket[e], ip>>]]
  /\ UNCHANGED <<redis, admitted, recent>>

Answer(r, status, wait) ==
  req' = [req EXCEPT ![r] = [[[@ EXCEPT !.pc = "done"] EXCEPT !.status = status] EXCEPT !.wait = wait]]

\* Allow returns true: the request goes on to its handler.
AllowAdmit(r) ==
  LET k == req[r].key
  IN /\ req[r].pc = "allow" /\ Admits(k)
     /\ redis' = [redis EXCEPT ![k] = Counted(k)]
     /\ admitted' = [admitted EXCEPT ![k] = IF Exists(k) THEN @ + 1 ELSE 1]
     /\ recent' = [recent EXCEPT ![k] = OneMoreRecent(k)]
     /\ Answer(r, 200, 0)

\* Allow returns false; what the script leaves is what it found.
AllowRefuse(r) ==
  LET k == req[r].key
  IN /\ req[r].pc = "allow" /\ ~Admits(k)
     /\ redis' = [redis EXCEPT ![k] = Counted(k)]
     /\ req' = [req EXCEPT ![r] = [@ EXCEPT !.pc = "ttl"]]
     /\ UNCHANGED <<admitted, recent>>

\* Allow returns an error: 500, whether the script has run or not.
AllowError(r) ==
  LET k == req[r].key
  IN /\ req[r].pc = "allow"
     /\ \/ "failed" \in Faults /\ UNCHANGED <<redis, admitted>>
        \/ /\ "unsure" \in Faults
           /\ redis' = [redis EXCEPT ![k] = Counted(k)]
           /\ admitted' = [admitted EXCEPT ![k] = IF Exists(k) THEN @ ELSE 0]
     /\ Answer(r, 500, 0)
     /\ UNCHANGED recent

\* GetTTL: -2 of a key that is gone by now; its error is ignored and reads 0.
ReadTTL(r) ==
  LET k == req[r].key
  IN /\ req[r].pc = "ttl"
     /\ \/ Answer(r, 429, IF Exists(k) THEN redis[k].ttl ELSE -2)
        \/ "failed" \in Faults /\ Answer(r, 429, 0)
     /\ UNCHANGED <<redis, admitted, recent>>

Leave(r) ==
  /\ req[r].pc = "done"
  /\ req' = [req EXCEPT ![r] = Idle]
  /\ UNCHANGED <<redis, admitted, recent>>

\* A second passes: entries expire, and the history ages.
Tick ==
  /\ redis' = [k \in Keys |-> IF redis[k].ttl > 1 THEN [redis[k] EXCEPT !.ttl = @ - 1] ELSE NoEntry]
  /\ recent' = [k \in Keys |-> [age \in 0..Window - 1 |-> IF age = 0 THEN 0 ELSE recent[k][age - 1]]]
  /\ UNCHANGED <<admitted, req>>

RedisRestart ==
  /\ "restart" \in Faults
  /\ redis' = [k \in Keys |-> NoEntry]
  /\ recent' = NothingRecent
  /\ UNCHANGED <<admitted, req>>

-----------------------------------------------------------------------------
Init ==
  /\ redis = [k \in Keys |-> NoEntry]
  /\ admitted = [k \in Keys |-> 0]
  /\ recent = NothingRecent
  /\ req = [r \in Reqs |-> Idle]

Run(r) == AllowAdmit(r) \/ AllowRefuse(r) \/ AllowError(r) \/ ReadTTL(r) \/ Leave(r)

Next ==
  \/ \E r \in Reqs :
       \/ \E e \in Endpoints, ip \in IPs : Arrive(r, e, ip)
       \/ Run(r)
  \/ Tick
  \/ RedisRestart

Spec == Init /\ [][Next]_vars

\* Time passes, however many requests are made.
FairSpec == Spec /\ WF_vars(Tick)
-----------------------------------------------------------------------------
(* Properties *)

\* Every variable holds what Redis and the handlers can hold; a counter never
\* passes its limit and never outlives its time to live.
TypeOK ==
  /\ redis \in [Keys -> [count : Nat, ttl : 0..Window]]
  /\ \A k \in Keys : redis[k].count <= LimitOf(k) /\ (redis[k].count > 0 <=> Exists(k))
  /\ admitted \in [Keys -> Nat]
  /\ recent \in [Keys -> [0..Window - 1 -> Nat]]
  /\ req \in [Reqs -> Request]

\* While the entry of a key lives, the limiter has admitted no more requests
\* than the limit, whatever errors Redis reports and however many requests race
\* for the last place (rateLimitScript).
WindowBound == \A k \in Keys : Exists(k) => admitted[k] <= LimitOf(k)

\* Windows start with their first request, so in any Window seconds on end a
\* client gets at most one request less than twice the limit through: the end
\* of one window without its first request, and the whole of the next.  (Redis
\* forgets the counters when it restarts, and the windows start anew.)
SlidingBound == \A k \in Keys : recent[k][Window - 1] <= 2 * LimitOf(k) - 1

\* A client that has used up its limit is let in again after a while, also when
\* it (or somebody behind the same address) never stops asking.
BlockIsLifted == \A k \in Keys : ~Admits(k) ~> Admits(k)
=============================================================================
