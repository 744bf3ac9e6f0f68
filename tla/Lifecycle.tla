------------------------------ MODULE Lifecycle ------------------------------
(***************************************************************************)
(* The process from the moment its signal handler is armed: main still has *)
(* to call Listen and then waits in it, a second goroutine waits for       *)
(* SIGTERM and then closes Redis, the database pool and the HTTP server,   *)
(* in this order, while requests go on.  Closing the pool happens in a     *)
(* third goroutine, which the second waits for at most five seconds, and   *)
(* once more in main, deferred.                                            *)
(*                                                                         *)
(* Of a request only what the shutdown can touch is kept: whether it asks  *)
(* the rate limiter first, how many times it takes a connection from the   *)
(* pool (a transaction is one of them), and how it is answered.            *)
(***************************************************************************)
EXTENDS Integers, FiniteSets

CONSTANTS
  Reqs,           \* request goroutines that may run at the same time
  MaxConns,       \* connections in the pool
  MaxStatements   \* bound: statements and transactions of one request

ASSUME LifecycleAssumption ==
  /\ IsFiniteSet(Reqs)
  /\ MaxConns \in Nat \ {0}
  /\ MaxStatements \in Nat \ {0}

VARIABLES
  main,      \* the main goroutine: before, in and behind Listen, which may fail
  stopper,   \* the goroutine that handles the signal
  redis,     \* the Redis client: open or closed
  pool,      \* the connection pool: open, closing (it waits for its connections) or closed
  listening, \* the listener of the HTTP server
  req        \* the requests that were accepted

vars == <<main, stopper, redis, pool, listening, req>>

-----------------------------------------------------------------------------
Idle == [pc |-> "idle", left |-> 0, status |-> 0]
Request == [pc : {"idle", "limit", "acquire", "busy", "done"}, left : 0..MaxStatements,
            status : {0, 200, 500}]

Alive == main # "exited"
Busy == {r \in Reqs : req[r].pc = "busy"}

Goto(r, pc) == req' = [req EXCEPT ![r] = [@ EXCEPT !.pc = pc]]
Finish(r, status) == req' = [req EXCEPT ![r] = [[@ EXCEPT !.pc = "done"] EXCEPT !.status = status]]

NextStatement(q) == [[q EXCEPT !.pc = "acquire"] EXCEPT !.left = q.left - 1]
\* After a statement, or instead of one whose error the handler ignores.
Proceed(r) ==
  IF req[r].left = 1 THEN Finish(r, 200)
  ELSE req' = [req EXCEPT ![r] = NextStatement(@)]

-----------------------------------------------------------------------------
(* Requests *)

\* A connection that is open already may bring a request while the server stops.
Accept(r) ==
  /\ main \in {"listen", "closing"} /\ req[r] = Idle
  /\ \E n \in 1..MaxStatements, pc \in {"limit", "acquire"} :
       req' = [req EXCEPT ![r] = [[Idle EXCEPT !.pc = pc] EXCEPT !.left = n]]
  /\ UNCHANGED <<main, stopper, redis, pool, listening>>

\* RateLimitMiddleware answers an error of the limiter with 500.
CheckLimit(r) ==
  /\ Alive /\ req[r].pc = "limit"
  /\ \/ redis = "open" /\ Goto(r, "acquire")
     \/ redis = "closed" /\ Finish(r, 500)
  /\ UNCHANGED <<main, stopper, redis, pool, listening>>

\* A pool that is being closed gives out no connection.  The handlers answer
\* the error with 500, except those that ignore the errors of a statement.
AcquireUnbounded(r) == pool = "open"   \* mutant: the pool has no size
Acquirable(r) == pool = "open" /\ Cardinality(Busy) < MaxConns

RefusedNever(r) == FALSE   \* mutant: who waits for a connection of a closed pool waits on
Refused(r) == pool # "open"

Acquire(r) ==
  /\ Alive /\ req[r].pc = "acquire"
  /\ \/ Acquirable(r) /\ Goto(r, "busy")
     \/ Refused(r) /\ Finish(r, 500)
     \/ Refused(r) /\ Proceed(r)
  /\ UNCHANGED <<main, stopper, redis, pool, listening>>

\* The statement or the transaction is over and its connection returned.
Release(r) ==
  /\ Alive /\ req[r].pc = "busy"
  /\ Proceed(r)
  /\ UNCHANGED <<main, stopper, redis, pool, listening>>

Reply(r) ==
  /\ Alive /\ req[r].pc = "done"
  /\ req' = [req EXCEPT ![r] = Idle]
  /\ UNCHANGED <<main, stopper, redis, pool, listening>>

-----------------------------------------------------------------------------
(* Shutdown *)

\* SIGTERM or an interrupt, from the time the handler is armed, which is before
\* main calls Listen; a second one stays in the channel unread.
Signal ==
  /\ Alive /\ stopper = "waiting"
  /\ stopper' = "redis"
  /\ UNCHANGED <<main, redis, pool, listening, req>>

CloseRedis ==
  /\ Alive /\ stopper = "redis"
  /\ redis' = "closed"
  /\ stopper' = "select"
  /\ UNCHANGED <<main, pool, listening, req>>

\* db.Close of the third goroutine, which runs from the time of the select on.
ClosePool ==
  /\ Alive /\ stopper \in {"select", "server", "end"} /\ pool = "open"
  /\ pool' = "closing"
  /\ UNCHANGED <<main, stopper, redis, listening, req>>

\* db.Close returns, to both of its callers, when no connection is in use.
PoolClosed ==
  /\ Alive /\ pool = "closing" /\ Busy = {}
  /\ pool' = "closed"
  /\ UNCHANGED <<main, stopper, redis, listening, req>>

AfterTimeoutGiveUp == "end"   \* mutant: a timeout skips the HTTP server
AfterTimeout == "server"

\* The select: the pool has closed, or five seconds are over.
Select ==
  /\ Alive /\ stopper = "select"
  /\ \/ pool = "closed" /\ stopper' = "server"
     \/ stopper' = AfterTimeout
  /\ UNCHANGED <<main, redis, pool, listening, req>>

\* ShutdownWithContext closes the listener first; Listen returns at once, so
\* what it waits for afterwards has no effect on main.  Before main has a
\* listener there is none to close: nothing happens, and nobody looks at that.
StopServer ==
  /\ Alive /\ stopper = "server"
  /\ listening' = FALSE
  /\ stopper' = "end"
  /\ UNCHANGED <<main, redis, pool, req>>

AfterListenExit == "exited"   \* mutant: no deferred db.Close
AfterListen == "closing"

\* Listen gets its listener, whatever the signal has closed meanwhile, or returns
\* an error because the port is taken.
Listen ==
  /\ main = "starting"
  /\ \/ main' = "listen" /\ listening' = TRUE
     \/ main' = "failed" /\ UNCHANGED listening
  /\ UNCHANGED <<stopper, redis, pool, req>>

ListenReturns ==
  /\ main = "listen" /\ ~listening
  /\ main' = AfterListen
  /\ UNCHANGED <<stopper, redis, pool, listening, req>>

\* The deferred db.Close of main starts the closing, or joins the one that runs.
DeferredClose ==
  /\ main \in {"closing", "failed"}
  /\ \/ /\ pool = "open" /\ pool' = "closing"
        /\ UNCHANGED main
     \/ /\ pool = "closed" /\ main' = "exited"
        /\ UNCHANGED pool
  /\ UNCHANGED <<stopper, redis, listening, req>>

-----------------------------------------------------------------------------
\* The state behind signal.Notify and the start of the second goroutine.
Init ==
  /\ main = "starting"
  /\ stopper = "waiting"
  /\ redis = "open"
  /\ pool = "open"
  /\ listening = FALSE
  /\ req = [r \in Reqs |-> Idle]

Shutdown == CloseRedis \/ ClosePool \/ PoolClosed \/ Select \/ StopServer \/ ListenReturns \/ DeferredClose
Handle(r) == CheckLimit(r) \/ Acquire(r) \/ Reply(r)

Next ==
  \/ \E r \in Reqs : Accept(r) \/ Handle(r) \/ Release(r)
  \/ Listen
  \/ Signal
  \/ Shutdown

Spec == Init /\ [][Next]_vars

\* The goroutines of the shutdown and of the requests are scheduled, Postgres
\* answers, so that a connection in use is returned, and the queue for
\* connections is first in, first out, so that nobody is overtaken for ever.
FairSpec ==
  /\ Spec
  /\ WF_vars(Listen) /\ WF_vars(Shutdown)
  /\ \A r \in Reqs : WF_vars(CheckLimit(r) \/ Release(r) \/ Reply(r)) /\ SF_vars(Acquire(r))
-----------------------------------------------------------------------------
(* Properties *)

\* Every variable holds what the process can hold, and no more connections are
\* in use than the pool has.
TypeOK ==
  /\ main \in {"starting", "listen", "failed", "closing", "exited"}
  /\ stopper \in {"waiting", "redis", "select", "server", "end"}
  /\ redis \in {"open", "closed"}
  /\ pool \in {"open", "closing", "closed"}
  /\ listening \in BOOLEAN
  /\ req \in [Reqs -> Request]
  /\ Cardinality(Busy) <= MaxConns

\* The process does not exit in the middle of a statement or a transaction,
\* although the five seconds may run out and main returns while requests run:
\* the deferred db.Close waits for every connection.
NoTransactionCut == main = "exited" => Busy = {}

\* As long as Postgres answers, a signal that comes while the server listens ends
\* the process, whatever requests keep coming; so does one that came earlier, if
\* the server listens before the second goroutine gets to it.  (One statement that
\* hangs keeps the process alive for good: the timeout of five seconds does not
\* reach the deferred db.Close.  And it is not so that every signal ends the
\* process: if the goroutine has called ShutdownWithContext, which found nothing
\* to close, before main has a listener, then stopper is "end" while main listens,
\* and the process goes on without Redis and database, deaf to further signals.)
ShutdownEnds == main = "listen" /\ stopper \notin {"waiting", "end"} ~> main = "exited"

\* A request that was accepted is answered, if the process does not exit first:
\* also when its turn for a connection comes after the pool was closed, and also
\* in a server that goes on listening behind a closed pool.
RequestsEnd == \A r \in Reqs : req[r] # Idle ~> req[r] = Idle \/ main = "exited"
=============================================================================
