--------------------------- MODULE LifecycleProofs ---------------------------
(***************************************************************************)
(* Theorems about Lifecycle, for every set of requests and every size of   *)
(* the pool.                                                               *)
(***************************************************************************)
EXTENDS Lifecycle, FiniteSetTheorems, TLAPS

(***************************************************************************)
(* The inductive invariant.  main exits only behind a closed pool, a pool  *)
(* becomes closed only when no connection is in use, and gives out none    *)
(* from the moment its closing begins.  LeftOK is what the type of the     *)
(* counter of statements needs.                                            *)
(***************************************************************************)
LeftOK == \A r \in Reqs : req[r].pc \in {"limit", "acquire", "busy"} => req[r].left > 0
ClosedIsIdle == pool = "closed" => \A r \in Reqs : req[r].pc # "busy"
ExitIsClosed == main = "exited" => pool = "closed"

IInv == TypeOK /\ LeftOK /\ ClosedIsIdle /\ ExitIsClosed

USE LifecycleAssumption

-----------------------------------------------------------------------------
LEMMA InitIInv == Init => IInv
<1> SUFFICES ASSUME Init PROVE IInv
  OBVIOUS
<1>1. Idle \in Request /\ Idle.pc = "idle"
  BY DEF Idle, Request
<1>2. Busy = {}
  BY <1>1 DEF Init, Busy
<1>3. Cardinality(Busy) = 0
  BY <1>2, FS_EmptySet
<1>4. TypeOK
  <2>1. req \in [Reqs -> Request]
    BY <1>1 DEF Init
  <2>2. Cardinality(Busy) <= MaxConns
    BY <1>3
  <2> QED
    BY <2>1, <2>2 DEF Init, TypeOK
<1>5. LeftOK
  BY <1>1 DEF Init, LeftOK
<1>6. ClosedIsIdle /\ ExitIsClosed
  BY DEF Init, ClosedIsIdle, ExitIsClosed
<1> QED
  BY <1>4, <1>5, <1>6 DEF IInv

\* The set of busy requests is finite, and grows by at most the request that steps.
LEMMA BusyGrows ==
  ASSUME NEW r \in Reqs, NEW S \in SUBSET Reqs, NEW T \in SUBSET Reqs,
         T \subseteq S \cup {r}, r \in T => Cardinality(S) < MaxConns,
         Cardinality(S) <= MaxConns
  PROVE  Cardinality(T) <= MaxConns
<1>1. IsFiniteSet(S) /\ IsFiniteSet(S \cup {r}) /\ Cardinality(S) \in Nat
      /\ Cardinality(S \cup {r}) <= Cardinality(S) + 1
      /\ Cardinality(S \cup {r}) \in Nat
  <2>1. IsFiniteSet(S) /\ Cardinality(S) \in Nat
    BY FS_Subset, FS_CardinalityType
  <2>2. /\ IsFiniteSet(S \cup {r})
        /\ Cardinality(S \cup {r}) = IF r \in S THEN Cardinality(S) ELSE Cardinality(S) + 1
    BY <2>1, FS_AddElement
  <2>3. Cardinality(S \cup {r}) <= Cardinality(S) + 1
    BY <2>1, <2>2
  <2>4. Cardinality(S \cup {r}) \in Nat
    BY <2>2, FS_CardinalityType
  <2> QED
    BY <2>1, <2>2, <2>3, <2>4
<1>2. CASE r \in T
  <2>1. Cardinality(T) <= Cardinality(S \cup {r}) /\ Cardinality(T) \in Nat
    BY <1>1, FS_Subset, FS_CardinalityType
  <2> QED
    BY <1>1, <1>2, <2>1
<1>3. CASE r \notin T
  <2>1. T \subseteq S
    BY <1>3
  <2>2. Cardinality(T) <= Cardinality(S) /\ Cardinality(T) \in Nat
    BY <1>1, <2>1, FS_Subset, FS_CardinalityType
  <2> QED
    BY <1>1, <2>2
<1> QED
  BY <1>2, <1>3

\* A step of one request that only becomes busy while the pool is open.
LEMMA RequestStep ==
  ASSUME IInv, NEW r \in Reqs, NEW q \in Request,
         req' = [req EXCEPT ![r] = q],
         q.pc \in {"limit", "acquire", "busy"} => q.left > 0,
         q.pc = "busy" => pool = "open" /\ Cardinality(Busy) < MaxConns,
         UNCHANGED <<main, stopper, redis, pool, listening>>
  PROVE  IInv'
<1>1. TypeOK'
  <2>1. req' \in [Reqs -> Request]
    BY DEF IInv, TypeOK
  <2>2. Busy' \subseteq Busy \cup {r} /\ (r \in Busy' => Cardinality(Busy) < MaxConns)
    BY DEF IInv, TypeOK, Busy
  <2>3. Busy \in SUBSET Reqs /\ Busy' \in SUBSET Reqs /\ Cardinality(Busy) <= MaxConns
    BY DEF Busy, IInv, TypeOK
  <2>4. Cardinality(Busy') <= MaxConns
    BY <2>2, <2>3, BusyGrows
  <2> QED
    BY <2>1, <2>4 DEF IInv, TypeOK
<1>2. LeftOK'
  BY DEF IInv, TypeOK, LeftOK
<1>3. ClosedIsIdle'
  BY DEF IInv, TypeOK, ClosedIsIdle
<1>4. ExitIsClosed'
  BY DEF IInv, ExitIsClosed
<1> QED
  BY <1>1, <1>2, <1>3, <1>4 DEF IInv

\* What a request becomes is a request.
LEMMA GotoType ==
  ASSUME NEW x \in Request, NEW pc \in {"idle", "limit", "acquire", "busy", "done"}
  PROVE  /\ [x EXCEPT !.pc = pc] \in Request
         /\ [x EXCEPT !.pc = pc].pc = pc
         /\ [x EXCEPT !.pc = pc].left = x.left
  BY DEF Request

LEMMA LeftType ==
  ASSUME NEW x \in Request, NEW n \in 0..MaxStatements
  PROVE  /\ [x EXCEPT !.left = n] \in Request
         /\ [x EXCEPT !.left = n].pc = x.pc
         /\ [x EXCEPT !.left = n].left = n
  BY DEF Request

LEMMA FinishStep ==
  ASSUME IInv, NEW r \in Reqs, NEW status \in {200, 500}, Finish(r, status),
         UNCHANGED <<main, stopper, redis, pool, listening>>
  PROVE  IInv'
<1> DEFINE x == [req[r] EXCEPT !.pc = "done"]
           y == [x EXCEPT !.status = status]
<1>1. req[r] \in Request
  BY DEF IInv, TypeOK
<1>2. x \in Request /\ x.pc = "done"
  BY <1>1, GotoType
<1>3. req' = [req EXCEPT ![r] = y]
  BY Zenon DEF Finish
<1> HIDE DEF x
<1>4. y \in Request /\ y.pc = "done"
  BY <1>2 DEF Request
<1> HIDE DEF y
<1> QED
  BY <1>3, <1>4, RequestStep

LEMMA GotoStep ==
  ASSUME IInv, NEW r \in Reqs, NEW pc \in {"acquire", "busy"}, Goto(r, pc),
         req[r].pc \in {"limit", "acquire"},
         pc = "busy" => Acquirable(r),
         UNCHANGED <<main, stopper, redis, pool, listening>>
  PROVE  IInv'
<1> DEFINE x == [req[r] EXCEPT !.pc = pc]
<1>1. req[r] \in Request /\ req[r].left > 0
  BY DEF IInv, TypeOK, LeftOK
<1>2. x \in Request /\ x.pc = pc /\ x.left = req[r].left
  <2>1. pc \in {"idle", "limit", "acquire", "busy", "done"}
    OBVIOUS
  <2> QED
    BY <1>1, <2>1, GotoType
<1>3. req' = [req EXCEPT ![r] = x]
  BY Zenon DEF Goto
<1> HIDE DEF x
<1> QED
  BY <1>1, <1>2, <1>3, RequestStep DEF Acquirable

LEMMA ProceedStep ==
  ASSUME IInv, NEW r \in Reqs, Proceed(r), req[r].pc \in {"acquire", "busy"},
         UNCHANGED <<main, stopper, redis, pool, listening>>
  PROVE  IInv'
<1>1. CASE req[r].left = 1
  <2>1. Finish(r, 200)
    BY <1>1 DEF Proceed
  <2> QED
    BY <2>1, FinishStep
<1>2. CASE req[r].left # 1
  <2> DEFINE x == [req[r] EXCEPT !.pc = "acquire"]
             n == req[r].left - 1
             y == [x EXCEPT !.left = n]
  <2>1. req[r] \in Request /\ req[r].left > 0
    BY DEF IInv, TypeOK, LeftOK
  <2>2. x \in Request /\ x.pc = "acquire" /\ x.left = req[r].left
    BY <2>1, GotoType
  <2>3. req' = [req EXCEPT ![r] = y]
    BY <1>2, Zenon DEF Proceed, NextStatement
  <2> HIDE DEF x
  <2>4. req[r].left \in 0..MaxStatements
    BY <2>1 DEF Request
  <2>5. n \in 0..MaxStatements /\ n > 0
    BY <1>2, <2>1, <2>2, <2>4
  <2> HIDE DEF n
  <2>6. y \in Request /\ y.pc = "acquire" /\ y.left = n
    BY <2>2, <2>5, LeftType
  <2> HIDE DEF y
  <2> QED
    BY <2>3, <2>5, <2>6, RequestStep
<1> QED
  BY <1>1, <1>2

LEMMA AcceptPreserves ==
  ASSUME IInv, NEW r \in Reqs, Accept(r)
  PROVE  IInv'
<1>1. PICK n \in 1..MaxStatements, pc \in {"limit", "acquire"} :
        req' = [req EXCEPT ![r] = [[Idle EXCEPT !.pc = pc] EXCEPT !.left = n]]
  BY Zenon DEF Accept
<1> DEFINE x == [Idle EXCEPT !.pc = pc]
           y == [x EXCEPT !.left = n]
<1>2. Idle \in Request
  BY DEF Idle, Request
<1>3. x \in Request /\ x.pc = pc
  BY <1>2, GotoType
<1>4. req' = [req EXCEPT ![r] = y]
  BY <1>1, Zenon
<1> HIDE DEF x
<1>5. n \in 0..MaxStatements /\ n > 0
  OBVIOUS
<1>6. y \in Request /\ y.pc = pc /\ y.left = n
  BY <1>3, <1>5, LeftType
<1> HIDE DEF y
<1> QED
  BY <1>4, <1>5, <1>6, RequestStep DEF Accept

LEMMA CheckLimitPreserves ==
  ASSUME IInv, NEW r \in Reqs, CheckLimit(r)
  PROVE  IInv'
  BY GotoStep, FinishStep DEF CheckLimit

LEMMA AcquirePreserves ==
  ASSUME IInv, NEW r \in Reqs, Acquire(r)
  PROVE  IInv'
<1>1. CASE Acquirable(r) /\ Goto(r, "busy")
  BY <1>1, GotoStep DEF Acquire
<1>2. CASE Finish(r, 500)
  BY <1>2, FinishStep DEF Acquire
<1>3. CASE Proceed(r)
  BY <1>3, ProceedStep DEF Acquire
<1> QED
  BY <1>1, <1>2, <1>3 DEF Acquire

LEMMA ReplyPreserves ==
  ASSUME IInv, NEW r \in Reqs, Reply(r)
  PROVE  IInv'
<1>1. Idle \in Request /\ Idle.pc = "idle"
  BY DEF Idle, Request
<1> QED
  BY <1>1, RequestStep DEF Reply

\* The shutdown changes no request; the pool becomes closed only when idle, and
\* main exits only behind a closed pool.
LEMMA ShutdownPreserves ==
  ASSUME IInv, Signal \/ Shutdown
  PROVE  IInv'
<1>1. UNCHANGED req
  BY DEF Signal, Shutdown, CloseRedis, ClosePool, PoolClosed, Select, StopServer, ListenReturns,
         DeferredClose
<1>2. TypeOK'
  <2>1. Busy' = Busy
    BY <1>1 DEF Busy
  <2> QED
  BY <1>1, <2>1 DEF IInv, TypeOK, Signal, Shutdown, CloseRedis, ClosePool, PoolClosed, Select, StopServer,
         ListenReturns, DeferredClose, AfterTimeout, AfterListen
<1>3. LeftOK'
  BY <1>1 DEF IInv, LeftOK
<1>4. ClosedIsIdle'
  BY <1>1 DEF IInv, ClosedIsIdle, Busy, Signal, Shutdown, CloseRedis, ClosePool, PoolClosed, Select,
         StopServer, ListenReturns, DeferredClose
<1>5. ExitIsClosed'
  BY DEF IInv, ExitIsClosed, Alive, Signal, Shutdown, CloseRedis, ClosePool, PoolClosed, Select,
         StopServer, ListenReturns, DeferredClose, AfterListen
<1> QED
  BY <1>2, <1>3, <1>4, <1>5 DEF IInv

\* Listening touches neither the pool nor a request, and does not end main.
LEMMA ListenPreserves ==
  ASSUME IInv, Listen
  PROVE  IInv'
<1>1. UNCHANGED <<stopper, redis, pool, req>> /\ main' \in {"listen", "failed"} /\ listening' \in BOOLEAN
  BY DEF IInv, TypeOK, Listen
<1>2. Busy' = Busy
  BY <1>1 DEF Busy
<1> QED
  BY <1>1, <1>2 DEF IInv, TypeOK, LeftOK, ClosedIsIdle, ExitIsClosed

LEMMA NextIInv == IInv /\ [Next]_vars => IInv'
<1> SUFFICES ASSUME IInv, [Next]_vars PROVE IInv'
  OBVIOUS
<1>1. CASE UNCHANGED vars
  BY <1>1 DEF vars, Busy, IInv, TypeOK, LeftOK, ClosedIsIdle, ExitIsClosed
<1>2. ASSUME NEW r \in Reqs, Accept(r) \/ Handle(r) PROVE IInv'
  BY <1>2, AcceptPreserves, CheckLimitPreserves, AcquirePreserves, ReplyPreserves DEF Handle
<1>3. ASSUME NEW r \in Reqs, Release(r) PROVE IInv'
  BY <1>3, ProceedStep DEF Release
<1>4. CASE Listen
  BY <1>4, ListenPreserves
<1>5. CASE Signal \/ Shutdown
  BY <1>5, ShutdownPreserves
<1> QED
  BY <1>1, <1>2, <1>3, <1>4, <1>5 DEF Next

-----------------------------------------------------------------------------
\* Every variable holds what the process can hold, and the pool never hands out
\* more connections than it has, for every number of requests and connections.
THEOREM PoolNeverOverrun == Spec => []TypeOK
<1>1. IInv => TypeOK
  BY DEF IInv
<1> QED
  BY <1>1, InitIInv, NextIInv, PTL DEF Spec

\* When the process exits, no statement and no transaction is under way - with
\* every number of requests and connections, and whether the five seconds that
\* the shutdown waits for the pool run out or not.
THEOREM ExitCutsNoTransaction == Spec => []NoTransactionCut
<1>1. IInv => NoTransactionCut
  BY DEF IInv, ClosedIsIdle, ExitIsClosed, NoTransactionCut, Busy
<1> QED
  BY <1>1, InitIInv, NextIInv, PTL DEF Spec
=============================================================================
