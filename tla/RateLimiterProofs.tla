-------------------------- MODULE RateLimiterProofs --------------------------
(***************************************************************************)
(* Theorems about RateLimiter, for every table of limits, every window and *)
(* every set of addresses, requests and faults.                            *)
(***************************************************************************)
EXTENDS RateLimiter, TLAPS

(***************************************************************************)
(* The inductive invariant.  WindowBound does not carry itself: that a     *)
(* request is admitted below the limit says something about the number of  *)
(* admissions only if the counter covers them all (CountCovers), and the   *)
(* counter of a key says something about a request only if the request     *)
(* asks for that key (ReqOK).                                              *)
(***************************************************************************)
CountCovers == \A k \in Keys : Exists(k) => admitted[k] <= redis[k].count

ReqOK ==
  \A r \in Reqs : req[r].pc \in {"allow", "ttl"} => req[r].key \in Keys

IInv == TypeOK /\ CountCovers /\ ReqOK

Entry == [count : Nat, ttl : 0..Window]

USE LimiterAssumption

-----------------------------------------------------------------------------
\* The limit of a key is a positive number.
LEMMA LimitOfType ==
  ASSUME NEW k \in Keys
  PROVE  LimitOf(k) \in Nat \ {0}
  BY DEF Keys, Buckets, LimitOf

\* The script leaves an entry that exists and respects the limit; it adds one
\* to the counter if it admits, and nothing if not.
LEMMA CountedType ==
  ASSUME IInv, NEW k \in Keys
  PROVE  /\ Counted(k) \in Entry
         /\ Counted(k).ttl > 0
         /\ Counted(k).count \in 1..LimitOf(k)
         /\ Exists(k) => Counted(k).count >= redis[k].count
         /\ Exists(k) /\ Admits(k) => Counted(k).count = redis[k].count + 1
         /\ ~Admits(k) => Counted(k) = redis[k]
<1>1. LimitOf(k) \in Nat \ {0}
  BY LimitOfType
<1>2. /\ redis[k] \in Entry
      /\ redis[k].count <= LimitOf(k)
      /\ redis[k].count > 0 <=> Exists(k)
  BY DEF IInv, TypeOK, Entry
<1> HIDE DEF Keys
<1>3. CASE ~Exists(k)
  BY <1>1, <1>2, <1>3 DEF Counted, Admits, Exists, Entry
<1>4. CASE Exists(k) /\ Admits(k)
  <2>1. Counted(k) = [redis[k] EXCEPT !.count = @ + 1]
    BY <1>4 DEF Counted
  <2>2. redis[k].count < LimitOf(k)
    BY <1>4 DEF Admits
  <2> QED
    BY <1>1, <1>2, <1>4, <2>1, <2>2 DEF Exists, Entry
<1>5. CASE Exists(k) /\ ~Admits(k)
  BY <1>1, <1>2, <1>5 DEF Counted, Exists, Entry
<1> QED
  BY <1>3, <1>4, <1>5

\* An answered request is a request.
LEMMA AnswerType ==
  ASSUME IInv, NEW r \in Reqs, NEW status \in {200, 429, 500}, NEW wait \in -2..Window,
         Answer(r, status, wait)
  PROVE  /\ req' \in [Reqs -> Request]
         /\ req'[r].pc = "done"
         /\ \A p \in Reqs \ {r} : req'[p] = req[p]
<1> DEFINE x == [req[r] EXCEPT !.pc = "done"]
           y == [x EXCEPT !.status = status]
           z == [y EXCEPT !.wait = wait]
<1>1. req \in [Reqs -> Request]
  BY DEF IInv, TypeOK
<1>2. x \in Request /\ x.pc = "done"
  BY <1>1 DEF Request
<1> HIDE DEF x
<1>3. y \in Request /\ y.pc = "done"
  BY <1>2 DEF Request
<1> HIDE DEF y
<1>4. z \in Request /\ z.pc = "done"
  BY <1>3 DEF Request
<1>5. req' = [req EXCEPT ![r] = z]
  BY Zenon DEF Answer, x, y, z
<1> HIDE DEF z
<1> QED
  BY <1>1, <1>4, <1>5

-----------------------------------------------------------------------------
LEMMA InitIInv == Init => IInv
<1> SUFFICES ASSUME Init PROVE IInv
  OBVIOUS
<1>1. Idle \in Request
  BY DEF Idle, Request
<1>2. TypeOK
  <2>1. \A k \in Keys : LimitOf(k) \in Nat \ {0}
    BY LimitOfType
  <2> HIDE DEF Keys
  <2>2. redis \in [Keys -> Entry]
    BY DEF Init, NoEntry, Entry
  <2>3. \A k \in Keys : redis[k].count <= LimitOf(k) /\ (redis[k].count > 0 <=> Exists(k))
    BY <2>1 DEF Init, NoEntry, Exists
  <2>4. recent \in [Keys -> [0..Window - 1 -> Nat]]
    BY DEF Init, NothingRecent
  <2>5. admitted \in [Keys -> Nat] /\ req \in [Reqs -> Request]
    BY <1>1 DEF Init
  <2> QED
    BY <2>2, <2>3, <2>4, <2>5 DEF TypeOK, Entry
<1>3. CountCovers
  BY DEF Init, CountCovers, Exists, NoEntry
<1>4. ReqOK
  BY DEF Init, ReqOK, Idle
<1> QED
  BY <1>2, <1>3, <1>4 DEF IInv

\* A step that writes the entry the script leaves, with a history it covers.
LEMMA CountStep ==
  ASSUME IInv, NEW k \in Keys, NEW n \in Nat,
         redis' = [redis EXCEPT ![k] = Counted(k)],
         admitted' = [admitted EXCEPT ![k] = n],
         recent' \in [Keys -> [0..Window - 1 -> Nat]],
         n <= Counted(k).count,
         req' \in [Reqs -> Request], ReqOK'
  PROVE  IInv'
<1>1. /\ Counted(k) \in Entry
      /\ Counted(k).ttl > 0
      /\ Counted(k).count \in 1..LimitOf(k)
  BY CountedType
<1>2. LimitOf(k) \in Nat \ {0}
  BY LimitOfType
<1> HIDE DEF Keys
<1>3. /\ redis \in [Keys -> Entry]
      /\ admitted \in [Keys -> Nat]
      /\ \A j \in Keys : redis[j].count <= LimitOf(j) /\ (redis[j].count > 0 <=> Exists(j))
  BY DEF IInv, TypeOK, Entry
<1>4. redis' \in [Keys -> Entry]
  BY <1>1, <1>3
<1>5. admitted' \in [Keys -> Nat]
  BY <1>3
<1>6. \A j \in Keys : redis'[j].count <= LimitOf(j) /\ (redis'[j].count > 0 <=> redis'[j].ttl > 0)
  <2> TAKE j \in Keys
  <2>1. CASE j = k
    BY <1>1, <1>2, <1>3, <2>1
  <2>2. CASE j # k
    BY <1>3, <2>2 DEF Exists
  <2> QED
    BY <2>1, <2>2
<1>7. TypeOK'
  BY <1>4, <1>5, <1>6 DEF TypeOK, Entry, Exists, LimitOf
<1>8. CountCovers'
  <2> SUFFICES ASSUME NEW j \in Keys, redis'[j].ttl > 0 PROVE admitted'[j] <= redis'[j].count
    BY DEF CountCovers, Exists
  <2>1. CASE j = k
    BY <1>3, <2>1
  <2>2. CASE j # k
    BY <1>3, <2>2 DEF IInv, CountCovers, Exists
  <2> QED
    BY <2>1, <2>2
<1> QED
  BY <1>7, <1>8 DEF IInv

\* A step of one request that leaves Redis and the history alone.
LEMMA LocalStep ==
  ASSUME IInv, UNCHANGED <<redis, admitted, recent>>, req' \in [Reqs -> Request], ReqOK'
  PROVE  IInv'
  BY DEF IInv, TypeOK, CountCovers, Exists, LimitOf, Keys, Buckets

\* A request that is answered asks for nothing any more.
LEMMA AnswerReqOK ==
  ASSUME IInv, NEW r \in Reqs, req'[r].pc = "done", \A p \in Reqs \ {r} : req'[p] = req[p]
  PROVE  ReqOK'
  BY DEF IInv, ReqOK

-----------------------------------------------------------------------------
LEMMA AllowAdmitPreserves ==
  ASSUME IInv, NEW r \in Reqs, AllowAdmit(r)
  PROVE  IInv'
<1> DEFINE k == req[r].key
           n == IF Exists(k) THEN admitted[k] + 1 ELSE 1
<1>1. k \in Keys
  BY DEF AllowAdmit, IInv, ReqOK
<1>2. /\ Counted(k).count >= 1
      /\ Exists(k) => Counted(k).count = redis[k].count + 1
  BY <1>1, CountedType DEF AllowAdmit
<1>3. 0 \in -2..Window
  OBVIOUS
<1>4. /\ req' \in [Reqs -> Request]
      /\ req'[r].pc = "done"
      /\ \A p \in Reqs \ {r} : req'[p] = req[p]
  <2>1. Answer(r, 200, 0)
    BY DEF AllowAdmit
  <2> QED
    BY <2>1, <1>3, AnswerType
<1>5. ReqOK'
  BY <1>4, AnswerReqOK
<1>6. recent' \in [Keys -> [0..Window - 1 -> Nat]]
  <2>1. recent \in [Keys -> [0..Window - 1 -> Nat]]
    BY DEF IInv, TypeOK
  <2>2. recent[k] \in [0..Window - 1 -> Nat]
    BY <1>1, <2>1
  <2>3. OneMoreRecent(k) \in [0..Window - 1 -> Nat]
    BY <2>2 DEF OneMoreRecent
  <2>4. recent' = [recent EXCEPT ![k] = OneMoreRecent(k)]
    BY Zenon DEF AllowAdmit
  <2> QED
    BY <1>1, <2>1, <2>3, <2>4
<1>7. admitted' = [admitted EXCEPT ![k] = n]
  BY Zenon DEF AllowAdmit
<1>8. n \in Nat
  BY <1>1 DEF IInv, TypeOK
<1>9. n <= Counted(k).count
  BY <1>1, <1>2 DEF IInv, TypeOK, CountCovers
<1>10. redis' = [redis EXCEPT ![k] = Counted(k)]
  BY Zenon DEF AllowAdmit
<1> HIDE DEF k, n
<1> QED
  BY <1>1, <1>4, <1>5, <1>6, <1>7, <1>8, <1>9, <1>10, CountStep

LEMMA AllowRefusePreserves ==
  ASSUME IInv, NEW r \in Reqs, AllowRefuse(r)
  PROVE  IInv'
<1>1. req[r].key \in Keys
  BY DEF AllowRefuse, IInv, ReqOK
<1>2. UNCHANGED redis
  BY <1>1, CountedType DEF AllowRefuse, IInv, TypeOK
<1> DEFINE x == [req[r] EXCEPT !.pc = "ttl"]
<1>3. /\ x \in Request
      /\ x.key = req[r].key
  <2>1. req[r] \in Request
    BY DEF IInv, TypeOK
  <2> QED
    BY <2>1 DEF Request
<1>4. req' = [req EXCEPT ![r] = x]
  BY Zenon DEF AllowRefuse
<1>5. req[r].pc = "allow"
  BY DEF AllowRefuse
<1> HIDE DEF x
<1>6. req' \in [Reqs -> Request] /\ ReqOK'
  BY <1>3, <1>4, <1>5 DEF IInv, TypeOK, ReqOK
<1> QED
  BY <1>2, <1>6, LocalStep DEF AllowRefuse

LEMMA AllowErrorPreserves ==
  ASSUME IInv, NEW r \in Reqs, AllowError(r)
  PROVE  IInv'
<1> DEFINE k == req[r].key
           n == IF Exists(k) THEN admitted[k] ELSE 0
<1>1. k \in Keys
  BY DEF AllowError, IInv, ReqOK
<1>2. 0 \in -2..Window
  OBVIOUS
<1>3. /\ req' \in [Reqs -> Request]
      /\ req'[r].pc = "done"
      /\ \A p \in Reqs \ {r} : req'[p] = req[p]
  <2>1. Answer(r, 500, 0)
    BY DEF AllowError
  <2> QED
    BY <2>1, <1>2, AnswerType
<1>4. ReqOK'
  BY <1>3, AnswerReqOK
<1>5. CASE UNCHANGED <<redis, admitted>>
  BY <1>3, <1>4, <1>5, LocalStep DEF AllowError
<1>6. CASE /\ redis' = [redis EXCEPT ![k] = Counted(k)]
           /\ admitted' = [admitted EXCEPT ![k] = IF Exists(k) THEN @ ELSE 0]
  <2>1. admitted' = [admitted EXCEPT ![k] = n]
    BY <1>6, Zenon
  <2>2. n \in Nat
    BY <1>1 DEF IInv, TypeOK
  <2>3. Counted(k).count >= 1 /\ (Exists(k) => Counted(k).count >= redis[k].count)
    BY <1>1, CountedType
  <2>4. Counted(k).count \in Nat
    BY <1>1, CountedType DEF Entry
  <2>5. n <= Counted(k).count
    BY <1>1, <2>3, <2>4 DEF IInv, TypeOK, CountCovers
  <2>6. recent' \in [Keys -> [0..Window - 1 -> Nat]]
    BY DEF AllowError, IInv, TypeOK
  <2> HIDE DEF k, n
  <2> QED
    BY <1>1, <1>3, <1>4, <1>6, <2>1, <2>2, <2>5, <2>6, CountStep
<1> QED
  BY <1>5, <1>6, Zenon DEF AllowError

LEMMA ReadTTLPreserves ==
  ASSUME IInv, NEW r \in Reqs, ReadTTL(r)
  PROVE  IInv'
<1>1. req[r].key \in Keys
  BY DEF ReadTTL, IInv, ReqOK
<1>2. PICK wait \in -2..Window : Answer(r, 429, wait)
  <2>1. redis[req[r].key].ttl \in 0..Window
    BY <1>1 DEF IInv, TypeOK
  <2> QED
    BY <2>1 DEF ReadTTL
<1>3. /\ req' \in [Reqs -> Request]
      /\ req'[r].pc = "done"
      /\ \A p \in Reqs \ {r} : req'[p] = req[p]
  BY <1>2, AnswerType
<1> QED
  BY <1>3, AnswerReqOK, LocalStep DEF ReadTTL

LEMMA ArrivePreserves ==
  ASSUME IInv, NEW r \in Reqs, NEW e \in Endpoints, NEW ip \in IPs, Arrive(r, e, ip)
  PROVE  IInv'
<1> DEFINE q == [Idle EXCEPT !.pc = "allow", !.key = <<Bucket[e], ip>>]
<1>1. <<Bucket[e], ip>> \in Keys
  BY DEF Keys
<1>2. /\ q \in Request
      /\ q.key = <<Bucket[e], ip>>
  <2> DEFINE k == <<Bucket[e], ip>>
             x == [Idle EXCEPT !.pc = "allow"]
             z == [x EXCEPT !.key = k]
  <2>1. k \in Keys
    BY <1>1
  <2> HIDE DEF k
  <2>2. x \in Request
    BY DEF Idle, Request
  <2> HIDE DEF x
  <2>3. z \in Request /\ z.key = k
    BY <2>1, <2>2 DEF Request
  <2>4. q = z
    BY Zenon DEF x, z, k
  <2> QED
    BY <2>3, <2>4 DEF k
<1>3. req' = [req EXCEPT ![r] = q]
  BY Zenon DEF Arrive
<1> HIDE DEF q
<1>4. req' \in [Reqs -> Request] /\ ReqOK'
  BY <1>1, <1>2, <1>3 DEF IInv, TypeOK, ReqOK, Keys, Buckets
<1> QED
  BY <1>4, LocalStep DEF Arrive

LEMMA LeavePreserves ==
  ASSUME IInv, NEW r \in Reqs, Leave(r)
  PROVE  IInv'
<1>1. Idle \in Request /\ Idle.pc = "idle"
  BY DEF Idle, Request
<1>2. req' \in [Reqs -> Request] /\ ReqOK'
  BY <1>1 DEF Leave, IInv, TypeOK, ReqOK
<1> QED
  BY <1>2, LocalStep DEF Leave

\* Entries that only age or vanish keep what is known of them.
LEMMA AgeStep ==
  ASSUME IInv,
         redis' \in [Keys -> Entry],
         \A k \in Keys : redis'[k] = NoEntry \/ (/\ redis'[k].count = redis[k].count
                                                 /\ redis'[k].ttl > 0 /\ redis[k].ttl > 0),
         recent' \in [Keys -> [0..Window - 1 -> Nat]],
         UNCHANGED <<admitted, req>>
  PROVE  IInv'
<1>1. \A k \in Keys : LimitOf(k) \in Nat \ {0}
  BY LimitOfType
<1> HIDE DEF Keys
<1>2. \A k \in Keys : redis'[k].count <= LimitOf(k) /\ (redis'[k].count > 0 <=> redis'[k].ttl > 0)
  BY <1>1 DEF IInv, TypeOK, Exists, NoEntry
<1>3. TypeOK'
  BY <1>2 DEF IInv, TypeOK, Entry, Exists, LimitOf
<1>4. CountCovers'
  BY DEF IInv, CountCovers, Exists, NoEntry
<1>5. ReqOK'
  BY DEF IInv, ReqOK
<1> QED
  BY <1>3, <1>4, <1>5 DEF IInv

LEMMA TickPreserves ==
  ASSUME IInv, Tick
  PROVE  IInv'
<1>1. redis \in [Keys -> Entry] /\ recent \in [Keys -> [0..Window - 1 -> Nat]]
  BY DEF IInv, TypeOK, Entry
<1> HIDE DEF Keys
<1>2. \A k \in Keys : redis'[k] = IF redis[k].ttl > 1 THEN [redis[k] EXCEPT !.ttl = @ - 1] ELSE NoEntry
  BY DEF Tick
<1>3. \A k \in Keys : redis'[k] \in Entry
  <2> TAKE k \in Keys
  <2> DEFINE x == [redis[k] EXCEPT !.ttl = @ - 1]
  <2>1. redis[k] \in Entry
    BY <1>1
  <2>2. redis[k].ttl > 1 => x \in Entry
    BY <2>1 DEF Entry
  <2>3. NoEntry \in Entry
    BY DEF NoEntry, Entry
  <2>4. IF redis[k].ttl > 1 THEN redis'[k] = x ELSE redis'[k] = NoEntry
    BY <1>2
  <2> HIDE DEF x
  <2> QED
    BY <2>2, <2>3, <2>4
<1>4. redis' \in [Keys -> Entry]
  BY <1>3 DEF Tick
<1>5. recent' \in [Keys -> [0..Window - 1 -> Nat]]
  BY <1>1 DEF Tick
<1>6. \A k \in Keys : redis'[k] = NoEntry \/ (/\ redis'[k].count = redis[k].count
                                              /\ redis'[k].ttl > 0 /\ redis[k].ttl > 0)
  <2> TAKE k \in Keys
  <2>1. redis[k] \in Entry
    BY <1>1
  <2>2. CASE redis[k].ttl > 1
    <3> DEFINE x == [redis[k] EXCEPT !.ttl = @ - 1]
    <3>1. x.count = redis[k].count /\ x.ttl = redis[k].ttl - 1
      BY <2>1 DEF Entry
    <3>2. redis'[k] = x
      BY <1>2, <2>2
    <3>3. redis[k].ttl \in Int
      BY <2>1 DEF Entry
    <3> HIDE DEF x
    <3> QED
      BY <2>2, <3>1, <3>2, <3>3
  <2>3. CASE ~(redis[k].ttl > 1)
    BY <1>2, <2>3
  <2> QED
    BY <2>2, <2>3
<1> QED
  BY <1>4, <1>5, <1>6, AgeStep DEF Tick

LEMMA RedisRestartPreserves ==
  ASSUME IInv, RedisRestart
  PROVE  IInv'
<1>1. redis' \in [Keys -> Entry] /\ \A k \in Keys : redis'[k] = NoEntry
  BY DEF RedisRestart, NoEntry, Entry
<1>2. recent' \in [Keys -> [0..Window - 1 -> Nat]]
  BY DEF RedisRestart, NothingRecent
<1> QED
  BY <1>1, <1>2, AgeStep DEF RedisRestart

LEMMA NextIInv == IInv /\ [Next]_vars => IInv'
<1> SUFFICES ASSUME IInv, [Next]_vars PROVE IInv'
  OBVIOUS
<1>1. CASE UNCHANGED vars
  BY <1>1, LocalStep DEF vars, IInv, TypeOK, ReqOK
<1>2. ASSUME NEW r \in Reqs, NEW e \in Endpoints, NEW ip \in IPs, Arrive(r, e, ip) PROVE IInv'
  BY <1>2, ArrivePreserves
<1>3. ASSUME NEW r \in Reqs, Run(r) PROVE IInv'
  BY <1>3, AllowAdmitPreserves, AllowRefusePreserves, AllowErrorPreserves, ReadTTLPreserves,
     LeavePreserves DEF Run
<1>4. CASE Tick
  BY <1>4, TickPreserves
<1>5. CASE RedisRestart
  BY <1>5, RedisRestartPreserves
<1> QED
  BY <1>1, <1>2, <1>3, <1>4, <1>5 DEF Next

LEMMA IInvHolds == Spec => []IInv
  BY InitIInv, NextIInv, PTL DEF Spec

-----------------------------------------------------------------------------
\* Every variable stays within what Redis and the handlers can hold; no counter
\* passes its limit, and none outlives its time to live.
THEOREM LimiterTypeCorrect == Spec => []TypeOK
<1>1. IInv => TypeOK
  BY DEF IInv
<1> QED
  BY <1>1, IInvHolds, PTL

\* However many requests race, whatever errors Redis reports and whenever it
\* restarts: no more requests than the limit are admitted while an entry lives.
THEOREM LimiterBoundsWindows == Spec => []WindowBound
<1>1. IInv => WindowBound
  <2> SUFFICES ASSUME IInv, NEW k \in Keys, Exists(k) PROVE admitted[k] <= LimitOf(k)
    BY DEF WindowBound
  <2>1. LimitOf(k) \in Nat
    BY LimitOfType
  <2> QED
    BY <2>1 DEF IInv, TypeOK, CountCovers
<1> QED
  BY <1>1, IInvHolds, PTL

-----------------------------------------------------------------------------
(***************************************************************************)
(* SlidingBound.  Window seconds on end meet at most two entries of a key: *)
(* whatever was admitted since the first request of the entry that lives   *)
(* is covered by its counter (AfterFirst), so that once the entry is gone  *)
(* the second of that request is out of sight, and at most a request less  *)
(* than the limit is left in view for the next entry (TwoWindows).         *)
(***************************************************************************)
Growing(k) == \A a, b \in 0..Window - 1 : a <= b => recent[k][a] <= recent[k][b]

AfterFirst(k) ==
  Exists(k) => \A a \in 0..Window - 1 : a < Window - redis[k].ttl => recent[k][a] <= redis[k].count - 1

\* What the entry that lives has counted.
Covered(k) == IF Exists(k) THEN redis[k].count ELSE 0
TwoWindows(k) == recent[k][Window - 1] <= LimitOf(k) - 1 + Covered(k)

SlidingOf(k) == Growing(k) /\ AfterFirst(k) /\ TwoWindows(k)
SInv == \A k \in Keys : SlidingOf(k)

LEMMA InitSInv == Init => SInv
<1> SUFFICES ASSUME Init PROVE SInv
  OBVIOUS
<1>1. \A k \in Keys : LimitOf(k) \in Nat \ {0}
  BY LimitOfType
<1> HIDE DEF Keys
<1>2. \A k \in Keys : ~Exists(k) /\ \A a \in 0..Window - 1 : recent[k][a] = 0
  BY DEF Init, NoEntry, Exists, NothingRecent
<1> QED
  BY <1>1, <1>2 DEF SInv, SlidingOf, Growing, AfterFirst, TwoWindows, Covered

LEMMA KeyTypes ==
  ASSUME IInv, NEW k \in Keys
  PROVE  /\ redis[k].ttl \in 0..Window /\ redis[k].count \in Nat
         /\ Exists(k) => redis[k].count >= 1
         /\ redis[k].count <= LimitOf(k)
         /\ \A a \in 0..Window - 1 : recent[k][a] \in Nat
         /\ LimitOf(k) \in Nat \ {0}
<1>1. LimitOf(k) \in Nat \ {0}
  BY LimitOfType
<1> HIDE DEF Keys
<1> QED
  BY <1>1 DEF IInv, TypeOK, Exists

\* A key whose entry and history are left alone.
LEMMA SameKey ==
  ASSUME NEW k \in Keys, SlidingOf(k), redis'[k] = redis[k], recent'[k] = recent[k]
  PROVE  SlidingOf(k)'
  BY DEF SlidingOf, Growing, AfterFirst, TwoWindows, Covered, Exists, LimitOf

\* The script counts a request, and one at most is added to the history: an
\* entry that is created covers nothing but its first request, later ones add
\* one to both sides.
LEMMA CountedKey ==
  ASSUME IInv, NEW k \in Keys, SlidingOf(k), Admits(k),
         redis'[k] = Counted(k),
         recent'[k] \in {recent[k], OneMoreRecent(k)}
  PROVE  SlidingOf(k)'
<1>1. /\ redis[k].ttl \in 0..Window /\ redis[k].count \in Nat
      /\ Exists(k) => redis[k].count >= 1
      /\ \A a \in 0..Window - 1 : recent[k][a] \in Nat
      /\ LimitOf(k) \in Nat \ {0}
  BY KeyTypes
<1>2. /\ redis'[k].ttl > 0
      /\ IF Exists(k) THEN redis'[k].ttl = redis[k].ttl /\ redis'[k].count = redis[k].count + 1
                      ELSE redis'[k].ttl = Window /\ redis'[k].count = 1
  <2>1. CASE ~Exists(k)
    BY <2>1 DEF Counted
  <2>2. CASE Exists(k)
    <3>1. redis[k] \in Entry
      BY DEF IInv, TypeOK, Entry
    <3>2. Counted(k) = [redis[k] EXCEPT !.count = @ + 1]
      BY <2>2 DEF Counted
    <3> QED
      BY <2>2, <3>1, <3>2 DEF Exists, Entry
  <2> QED
    BY <2>1, <2>2
<1>3. \A a \in 0..Window - 1 : recent'[k][a] \in {recent[k][a], recent[k][a] + 1}
  BY DEF OneMoreRecent
<1>4. \A a, b \in 0..Window - 1 : a <= b => recent'[k][a] <= recent'[k][b]
  <2> SUFFICES ASSUME NEW a \in 0..Window - 1, NEW b \in 0..Window - 1, a <= b
               PROVE  recent'[k][a] <= recent'[k][b]
    OBVIOUS
  <2>1. recent[k][a] <= recent[k][b]
    BY DEF SlidingOf, Growing
  <2>2. RecentCap(k) \in Nat
    BY <1>1 DEF RecentCap
  <2> QED
    BY <1>1, <2>1, <2>2 DEF OneMoreRecent
<1>5. \A a \in 0..Window - 1 : a < Window - redis'[k].ttl => recent'[k][a] <= redis'[k].count - 1
  BY <1>1, <1>2, <1>3 DEF SlidingOf, AfterFirst
<1>6. recent'[k][Window - 1] <= LimitOf(k) - 1 + redis'[k].count
  <2>1. Window - 1 \in 0..Window - 1
    OBVIOUS
  <2>2. recent[k][Window - 1] <= LimitOf(k) - 1 + Covered(k)
    BY DEF SlidingOf, TwoWindows
  <2> QED
    BY <1>1, <1>2, <1>3, <2>1, <2>2 DEF Covered
<1> QED
  BY <1>2, <1>4, <1>5, <1>6 DEF SlidingOf, Growing, AfterFirst, TwoWindows, Covered, Exists, LimitOf

\* A second passes for a key.
LEMMA OlderKey ==
  ASSUME IInv, NEW k \in Keys, SlidingOf(k), Tick
  PROVE  SlidingOf(k)'
<1>1. /\ redis[k].ttl \in 0..Window /\ redis[k].count \in Nat
      /\ Exists(k) => redis[k].count >= 1
      /\ redis[k].count <= LimitOf(k)
      /\ \A a \in 0..Window - 1 : recent[k][a] \in Nat
      /\ LimitOf(k) \in Nat \ {0}
  BY KeyTypes
<1>2. IF redis[k].ttl > 1 THEN redis'[k].ttl = redis[k].ttl - 1 /\ redis'[k].count = redis[k].count
                          ELSE redis'[k].ttl = 0
  <2>1. redis[k] \in Entry
    BY DEF IInv, TypeOK, Entry
  <2>2. redis'[k] = IF redis[k].ttl > 1 THEN [redis[k] EXCEPT !.ttl = @ - 1] ELSE NoEntry
    BY DEF Tick
  <2> QED
    BY <2>1, <2>2 DEF Entry, NoEntry
<1>3. \A a \in 0..Window - 1 : recent'[k][a] = IF a = 0 THEN 0 ELSE recent[k][a - 1]
  BY DEF Tick
<1>4. \A a, b \in 0..Window - 1 : a <= b => recent[k][a] <= recent[k][b]
  BY DEF SlidingOf, Growing
<1>5. \A a, b \in 0..Window - 1 : a <= b => recent'[k][a] <= recent'[k][b]
  BY <1>1, <1>3, <1>4
<1>6. redis'[k].ttl > 0 => \A a \in 0..Window - 1 :
        a < Window - redis'[k].ttl => recent'[k][a] <= redis'[k].count - 1
  BY <1>1, <1>2, <1>3 DEF SlidingOf, AfterFirst, Exists
<1>7. recent'[k][Window - 1] <= LimitOf(k) - 1 + (IF redis'[k].ttl > 0 THEN redis'[k].count ELSE 0)
  <2>1. Window - 1 \in 0..Window - 1
    OBVIOUS
  <2>2. recent'[k][Window - 1] <= recent[k][Window - 1]
    BY <1>1, <1>3, <1>4, <2>1
  <2>3. recent[k][Window - 1] <= LimitOf(k) - 1 + Covered(k)
    BY DEF SlidingOf, TwoWindows
  <2>4. recent'[k][Window - 1] \in Nat
    BY <1>1, <1>3, <2>1
  <2>5. CASE redis[k].ttl > 1
    BY <1>1, <1>2, <2>1, <2>2, <2>3, <2>4, <2>5 DEF Covered, Exists
  <2>6. CASE redis[k].ttl = 1
    \* The entry goes, and the second of its first request with it.
    <3>1. Window = 1 \/ recent[k][Window - 2] <= redis[k].count - 1
      BY <1>1, <2>6 DEF SlidingOf, AfterFirst, Exists
    <3>2. recent'[k][Window - 1] = IF Window = 1 THEN 0 ELSE recent[k][Window - 2]
      BY <1>3, <2>1
    <3>3. Window # 1 => recent[k][Window - 2] \in Nat
      BY <1>1
    <3> QED
      BY <1>1, <1>2, <2>6, <3>1, <3>2, <3>3
  <2>7. CASE redis[k].ttl = 0
    BY <1>1, <1>2, <2>1, <2>2, <2>3, <2>4, <2>7 DEF Covered, Exists
  <2> QED
    BY <1>1, <2>5, <2>6, <2>7
<1> QED
  BY <1>5, <1>6, <1>7 DEF SlidingOf, Growing, AfterFirst, TwoWindows, Covered, Exists, LimitOf

\* The script runs for k, with or without an answer.
LEMMA ScriptSInv ==
  ASSUME IInv, SInv, NEW k \in Keys,
         redis' = [redis EXCEPT ![k] = Counted(k)],
         \/ recent' = recent
         \/ Admits(k) /\ recent' = [recent EXCEPT ![k] = OneMoreRecent(k)]
  PROVE  SInv'
<1>1. redis \in [Keys -> Entry] /\ recent \in [Keys -> [0..Window - 1 -> Nat]]
  BY DEF IInv, TypeOK, Entry
<1>2. \A j \in Keys : SlidingOf(j)
  BY DEF SInv
<1> SUFFICES ASSUME NEW j \in Keys PROVE SlidingOf(j)'
  BY DEF SInv, Keys, Buckets
<1> HIDE DEF Keys
<1>3. CASE j # k
  BY <1>1, <1>2, <1>3, SameKey
<1>4. CASE j = k /\ Admits(k)
  <2>1. redis'[k] = Counted(k)
    BY <1>1
  <2>2. recent'[k] \in {recent[k], OneMoreRecent(k)}
    BY <1>1
  <2> QED
    BY <1>2, <1>4, <2>1, <2>2, CountedKey
<1>5. CASE j = k /\ ~Admits(k)
  <2>1. Counted(k) = redis[k]
    BY <1>5, CountedType
  <2>2. redis'[k] = redis[k] /\ recent'[k] = recent[k]
    BY <1>1, <1>5, <2>1
  <2> QED
    BY <1>2, <1>5, <2>2, SameKey
<1> QED
  BY <1>3, <1>4, <1>5

LEMMA NextSInv == IInv /\ SInv /\ [Next]_vars => SInv'
<1> SUFFICES ASSUME IInv, SInv, [Next]_vars PROVE SInv'
  OBVIOUS
<1>1. ASSUME UNCHANGED <<redis, recent>> PROVE SInv'
  BY <1>1 DEF SInv, SlidingOf, Growing, AfterFirst, TwoWindows, Covered, Exists, LimitOf, Keys, Buckets
<1>2. ASSUME NEW r \in Reqs, Run(r) PROVE SInv'
  <2>1. req[r].pc \in {"allow", "ttl"} => req[r].key \in Keys
    BY DEF IInv, ReqOK
  <2>2. CASE AllowAdmit(r)
    <3> DEFINE k == req[r].key
    <3>1. k \in Keys /\ Admits(k)
      BY <2>1, <2>2 DEF AllowAdmit
    <3>2. redis' = [redis EXCEPT ![k] = Counted(k)] /\ recent' = [recent EXCEPT ![k] = OneMoreRecent(k)]
      BY <2>2, Zenon DEF AllowAdmit
    <3> HIDE DEF k
    <3> QED
      BY <3>1, <3>2, ScriptSInv
  <2>3. CASE AllowRefuse(r)
    <3> DEFINE k == req[r].key
    <3>1. k \in Keys
      BY <2>1, <2>3 DEF AllowRefuse
    <3>2. redis' = [redis EXCEPT ![k] = Counted(k)] /\ recent' = recent
      BY <2>3, Zenon DEF AllowRefuse
    <3> HIDE DEF k
    <3> QED
      BY <3>1, <3>2, ScriptSInv
  <2>4. CASE AllowError(r)
    <3> DEFINE k == req[r].key
    <3>1. k \in Keys
      BY <2>1, <2>4 DEF AllowError
    <3>2. /\ recent' = recent
          /\ redis' = redis \/ redis' = [redis EXCEPT ![k] = Counted(k)]
      BY <2>4, Zenon DEF AllowError
    <3> HIDE DEF k
    <3> QED
      BY <1>1, <3>1, <3>2, ScriptSInv
  <2>5. CASE ReadTTL(r) \/ Leave(r)
    BY <1>1, <2>5 DEF ReadTTL, Leave
  <2> QED
    BY <1>2, <2>2, <2>3, <2>4, <2>5 DEF Run
<1>3. CASE Tick
  <2>1. \A k \in Keys : SlidingOf(k)'
    BY <1>3, OlderKey DEF SInv
  <2> QED
    BY <2>1 DEF SInv, Keys, Buckets
<1>4. CASE RedisRestart
  <2>1. \A k \in Keys : LimitOf(k) \in Nat \ {0}
    BY LimitOfType
  <2>2. \A k \in Keys : redis'[k].ttl = 0 /\ \A a \in 0..Window - 1 : recent'[k][a] = 0
    BY <1>4 DEF RedisRestart, NoEntry, NothingRecent
  <2>3. \A k \in Keys : LimitOf(k)' = LimitOf(k)
    BY DEF LimitOf
  <2> HIDE DEF Keys
  <2>4. \A k \in Keys : SlidingOf(k)'
    BY <2>1, <2>2, <2>3 DEF SlidingOf, Growing, AfterFirst, TwoWindows, Covered, Exists
  <2> QED
    BY <2>4 DEF SInv, Keys, Buckets
<1> QED
  BY <1>1, <1>2, <1>3, <1>4 DEF Next, vars, Arrive

\* In no Window seconds on end are twice the limit admitted, for every limit and
\* every window: not at the boundary of two windows, nor by requests that race,
\* nor after errors.
THEOREM LimiterBoundsAnyWindow == Spec => []SlidingBound
<1>1. IInv /\ SInv => SlidingBound
  <2> SUFFICES ASSUME IInv, SInv, NEW k \in Keys PROVE recent[k][Window - 1] <= 2 * LimitOf(k) - 1
    BY DEF SlidingBound
  <2>1. /\ redis[k].count \in Nat /\ redis[k].count <= LimitOf(k)
        /\ recent[k][Window - 1] \in Nat
        /\ LimitOf(k) \in Nat \ {0}
    BY KeyTypes
  <2>2. recent[k][Window - 1] <= LimitOf(k) - 1 + Covered(k)
    BY DEF SInv, SlidingOf, TwoWindows
  <2> HIDE DEF Keys
  <2> QED
    BY <2>1, <2>2 DEF Covered
<1>2. Spec => []SInv
  BY InitSInv, IInvHolds, NextSInv, PTL DEF Spec
<1> QED
  BY <1>1, <1>2, IInvHolds, PTL
=============================================================================
