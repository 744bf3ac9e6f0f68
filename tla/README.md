# Specifications of the hubigr auth service

TLA+ models of the Go service in `src/` (`cmd/auth`, `internal/...`), model
checked with TLC on small instances, with theorems that TLAPS proves for every
value of the constants. A module is always about the code: an action is a
statement or a command that the program executes, its guard the condition under
which the program gets there.

## 1. The system

One process serves HTTP with fiber: every request runs in a goroutine of its
own. State lives in Postgres (pgx pool of ten connections), in Redis (rate
limits) and in the directory `./uploads/avatars`; what the process itself keeps
between requests are metrics. There are no other replicas in the deployment,
but nothing in the models depends on there being one.

| Component | State | Operations | Hard behaviour |
|---|---|---|---|
| **Sessions** (`handlers.go` 102-159, 180-187, 368-440, 519-557, 589-697; `refresh_token_repo.go`; `user_repo.go`) | tables `users`, `refresh_tokens`, `password_reset_tokens`; JWTs in the hands of clients | login, refresh (`ValidateAndRotate`), logout, ban/unban, role change, reset request and confirmation | handlers are sequences of autocommitted statements: anything may commit in between; one transaction with `FOR UPDATE`; ignored errors; crash between statements; lost answers |
| **Accounts** (`handlers.go` 50-100, 161-178, 330-366) | `users`, `email_verify_tokens`, mail boxes | sign-up, resend, click on a link | the same; mail as a last step that may fail |
| **Rate limiter** (`ratelimit/redis.go`, `middleware.go` 65-89) | one Redis counter with a time to live per bucket and address | `Allow` (Lua script), `GetTTL` | racing requests, window boundaries, two commands that are not one, Redis errors and restarts |
| **Avatars** (`handlers.go` 253-293, 474-517; `upload/avatar.go`) | `users.avatar`, the files | upload, profile update | database and file system without a transaction; two uploads at once; undo of an update of unknown outcome |
| **Lifecycle** (`cmd/auth/main.go`) | listener, pool, Redis client, two goroutines besides main | listen, signal, close Redis, close the pool with a timeout, shut the server down, return from `Listen` | a signal before the server listens; shutdown against requests in flight; a pool that waits for its connections |
| **Metrics and health** (`metrics/*.go`, `handlers.go` 189-251) | counters and maps in memory, a mutex | count around every request, count logins, sign-ups and mails, snapshot, walk through the live maps, ping and judge | maps that are read without the mutex; answers that mix moments; errors that become statuses late |
| **Portal**: notifications, submissions, listing, CSRF (`handlers.go` 295-328, 442-472, 561-587; `user_repo.go`; `middleware.go` 91-153) | `notification_settings`, `users`, `submissions`, one cookie per browser | load and overwrite settings, count and page, fetch a token | two tabs with one row and one cookie; pages of a table that grows and whose order has ties; errors of `rows` that nobody asks for |
| Static files (`http/static.go`) | the files of Avatars | look up, send | a file is looked up and sent in two steps |
| Middlewares that only refuse (JWT parsing, captcha, validation), configuration, logging | none | | strings and formats |
| Monitoring (`internal/monitoring`) | | | imported by nothing |

Interaction: the router puts the rate limiter in front of the auth and profile
routes; the handlers call the repositories, which share the pool; bans and
resets act on sessions through `RevokeUserTokens`; sign-up and reset send mail;
the shutdown closes what the handlers use. Requests share nothing else: they
meet in the database, in Redis and in the directory.

What makes each component correct is stated in section 3. `PROJECT.json` lists
the hazards at their lines, and which property would catch which.

## 2. Modules

| Module | Models | Theorems in |
|---|---|---|
| `Sessions` | sessions, accounts' rights, password reset | `SessionsProofs`, `SessionsGuarantees` |
| `SessionFamilies` | what sessions promise, without statements, locks or requests | `SessionsProofs` |
| `Accounts` | sign-up and verification | `AccountsProofs` |
| `Registration` | what sign-up promises, without statements, tables of tokens or failures | `AccountsProofs` |
| `RateLimiter` | the limiter, its middleware, Redis with time | `RateLimiterProofs` |
| `Avatars` | avatar column, directory, the handlers that write them, views of the files | `AvatarsProofs` |
| `Lifecycle` | main and the goroutines of the shutdown, the pool | `LifecycleProofs` |
| `Metrics` | counters, the middleware that counts, /metrics and /health | `MetricsProofs` |
| `Portal` | notification settings, CSRF cookie, lists by page | `PortalProofs` |
| `MC...` | instances of each for TLC | |

The modules of the service have the same shape. `req[r]` is the local state of
the request in goroutine slot `r`: the operation, a program counter `pc` that
names the statement it is about to execute, and those of its local variables
that a later step uses. An action reads `req[r].pc`, does what one statement
does to the shared state, and moves on. Between two actions of a request
anything else may happen. `Faults` says what may go wrong: a statement *fails*
without effect, or takes effect and its caller gets an error (*unsure*: the
connection broke before the answer), the process *crash*es, an answer is *lost*,
the *mail* server refuses, the *disk* does. Handlers react as in the code: most
errors are answered 500 or 401, some are ignored.

### Sessions

- `users` is the table, reduced to what decisions read; `InitUsers` says what
  may be in it at first.
- `refresh[t]` is the row whose token is `t`. The token is stored as a bcrypt
  hash, kept here as the `salt` it was made with. `ValidateAndRotate` looks
  the row up by a hash it makes *anew* (`refresh_token_repo.go:55`), so it is
  found only if the same salt is drawn again. In the program this practically
  never happens; the model chooses a salt from `Salts`, which keeps both the
  program as it is and the rotation that it intends (with one salt: a
  deterministic hash). Everything that is checked about rotation is checked of
  the lookups that succeed.
- `RefreshLookup` takes the row lock of `FOR UPDATE` (`lock`), `RefreshRotate`
  is UPDATE, INSERT and COMMIT, which others see at once or not at all; every
  way out releases the lock.
- `RevokeSnapshot`/`RevokeApply` are the one UPDATE of `RevokeUserTokens` under
  READ COMMITTED: rows are found in the snapshot of the statement, then locked
  one after the other and changed. A row that was inserted after the snapshot
  is not changed.
- `access` are the JWTs clients hold; a logout needs one of the user, the admin
  actions one of an admin or moderator. Nothing compares them with the
  database - which is what the code does.
- History variables, which no guard reads: `owed`, `spent`, the fields `root`
  and `fate` of a row, `seen` and `late` of a request. `root` names the login a
  row descends from. `fate` becomes `doomed` in the very step that decides that
  the user's sessions end (the start of a logout, the UPDATE of a ban or of a
  reset), and `escaped` for a session that the code provably lets go: one that a
  rotation renamed after that step, one of a login that had read the old row,
  one whose revocation failed or was cut by a crash.

Abstractions: middlewares that only refuse are left out (their effect is that a
request does not start); the two SELECTs of the user row read one copy; the
forgot and confirm handlers' validation only refuses; a timeout of a request
does not exist in the code.

### SessionFamilies

The abstract specification has three variables: the tokens in use, whose family
a login founded, and the head of each family. It can found, renew and end
families, nothing else. `Sessions` implements it under the map

    used  = tokens that are in a row
    owner = for the first token of a family, the user of its row
    head  = the rows of the family that are not revoked

so that the insert of a login founds a family, the commit of a rotation renews
one, the second half of a revocation ends some families of one user, and every
other step is invisible. `Renew` needs a head: a family that is over is never
continued. `End` need not take all families of a user, since a revocation
misses what is inserted while it runs; how much it may miss is not said here
but by `RevocationComplete`.

### Accounts

Addresses stand for accounts (`CITEXT UNIQUE`, `LOWER($1)`). A sign-up draws its
token when it starts. `followed` (history) are the addresses whose mailbox's
links were used, `welcomed` the passwords of sign-ups that were answered 200.

### Registration

The abstract specification has the accounts, the verified addresses, the mail
boxes and the two histories, and no requests, tokens in tables or faults. An
account is opened, its creator welcomed (once, which may mail a link), a link
mailed again, a link followed, an address verified; nothing is ever taken back.
`Accounts` implements it under the identity map: `SignUp` is the INSERT of a
sign-up that took effect, also if its outcome stayed unsure, `Welcome` the end
of a sign-up, `Invite` that of a resend, `Follow` the start of a click,
`Confirm` its UPDATE; the other statements, and crashes, are invisible.

### RateLimiter

The script is one action (Redis runs it atomically), split by what it returns;
`GetTTL` is another. `Tick` passes one second; `EX` counts in seconds. `recent`
and `admitted` are history. `Bucket` is the table of the router: which route
counts in which key. `recent` keeps running totals by key, of what was admitted
in the last 1, 2, ..., `Window` seconds; the last of them is what `SlidingBound`
is about.

### Avatars

A file is absent, partial (created, being written) or complete. `DeleteAvatar`
removes a file by the base name of the URL it is given. `PUT /profile` stores
what the client sends, since nothing on the way looks at it: an avatar that
anybody was ever shown (`known`), of whichever user, one of another site, or
none. What is left out are names that nobody was shown, which hold 16 random
bytes. A view is `SecureStaticHandler`: it looks the file up and then sends it,
for anybody who knows the name.

`source`, `claimed` and `excused` are history. `claimed` are the avatars that an
upload of one user has read from its row as the one to replace while they were
the uploaded avatar of another: that upload removes the file for both
(`handlers.go:488, 508`). `AvatarServed` excepts these and says that nothing
else takes an uploaded avatar away; without the exception TLC finds the trace.

### Lifecycle

The model begins where the signal handler is armed and its goroutine started
(`main.go:109-111`): main has yet to call `Listen`, which gets a listener or
fails because the port is taken. A signal may come at any time from there on.
`ShutdownWithContext` closes the listener if there is one and does nothing
otherwise; its result is ignored and it is called once.

Of a request only what the shutdown can touch is left. `left` is the number of
times it still takes a connection. The ten seconds of `ShutdownWithContext`
have no effect on main and are left out; the five seconds of the select are a
choice (`Select` may always go on).

### Metrics

- Counters change under a mutex, in one step each - but the writes to
  `RequestsTotal` and `ResponseStatus` have a beginning and an end
  (`CountBegin`/`CountEnd`, `TallyBegin`/`TallyEnd`), because `GetSnapshot` hands
  out these two maps themselves and whoever encodes the answer walks through
  them without the mutex. A walk that meets a write finds the old or the new
  value, or the Go runtime ends the process (`Die`); the container is restarted
  with empty counters (`Restart`).
- `requests` is the sum over the map: its keys are made of `c.Method()`, whose
  memory fiber uses again, and under which key a request is found is left open.
- `ErrorHandler` is called by the logger middleware, which the metrics
  middleware encloses; therefore an error has become a status before it is
  counted.
- `LoginOutcomes` are what `Login` may count and answer. Of `/health` the pings
  are one step, the snapshot and the verdict another: the alert on failed logins
  is written over what the pings said.
- `answered`, `told`, `entered`, `joined` are history: what clients have got.

### Portal

- A tab waits for the answer to its request, so the request is part of the tab;
  what a tab is used for is chosen at first (`Tasks`).
- Settings: `stored` is the row, `draft` what the tab shows and sends back. The
  clients of the model send all settings (a body that omits some sets them to
  false, see below). `touched`, `stale`, `false` and `outdated` are history: what was
  edited, whether another tab has saved or the read had failed, whether another
  tab has fetched a CSRF token.
- CSRF: one cookie per browser, overwritten by every `GET /csrf-token`, dropped
  after an hour, and compared with the header on every `PUT`.
- Lists: rows get their `created_at` when their transaction starts and are seen
  when it commits, in any order (`RowCreated`, `RowCommitted`). `CreatedAt` says
  which moment each row has, and rows may share one: the queries order by it alone
  (`user_repo.go:231, 304`), so each of them chooses an order of the tied rows of
  its own (`TieBreaks`) before it takes its slice. `GetUsers` counts first, `GetUserSubmissions` reads the
  page first. `ReadRows` may break off at any row without an error, because
  `rows.Err` is not asked. A walk asks for page after page until one is short
  or the pages add up to the total. Rows are only created while somebody walks.

## 3. Runs

Each run is one question. "Reqs" is the number of requests at the same time.

| Run | Bounds | Shows |
|---|---|---|
| `sessions_rotation` | 2 users, 2 reqs, 3 tokens, 2 salts, no faults; login, refresh, logout | `OneLiveHead`: rotation never forks a session; `NoSilentOrphans`: nobody loses a session through the service itself; `OnlyOwnSessionsEnd`: nor through somebody else; `ImplementsFamilies`: all of it implements `SessionFamilies` |
| `sessions_rights` | 1 user, 3 reqs, 2 tokens, 2 roles, failing statements; login, refresh, ban, role change | `RevocationComplete`: no session that is to end is forgotten; `MintsReflectOneRow`: the rights in an answer come from one state of the account |
| `sessions_reset` | 1 user, 2 reqs, 1 token, 2 links, 2 passwords, all faults; login, reset request and confirmation, unban | `RevocationComplete`, `MintsReflectOneRow`; `UnusedLinkSurvives`: a late delete spares the newest link; `UsedLinkIsLeaving`: a used link stays only where its delete failed |
| `sessions_live` | 1 user, 2 reqs, 2 tokens, failing statements, fairness; login, refresh, logout | `RequestsFinish`, `DoomedSessionsEnd` |
| `accounts` | 2 addresses, 3 reqs, 3 links, 2 passwords, all faults | `WinnerKeepsPassword`: who is told to have an account has it; `VerifiedThroughMail`; `NewestLinkWorks`; `ImplementsRegistration`: all of it implements `Registration` |
| `limiter` | limits 2 and 1, 3 routes, window 3, 2 reqs, all faults, fairness | `WindowBound`: no counter admits more than its limit; `SlidingBound`: less than twice the limit in any window's time; `BlockIsLifted` |
| `avatars` | 2 users, 2 reqs, 3 files, all faults | `AvatarServed`: what an upload stored can be served, unless an upload of somebody else who has stored it too replaces it; `ViewedIsWhole`: nobody is sent half a file; `LeaksHaveACause` |
| `lifecycle` | 3 reqs, 2 connections, 2 statements each, fairness | `NoTransactionCut`; `ShutdownEnds`: a signal that is handled while the server listens ends the process; `RequestsEnd`: no request is kept, also when the pool is closed |
| `metrics` | 3 reqs, 4 requests in the life of a process, alarm above 1 | `TrafficBalance`, `BusinessBalance`: counted is what was answered; `ScrapeIsPlausible`: an answer that mixes two moments still fits together; `HealthIsHonest` |
| `portal` | 2 tabs that edit 2 settings with 3 CSRF tokens, or one that walks through 3 to 5 rows, two pairs of which share a moment, with pages of at most 2, asking for 0, 2 or 3; all faults | `WalkMissesNobody`: every row that is alone in its moment is shown; `OnlyEditsChange`, `RefusalHasCause` |

The runs have between 14 thousand (`lifecycle`) and 4.7 million distinct
states (`avatars`).

The bounds. Three requests are a pair that races and a third that comes between
(two refreshes and a ban, two sign-ups and a click, a scrape between two logins
that count). Two tokens are a session
and what a rotation makes of it; three allow a second login beside it. Two users
suffice to tell "own" from "other's", since no action involves more than two:
one user whose upload removes the avatar that another has uploaded takes two
users, two requests and two files, and the third file is what replaces it.
Two salts let a lookup hit or miss a row; where only the rows that are found
matter there is one. A window of three seconds has a beginning, a middle and an
end, and a limit of two a first, a last and a refused request. Four requests in
the life of a process are two refused logins, which raise the alarm, a third
of any kind, and the health check that reports it. A longest page of two lets a
client ask for too little, the most, and too much; five rows are three pages.
Of the rows there are at first, two share a moment, as do the two that may come;
all four ways to order these pairs are tried in each query, so that a pair lies
on one page, across two, and changes places in between.
Where a token, a link or the number of requests is used up, nothing need happen any
more: those runs say `CHECK_DEADLOCK FALSE`, as does the one whose process ends. Symmetry sets are
permutations of values that no definition tells apart; the runs with liveness
use none.

Every module of the service has one `TypeOK`, checked where its actions all occur. It says more
than types: a stored token belongs to a user and a family, a counter does not
pass its limit, only accounts that exist are verified, a request has the file
it writes to itself, the pool is never overrun, the mutex is held by whoever
writes.

Fairness. `Sessions`: the steps of a request are weakly fair (the scheduler of Go
runs every goroutine, Postgres and SMTP answer, with an error if need be), those
that wait for a row lock strongly fair from when the row is free (`Granted`),
because Postgres queues the waiters; that a waiting statement fails is never
relied on.
Starting a request, expiry and crashes are never fair. `RateLimiter`: time
passes. `Lifecycle`: main, the goroutines of the shutdown and those of the requests
run, a statement ends, and Redis answers or fails; taking a connection is strongly
fair, because the pool queues those who wait. That a signal comes, or a request,
is never fair.
No other module needs fairness; nothing is checked there that must happen.

### What the code does not keep

Each of these runs checks one statement of the documentation, a comment or a
test, and TLC finds it violated; `PROJECT.json` quotes the line.

| Run | Statement | What happens |
|---|---|---|
| `claim_rotation` | refresh tokens rotate | the lookup hashes with a new salt and does not find the row |
| `claim_snapshot` | `GetSnapshot` returns a snapshot for safe reading (`metrics.go:104`) | the maps in it are the live ones; a scrape that walks through one while a request writes to it ends the process |

Seen while modelling, without a run of its own. Of sessions and shutdown:

- a password change revokes all tokens (`TTL_POLICIES.md:36`) but that of a login
  that had read the old row and inserts its token afterwards (`fate` "escaped");
- two confirmations with one reset link both succeed if both update before
  either deletes (`user_repo.go:184-197`); `UsedLinkIsLeaving` is what holds;
- an unknown reset token is answered 500, never 400, because the repository
  returns `pgx.ErrNoRows` as an error (`user_repo.go:192`, `handlers.go:428-434`;
  `test_reset_password.sh:54` expects 400);
- a signal that is handled before the server listens can be lost: the handler is
  armed at `main.go:109`, `Listen` called at 149, and if `ShutdownWithContext` (144)
  finds no listener yet, it returns at once, unnoticed. The server then listens
  without Redis and database and answers 500; the goroutine that read signals is
  gone, and only a kill ends the process. The comment at `main.go:107` and
  `ISSUES.md:17` ("Добавить graceful shutdown", done) promise more. `ShutdownEnds`
  is therefore about signals that are still being handled when the server listens;
  stated for every signal, TLC refutes it with this behaviour;
- the forced timeout of the pool (`main.go:123`) does not help against a
  statement that hangs: main waits for it in its deferred `Close`;
- Redis and the pool are closed before the server stops, so that requests are
  accepted and answered 500, and main may exit before a request that holds no
  connection is answered (`main.go:119-149`).

Of the limiter and the avatars:

- "5 per minute" (`README.md:73`) is up to `2*limit - 1` in a minute, because a
  window starts with its first request; `SlidingBound` is the bound that holds;
- all auth routes share one counter per address (`middleware.go:67`), although
  `API.md:449-454` lists a limit for each;
- `GetTTL` answers -2 when the entry expired after the refusal, and that number
  is told to the client (`redis.go:94`, `middleware.go:82`);
- of two uploads at once one leaves a file that no row names
  (`handlers.go:506`); it is one of the causes of `LeaksHaveACause`;
- `PUT /profile` stores the avatar of another user (`user_repo.go:100`;
  `ValidateProfile` does not look at it), and the next upload of whoever did that
  removes the file (`handlers.go:507-508`), so that the other's avatar is gone. It
  is the exception of `AvatarServed`.

Of the portal and the health check:

- `rows.Err` is never asked, so a list that broke off is answered 200
  (`user_repo.go:243, 314`); it is an exception of `WalkMissesNobody`;
- `ORDER BY created_at DESC` and `ORDER BY submitted_at DESC` have no tie-breaker
  (`user_repo.go:304, 231`), so that of two rows of one moment at the border of two
  pages one may be shown twice and the other not at all; it is another exception,
  and TLC finds the walk if it is taken away;
- a failed read of the settings is answered with the defaults
  (`user_repo.go:159`), which the next save makes the settings; it is an
  exception of `OnlyEditsChange`;
- a `PUT` of settings that omits some sets them to false, and `API.md:284`
  documents a channel "push" that `Channels` (`models.go:50-53`) does not have;
- two tabs that keep fetching CSRF tokens may refuse each other forever; and
  `X-CSRF-Token` is not among the `AllowHeaders` of CORS nor are credentials
  allowed (`router.go:20-22`), so that a page of another origin cannot send both;
- once more than ten logins were refused, `/health` says "degraded" for the rest
  of the process's life, also during an outage (its status is then still 503);
- the metrics of a login that was correct but unverified or banned show no
  attempt at all (`LoginOutcomes`).

## 4. Proofs

TLAPS proves, for every value of the constants that satisfies the assumption of
the module:

- **`SessionsProofs`**: `TypeCorrect` (`Spec => []TypeOK`) and
  `RotationNeverForks` (`Spec => []OneLiveHead`). `OneLiveHead` is not
  inductive: that a rotation replaces a live head by another one needs that the
  head is still unrevoked when `RefreshRotate` runs, which needs the lock. The
  invariant `IInv` adds `ReqOK` (a request that is about to rotate has a token,
  a fresh one and a user), `LockOK` (it holds the lock of a token that is not
  revoked), `FreshApart` (tokens about to be inserted are absent and pairwise
  different) and `RootOK` (the root of a stored row is stored, so that a new
  login founds a family of its own).
- **`SessionsProofs`**, second part: `SessionsImplementFamilies`. `FInv` adds to
  `IInv` that all rows of a family are of the user who logged in (`FamilyOK`) and that a
  revocation has only rows of its user in its snapshot (`SnapOK`). Most steps are
  `Invisible`; the insert of a login, the commit of a rotation and the end of a
  revocation have a lemma each that names the abstract step. That a rotation
  leaves one head is `OneLiveHead` again.
- **`SessionsGuarantees`**: `RevocationIsComplete`, which is inductive with the
  invariants above, since `fate` is set in the step that decides;
  `RightsAreOfOneMoment` by `MInv` (what a request has seen follows the row, and
  the copy it uses was seen); `OthersKeepTheirSessions` (an action property) by
  `HInv` (a rotation goes on for the user of the row it has locked) and
  `SnapOK`; `NewestResetLinkWorks` and `UsedResetLinkGoes` by `LInv` (a link is
  one user's and, until it is mailed, known to its request only, so that the
  delete of one is never the delete of another).
  `SessionsCanBeNamed` is `Spec => []NoSilentOrphans` for `Faults \subseteq
  {"mail"}`. The hypothesis is what the code needs, not what the proof needs: a
  statement that fails after the commit of a rotation (`handlers.go:537-550`), an
  answer that gets lost and a crash each leave a row whose token nobody holds, and
  TLC shows it for every one of them. `OInv` says why racing bans do not: a
  session that nothing has doomed has a user who is not banned and a token that a
  client holds or that a request carries towards its answer (`RowNamed`), a
  refresh looks up the user of the very row it made (`UserOK`), and a login that
  inserts for a user banned meanwhile knows that it is late (`InsertOK`).
- **`AccountsProofs`**: all four invariants, by `AInv`: whatever carries a link -
  a mailbox, a row, a handler - is about one address (`OneOwner`), and one handler
  mails it, once (`PendingFresh`); so a click is about the mailbox it came from
  (`FollowedOK`), and the link it deletes is awaited by nobody (`SpentNotOwed`).
  `AccountsImplementRegistration` adds `WInv`: the sign-up whose INSERT succeeded
  is alone with its address until it answers, and nobody was welcomed there
  before; so it is the one that `Welcome` welcomes.
- **`AvatarsProofs`**: all four invariants. `BInv`: until a file is in the row of
  its uploader only that upload knows it (`FreshOK`), its name gets known only when it
  is complete (`KnownWhole`), and what an upload removes is in no row that an upload
  wrote, or in one of another user and claimed (`SafeToRemove`): a row gets a file by
  an upload only once, so that such a row named it already when the other upload
  read its own. `LeaksAreExplained` has an
  invariant of its own, `CInv`, about states in which no user is excused.
- **`RateLimiterProofs`**: `LimiterTypeCorrect` and `LimiterBoundsWindows`
  (`Spec => []WindowBound`), by `CountCovers`: what was admitted since the entry
  was created is at most its count, and the count is at most the limit.
  `LimiterBoundsAnyWindow` (`Spec => []SlidingBound`) by `SInv`, which follows the
  running totals through the life of an entry: they grow with the span
  (`Growing`), what was admitted after the entry's first second is less than its
  count (`AfterFirst`), and all of a window's time is within the count and one
  less than the limit (`TwoWindows`). When the entry is gone, its first second is
  out of sight, so that less than the limit is left for the next entry to meet.
  The totals are what makes this an induction over steps, with no sum to prove
  anything about.
- **`LifecycleProofs`**: `PoolNeverOverrun` (`Spec => []TypeOK`) and
  `ExitCutsNoTransaction` (`Spec => []NoTransactionCut`), by `ClosedIsIdle` (a
  closed pool has no connection in use) and `ExitIsClosed` (main exits only
  behind a closed pool), from the arming of the signal handler on and whether `Listen`
  succeeds or fails. The assumption is that there are finitely many slots
  for requests.
- **`MetricsProofs`**: all five invariants, by `MInv`. Each counter is what was
  answered plus the size of the set of requests that have got so far, and a
  request moves between these sets in the step that counts. `ScrapeIsPlausible`
  needs `Plausible`: logins and sign-ups, together with the requests that are
  counted but will not add to them (`Open`), are at most the requests counted;
  the scrape is itself one of these. Finitely many slots are assumed here too.
- **`PortalProofs`**: `PortalTyped`, `NoRefusalWithoutCause`, `SavesChangeOnlyEdits`
  (an action property) and `WalksMissNobody`. A token that is not outdated is the
  cookie's (`TokenOK`); a copy that is neither stale nor false is the row but for
  what was touched in its tab (`CopyOK`). The walk goes by `Rank`, the number of
  newer rows: a row that is alone in its moment has this place in every answer,
  however ties are broken (`LonePlace`). Ranks only grow, because
  rows are only added, so that what slides down from a page already read is shown
  again later (`SeenOK`, `ReadOK`), and what lies behind a short page or the
  total was seen (`TotalOK`). That a page within the list is full needs
  that every place is some row's: with its ties broken, an answer gives each visible
  row a place of its own, of as many places as there are rows, hence all of them
  (`PlaceIsInjective`, `EveryPlaceIsTaken`). Assumed of the order is only that a
  query breaks ties in some way; moments and commits may come in any order.

Every proof has a lemma per action and lemmas for the shapes of steps that
several actions share. Assumptions on constants are named in the module that
declares them; TLC evaluates them on every run.

Only model-checked: everything temporal under fairness (`RequestsFinish`,
`DoomedSessionsEnd`, `BlockIsLifted`, `ShutdownEnds`, `RequestsEnd`), because the provers have
neither fairness nor ENABLED, and of course the statements that are violated.
Every invariant, action property and refinement of the passing runs is a
theorem, `NoSilentOrphans` for the faults under which it holds.

## 5. Not modelled

- `internal/monitoring`: imported by nothing. `LoginKey` and `GetRemaining` of the
  limiter and `CaptchaMiddleware`: called by nothing.
- Validation, JWT parsing, role checks as middlewares: they refuse before
  anything changes, so that the request does not start in the models.
- Configuration, logging, the text of mails and of the Prometheus output: read
  once, or formatted strings that nothing decides on.
- Cryptography: tokens are fresh values, hashes their salts, JWTs their claims.
- `GetUserDetails` is one SELECT; the columns of the profile other than the avatar
  are overwritten in one statement and read by nothing that decides.
- The gateway and the deployment are configuration of other programs.
- Isolation levels other than READ COMMITTED, replication and failover of Postgres
  are not used by the code.

## 6. Plan

Order of work: sessions first, because they carry the program's promises, then
the components they touch, then proofs about all of them.

1. Done: `Sessions`, `RateLimiter`, `Accounts`, `Avatars`, `Lifecycle`, `Metrics`,
   `Portal`, with the runs above; the abstract `SessionFamilies` and `Registration`
   with their refinements, checked and proved; proofs of the safety properties of
   every module.
2. Left: the limiter in front of sessions and the shutdown behind them, composed,
   to check that a refusal changes nothing and a shutdown loses no rotation.
