------------------------------- MODULE Portal -------------------------------
(***************************************************************************)
(* What a signed-in browser does with its account behind AuthMiddleware:   *)
(* tabs that edit the notification settings, guarded by the CSRF cookie    *)
(* that all tabs of the browser share, and tabs that walk through a list   *)
(* page by page, the users (GetUsers) or one's own submissions             *)
(* (GetMySubmissions).                                                     *)
(*                                                                         *)
(* A tab waits for the answer to its request, so the request is part of    *)
(* the tab.  What a tab is used for is chosen at first and stays.          *)
(***************************************************************************)
EXTENDS Integers, FiniteSets

CONSTANTS
  Tabs,          \* tabs of one browser
  Tasks,         \* what tabs are used for: a set of functions from Tabs to Uses
  Fields,        \* the settings, such as new_game or channels.in_app
  Csrfs,         \* CSRF tokens that can be generated
  Faults,        \* what may go wrong: a subset of FaultKinds
  OldRows,       \* rows of the list at first
  MaxRows,       \* bound: rows of the list
  CreatedAt,     \* the created_at, or submitted_at, of every row
  TieBreaks,     \* orders in which a query may return the rows of one moment
  MaxLimit,      \* the longest page one may ask for (100)
  DefaultLimit,  \* the length of other pages (20)
  AskedLimits,   \* the lengths clients ask for
  NoCsrf, NoSettings

Uses == {"settings", "users", "submissions", "none"}
Lists == {"users", "submissions"}

FaultKinds ==
  { "failed",   \* a statement fails and has no effect
    "unsure",   \* a statement takes effect and its caller gets an error
    "torn",     \* the connection breaks while rows are read
    "random",   \* no random bytes
    "lost" }    \* a response never reaches its tab

ASSUME PortalAssumption ==
  /\ NoCsrf \notin Csrfs /\ NoSettings \notin [Fields -> BOOLEAN]
  /\ Tasks \subseteq [Tabs -> Uses]
  /\ Faults \subseteq FaultKinds
  /\ OldRows \in Nat /\ MaxRows \in Nat /\ OldRows <= MaxRows
  /\ DefaultLimit \in 1 .. MaxLimit /\ MaxLimit \in Nat
  /\ AskedLimits \subseteq Int

\* Whatever the clock says, and whatever Postgres does with ties.
ASSUME OrderAssumption ==
  /\ CreatedAt \in [1 .. MaxRows -> Nat] /\ TieBreaks \subseteq [1 .. MaxRows -> Nat]
  /\ \A order \in TieBreaks : \A m, n \in 1 .. MaxRows : order[m] = order[n] => m = n

VARIABLES
  task,     \* what every tab is used for
  stored,   \* the row of notification_settings, or NoSettings
  cookie,   \* the csrf_token in the browser
  created,  \* rows whose created_at is set
  visible,  \* rows that are committed
  tab       \* the local state of every tab

table == <<created, visible>>
vars == <<task, stored, cookie, created, visible, tab>>

-----------------------------------------------------------------------------
Defaults == [f \in Fields |-> TRUE]

\* draft is what the tab shows and sends back.  History: touched are the settings
\* edited since it was loaded or saved; stale if another tab has saved since then,
\* false if it shows the defaults because the read failed, outdated if the cookie
\* is no longer the one of the tab's token.
\* Walks: ask and wish are the page and limit asked for, page, limit, total and
\* rows the answer.  History: existed are the rows at the start, seen those
\* shown; cut if the page broke off, torn if one of the walk did, overtaken if
\* rows were added between COUNT and the page.
Idle == [pc |-> "idle", csrf |-> NoCsrf, draft |-> Defaults, touched |-> {},
         stale |-> FALSE, false |-> FALSE, outdated |-> FALSE,
         until |-> "none", ask |-> 0, wish |-> 0, page |-> 0, limit |-> 0, total |-> 0,
         rows |-> {}, cut |-> FALSE, existed |-> {}, seen |-> {}, torn |-> FALSE, overtaken |-> FALSE]

Settings == [Fields -> BOOLEAN]
Tab == [pc : {"idle", "loaded", "edited", "upsert", "refused", "saved",
              "ask", "count", "rows", "answer", "error", "walked"},
        csrf : Csrfs \cup {NoCsrf}, draft : Settings, touched : SUBSET Fields,
        stale : BOOLEAN, false : BOOLEAN, outdated : BOOLEAN,
        until : {"none", "short", "total"}, ask : Nat, wish : Int,
        page : Nat, limit : 0 .. MaxLimit, total : 0 .. MaxRows, rows : SUBSET (1 .. MaxRows), cut : BOOLEAN,
        existed : SUBSET (1 .. MaxRows), seen : SUBSET (1 .. MaxRows),
        torn : BOOLEAN, overtaken : BOOLEAN]

At(t, uses, pc) == task[t] \in uses /\ tab[t].pc = pc
Becomes(t, q) == tab' = [tab EXCEPT ![t] = q]
Goto(t, pc) == Becomes(t, [tab[t] EXCEPT !.pc = pc])

-----------------------------------------------------------------------------
(* The CSRF token *)

FreshCsrfs == {c \in Csrfs : c # cookie /\ \A t \in Tabs : tab[t].csrf # c}

\* GET /csrf-token.  Without random bytes the answer is an empty token and no cookie.
FetchToken(t) ==
  /\ task[t] = "settings" /\ tab[t].pc \in {"idle", "loaded", "edited", "refused"}
  /\ \/ \E c \in FreshCsrfs :
          /\ cookie' = c
          /\ tab' = [p \in Tabs |->
               IF p = t THEN [tab[t] EXCEPT !.csrf = c, !.outdated = FALSE,
                                !.pc = IF @ = "refused" THEN "edited" ELSE @]
               ELSE [tab[p] EXCEPT !.outdated = TRUE]]
     \/ /\ "random" \in Faults
        /\ Becomes(t, [tab[t] EXCEPT !.csrf = NoCsrf])
        /\ UNCHANGED cookie
  /\ UNCHANGED <<task, stored, table>>

\* MaxAge: an hour
CookieExpires ==
  /\ cookie # NoCsrf
  /\ cookie' = NoCsrf
  /\ tab' = [t \in Tabs |-> [tab[t] EXCEPT !.outdated = TRUE]]
  /\ UNCHANGED <<task, stored, table>>

\* CSRFMiddleware on PUT: header and cookie must be there and be the same.
Verified(t) == tab[t].csrf # NoCsrf /\ cookie # NoCsrf /\ tab[t].csrf = cookie

CookieAfterUseOnce == NoCsrf   \* mutant: a token is good for one request
CookieAfterUse == cookie

-----------------------------------------------------------------------------
(* Notification settings *)

LoadedWithoutChannels(row) ==   \* mutant: one column is not read
  IF row = NoSettings THEN Defaults
  ELSE [row EXCEPT ![CHOOSE f \in Fields : TRUE] = TRUE]
\* GetNotificationSettings: no row means the defaults.
Loaded(row) == IF row = NoSettings THEN Defaults ELSE row

\* An error of the SELECT is answered with the defaults too.
Load(t) ==
  /\ At(t, {"settings"}, "idle")
  /\ \E failed \in IF "failed" \in Faults THEN BOOLEAN ELSE {FALSE} :
       Becomes(t, [tab[t] EXCEPT !.pc = "loaded", !.draft = IF failed THEN Defaults ELSE Loaded(stored),
                                 !.touched = {}, !.stale = FALSE, !.false = failed])
  /\ UNCHANGED <<task, stored, cookie, table>>

\* The user changes one setting; the tab sends all of them.
Edit(t) ==
  /\ task[t] = "settings" /\ tab[t].pc \in {"loaded", "edited", "saved"}
  /\ \E f \in Fields :
       Becomes(t, [tab[t] EXCEPT !.pc = "edited", !.draft = [@ EXCEPT ![f] = ~@], !.touched = @ \cup {f}])
  /\ UNCHANGED <<task, stored, cookie, table>>

Save(t) ==
  /\ At(t, {"settings"}, "edited")
  /\ Goto(t, IF Verified(t) THEN "upsert" ELSE "refused")
  /\ cookie' = IF Verified(t) THEN CookieAfterUse ELSE cookie
  /\ UNCHANGED <<task, stored, table>>

\* UpdateNotificationSettings overwrites every column.  After an error the tab
\* may try again.
Upsert(t) ==
  /\ At(t, {"settings"}, "upsert")
  /\ \/ \E q \in {[tab[t] EXCEPT !.pc = "saved", !.touched = {}, !.stale = FALSE, !.false = FALSE]}
                 \cup {[tab[t] EXCEPT !.pc = "edited"] : f \in Faults \cap {"unsure"}} :
          /\ stored' = tab[t].draft
          /\ tab' = [p \in Tabs |-> IF p = t THEN q ELSE [tab[p] EXCEPT !.stale = TRUE]]
     \/ "failed" \in Faults /\ Goto(t, "edited") /\ UNCHANGED stored
  /\ UNCHANGED <<task, cookie, table>>

\* The user goes on, or leaves without saving.
Leave(t) ==
  /\ task[t] = "settings" /\ tab[t].pc \in {"loaded", "edited", "refused", "saved"}
  /\ Goto(t, "idle")
  /\ UNCHANGED <<task, stored, cookie, table>>

-----------------------------------------------------------------------------
(* Lists.  Rows are only added: nothing in the program deletes a user.  Two rows
   may have one created_at, the clock may even go back. *)

\* The INSERT of a row starts: created_at is NOW() ...  (Nobody who edits settings
\* would notice.)
RowCreated ==
  /\ created < MaxRows /\ \E t \in Tabs : task[t] \in Lists
  /\ created' = created + 1
  /\ UNCHANGED <<task, stored, cookie, visible, tab>>

\* ... and commits, not always in that order.
RowCommitted(n) ==
  /\ n \in (1 .. created) \ visible
  /\ visible' = visible \cup {n}
  /\ UNCHANGED <<task, stored, cookie, created, tab>>

EffectivePage(p) == IF p < 1 THEN 1 ELSE p
EffectiveLimitUnbounded(n) == IF n < 1 THEN DefaultLimit ELSE n   \* mutant: no longest page
EffectiveLimit(n) == IF n < 1 \/ n > MaxLimit THEN DefaultLimit ELSE n

EchoAsked(limit, asked) == asked   \* mutant: the answer states what was asked for
Echo(limit, asked) == limit

\* ORDER BY created_at DESC LIMIT limit OFFSET offset.  Nothing else is compared, so
\* rows of one moment come in an order that may differ from query to query.
Before(m, n, order) ==
  \/ CreatedAt[m] > CreatedAt[n]
  \/ CreatedAt[m] = CreatedAt[n] /\ order[m] < order[n]
Ahead(n, order) == {m \in visible : Before(m, n, order)}
Slice(offset, limit, order) ==
  {n \in visible : Cardinality(Ahead(n, order)) \in offset .. offset + limit - 1}

OffsetByOne(page, limit) == page * limit   \* mutant: pages counted from zero
Offset(page, limit) == (page - 1) * limit

CountFirst(use) == "count"   \* mutant: both lists count first
\* GetUsers counts first, GetUserSubmissions reads the page first.
FirstStatement(use) == IF use = "users" THEN "count" ELSE "rows"
After(use, statement) ==
  IF statement = FirstStatement(use) THEN (IF statement = "rows" THEN "count" ELSE "rows")
  ELSE "answer"

\* A client starts with page 1, or 0, and goes on until a page is short or until
\* the pages add up to total.
WalkStart(t) ==
  /\ At(t, Lists, "idle")
  /\ \E p \in {0, 1}, n \in AskedLimits, until \in {"short", "total"} :
       Becomes(t, [Idle EXCEPT !.pc = "ask", !.ask = p, !.wish = n, !.until = until,
                               !.existed = visible])
  /\ UNCHANGED <<task, stored, cookie, table>>

\* GetUsers and GetMySubmissions up to the first statement
Ask(t) ==
  /\ At(t, Lists, "ask")
  /\ Becomes(t, [tab[t] EXCEPT !.pc = FirstStatement(task[t]), !.page = EffectivePage(tab[t].ask),
                               !.limit = EffectiveLimit(tab[t].wish)])
  /\ UNCHANGED <<task, stored, cookie, table>>

Count(t) ==
  /\ At(t, Lists, "count")
  /\ \/ Becomes(t, [tab[t] EXCEPT !.pc = After(task[t], "count"), !.total = Cardinality(visible)])
     \/ "failed" \in Faults /\ Goto(t, "error")
  /\ UNCHANGED <<task, stored, cookie, table>>

\* The loop over the rows ends when Next returns false, at the end of the rows or
\* at an error: rows.Err is not asked, and what was read so far is the page.
ReadRows(t) ==
  /\ At(t, Lists, "rows")
  /\ \/ \E order \in TieBreaks :
          LET found == Slice(Offset(tab[t].page, tab[t].limit), tab[t].limit, order)
              Read(part) == [tab[t] EXCEPT
                !.pc = After(task[t], "rows"), !.rows = part,
                !.cut = part # found,
                !.overtaken = task[t] = "users" /\ Cardinality(visible) > tab[t].total]
          IN \/ Becomes(t, Read(found))
             \/ /\ "torn" \in Faults
                /\ \E n \in found : Becomes(t, Read({m \in found : Before(m, n, order)}))
     \/ "failed" \in Faults /\ Goto(t, "error")
  /\ UNCHANGED <<task, stored, cookie, table>>

\* The client goes by what the answer states.
Receive(t) ==
  /\ At(t, Lists, "answer")
  /\ LET q == tab[t]
         limit == Echo(q.limit, q.wish)
         last == IF q.until = "total" THEN q.page * limit >= q.total
                                      ELSE Cardinality(q.rows) < limit
     IN Becomes(t, [q EXCEPT !.pc = IF last THEN "walked" ELSE "ask",
                             !.seen = @ \cup q.rows, !.torn = @ \/ q.cut,
                             !.ask = q.page + 1])
  /\ UNCHANGED <<task, stored, cookie, table>>

\* After a 500, or without an answer, the client asks for the same page again.
Retry(t) ==
  /\ task[t] \in Lists
  /\ tab[t].pc = "error" \/ (tab[t].pc = "answer" /\ "lost" \in Faults)
  /\ Goto(t, "ask")
  /\ UNCHANGED <<task, stored, cookie, table>>

WalkAgain(t) ==
  /\ At(t, Lists, "walked")
  /\ Becomes(t, Idle)
  /\ UNCHANGED <<task, stored, cookie, table>>

-----------------------------------------------------------------------------
Init ==
  /\ task \in Tasks
  /\ stored = NoSettings
  /\ cookie = NoCsrf
  /\ created = OldRows /\ visible = 1 .. OldRows
  /\ tab = [t \in Tabs |-> Idle]

EditSettings(t) == FetchToken(t) \/ Load(t) \/ Edit(t) \/ Save(t) \/ Upsert(t) \/ Leave(t)
Walk(t) ==
  WalkStart(t) \/ Ask(t) \/ Count(t) \/ ReadRows(t) \/ Receive(t) \/ Retry(t) \/ WalkAgain(t)

Next ==
  \/ \E t \in Tabs : EditSettings(t) \/ Walk(t)
  \/ CookieExpires
  \/ RowCreated
  \/ \E n \in 1 .. MaxRows : RowCommitted(n)

Spec == Init /\ [][Next]_vars
-----------------------------------------------------------------------------
(* Properties *)

\* Every variable holds what the browser, the tables and the answers can hold.
TypeOK ==
  /\ task \in Tasks
  /\ stored \in Settings \cup {NoSettings}
  /\ cookie \in Csrfs \cup {NoCsrf}
  /\ created \in 0 .. MaxRows /\ visible \subseteq 1 .. created
  /\ tab \in [Tabs -> Tab]

\* No other row of the list has the created_at of this one.
Alone(n) == \A m \in visible : CreatedAt[m] = CreatedAt[n] => m = n

\* Whoever walks through a list is shown every row there was when the walk began,
\* however many are added meanwhile, in whatever order they commit, and whatever
\* page and limit were asked for.  Three exceptions: rows that share their moment
\* with another, which may change places between two pages; a page that was cut
\* off by an error nobody looked at; and, for a client that goes by the total, a
\* user list that grew between its COUNT and its last page.
WalkMissesNobody ==
  \A t \in Tabs : tab[t].pc = "walked" /\ ~tab[t].torn =>
    \/ {n \in tab[t].existed : Alone(n)} \subseteq tab[t].seen
    \/ tab[t].until = "total" /\ tab[t].overtaken

\* A save changes a setting that was not edited in its tab only if the tab showed
\* an old copy - another tab had saved since - or the defaults of a failed read.
OnlyEditsChange ==
  [][\A t \in Tabs : Upsert(t) /\ stored' # stored /\ ~tab[t].stale /\ ~tab[t].false =>
       \A f \in Fields : stored'[f] # (IF stored = NoSettings THEN Defaults ELSE stored)[f]
                       => f \in tab[t].touched]_vars

\* A tab that has fetched a token is refused only if the cookie has expired or
\* another tab has fetched one since: saving does not use a token up.
RefusalHasCause ==
  \A t \in Tabs : tab[t].pc = "refused" => tab[t].csrf = NoCsrf \/ tab[t].outdated
=============================================================================
