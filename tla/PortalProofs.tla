---------------------------- MODULE PortalProofs ----------------------------
(***************************************************************************)
(* What a browser may rely on behind AuthMiddleware, for any number of     *)
(* tabs, settings, rows and lengths of pages: no tab is refused without a  *)
(* cause, no save changes what its tab did not edit, and no walk through a *)
(* list misses a row, ties aside.                                          *)
(***************************************************************************)
EXTENDS Portal, FiniteSetTheorems, TLAPS

USE PortalAssumption

-----------------------------------------------------------------------------
(***************************************************************************)
(* The inductive invariant.                                                *)
(*                                                                         *)
(* A token that is not outdated is the one of the cookie, which every tab  *)
(* of the browser shares.  A copy that is neither stale nor false is the   *)
(* stored row but for the settings touched in its tab.                     *)
(***************************************************************************)
TokenOK(t) == tab[t].csrf # NoCsrf /\ ~tab[t].outdated => tab[t].csrf = cookie
UseOK(t) == tab[t].pc = "walked" => task[t] \in Lists
RefusalOK(t) == tab[t].pc = "refused" => tab[t].csrf = NoCsrf \/ tab[t].outdated

HoldsCopy == {"loaded", "edited", "upsert", "refused", "saved"}
CopyOK(t) ==
  task[t] = "settings" /\ tab[t].pc \in HoldsCopy /\ ~tab[t].stale /\ ~tab[t].false =>
    \A f \in Fields : f \notin tab[t].touched => tab[t].draft[f] = Loaded(stored)[f]

(***************************************************************************)
(* The place of a row in one answer is the number of rows ahead of it; the *)
(* rank of a row is the number of rows that are newer, which is the place  *)
(* of a row that is alone in every answer.  Rows are only added, so ranks  *)
(* only grow, and what slides down from a page that was read is shown      *)
(* again on a later one.  After the pages before the one that is asked     *)
(* for, every row that existed, is alone and has a rank on one of those    *)
(* pages was seen.                                                         *)
(***************************************************************************)
Newer(n) == {m \in visible : CreatedAt[m] > CreatedAt[n]}
Rank(n) == Cardinality(Newer(n))
Place(n, order) == Cardinality(Ahead(n, order))

\* The rows that a walk has to show.
Lone(t) == {n \in tab[t].existed : Alone(n)}

Walking == {"ask", "count", "rows", "answer", "error"}
HasAsked == {"count", "rows", "answer"}
PageOf(t) == EffectivePage(tab[t].ask)
LimitOf(t) == EffectiveLimit(tab[t].wish)

\* The rows of the page are known: the count of a user list comes before them.
HasRead(t) == tab[t].pc = "answer" \/ (tab[t].pc = "count" /\ task[t] = "submissions")

Shown(t) == tab[t].seen \cup tab[t].rows
WholeSoFar(t) == ~tab[t].torn /\ ~tab[t].cut

ExistedOK(t) == tab[t].existed \subseteq visible
AskedOK(t) == tab[t].pc \in HasAsked => tab[t].page = PageOf(t) /\ tab[t].limit = LimitOf(t)
SeenOK(t) ==
  tab[t].pc \in Walking /\ ~tab[t].torn =>
    \A n \in Lone(t) : Rank(n) < Offset(PageOf(t), LimitOf(t)) => n \in tab[t].seen
ReadOK(t) ==
  HasRead(t) /\ WholeSoFar(t) =>
    /\ \A n \in Lone(t) : Rank(n) < Offset(PageOf(t) + 1, LimitOf(t)) => n \in Shown(t)
    /\ Cardinality(tab[t].rows) < LimitOf(t) => Lone(t) \subseteq Shown(t)
TotalOK(t) ==
  tab[t].pc = "answer" /\ WholeSoFar(t) /\ ~tab[t].overtaken
    /\ tab[t].total <= Offset(PageOf(t) + 1, LimitOf(t)) => Lone(t) \subseteq Shown(t)
WalkedOK(t) ==
  tab[t].pc = "walked" /\ ~tab[t].torn =>
    Lone(t) \subseteq tab[t].seen \/ (tab[t].until = "total" /\ tab[t].overtaken)

SettingsOK(t) == TokenOK(t) /\ RefusalOK(t) /\ UseOK(t) /\ CopyOK(t)
WalkOK(t) ==
  task[t] \in Lists =>
    ExistedOK(t) /\ AskedOK(t) /\ SeenOK(t) /\ ReadOK(t) /\ TotalOK(t) /\ WalkedOK(t)

PInv == TypeOK /\ \A t \in Tabs : SettingsOK(t) /\ WalkOK(t)

-----------------------------------------------------------------------------
(***************************************************************************)
(* Ranks.                                                                  *)
(***************************************************************************)
LEMMA VisibleIsFinite ==
  ASSUME TypeOK
  PROVE  /\ visible \subseteq 1 .. MaxRows
         /\ IsFiniteSet(visible)
         /\ Cardinality(visible) \in 0 .. MaxRows
<1>1. visible \subseteq 1 .. MaxRows
  BY DEF TypeOK
<1>2. IsFiniteSet(1 .. MaxRows) /\ Cardinality(1 .. MaxRows) = MaxRows
  BY FS_Interval
<1>3. IsFiniteSet(visible) /\ Cardinality(visible) <= MaxRows
  BY <1>1, <1>2, FS_Subset
<1>4. Cardinality(visible) \in Nat
  BY <1>3, FS_CardinalityType
<1> QED
  BY <1>1, <1>3, <1>4

LEMMA RankType ==
  ASSUME TypeOK, NEW n
  PROVE  IsFiniteSet(Newer(n)) /\ Rank(n) \in Nat
<1>1. Newer(n) \subseteq visible /\ IsFiniteSet(visible)
  BY VisibleIsFinite DEF Newer
<1>2. IsFiniteSet(Newer(n))
  BY <1>1, FS_Subset
<1> QED
  BY <1>2, FS_CardinalityType DEF Rank

LEMMA PlaceType ==
  ASSUME TypeOK, NEW n, NEW order
  PROVE  IsFiniteSet(Ahead(n, order)) /\ Place(n, order) \in Nat
<1>1. Ahead(n, order) \subseteq visible /\ IsFiniteSet(visible)
  BY VisibleIsFinite DEF Ahead
<1>2. IsFiniteSet(Ahead(n, order))
  BY <1>1, FS_Subset
<1> QED
  BY <1>2, FS_CardinalityType DEF Place

\* Ties broken, the rows of an answer are totally ordered.
LEMMA OrderType ==
  ASSUME TypeOK, NEW n \in visible, NEW order \in TieBreaks
  PROVE  CreatedAt[n] \in Nat /\ order[n] \in Nat
<1>1. n \in 1 .. MaxRows
  BY VisibleIsFinite
<1> QED
  BY <1>1, OrderAssumption

LEMMA BeforeIsTotal ==
  ASSUME TypeOK, NEW m \in visible, NEW n \in visible, NEW order \in TieBreaks
  PROVE  /\ ~Before(n, n, order)
         /\ m = n \/ Before(m, n, order) \/ Before(n, m, order)
         /\ \A k \in visible : Before(k, m, order) /\ Before(m, n, order) => Before(k, n, order)
<1>1. m \in 1 .. MaxRows /\ n \in 1 .. MaxRows
  BY VisibleIsFinite
<1>2. CreatedAt[m] \in Nat /\ CreatedAt[n] \in Nat /\ order[m] \in Nat /\ order[n] \in Nat
  BY OrderType
<1>3. order[m] = order[n] => m = n
  BY <1>1, OrderAssumption
<1>4. ASSUME NEW k \in visible, Before(k, m, order), Before(m, n, order) PROVE Before(k, n, order)
  <2>1. CreatedAt[k] \in Nat /\ order[k] \in Nat
    BY OrderType
  <2> QED
    BY <1>2, <1>4, <2>1 DEF Before
<1> QED
  BY <1>2, <1>3, <1>4 DEF Before

\* Not every row is ahead of a row of the list.
LEMMA PlaceBound ==
  ASSUME TypeOK, NEW n \in visible, NEW order \in TieBreaks
  PROVE  Place(n, order) < Cardinality(visible)
<1>1. IsFiniteSet(visible) /\ Cardinality(visible) \in Nat
  BY VisibleIsFinite
<1>2. IsFiniteSet(visible \ {n}) /\ Cardinality(visible \ {n}) = Cardinality(visible) - 1
  BY <1>1, FS_RemoveElement
<1>3. Ahead(n, order) \subseteq visible \ {n}
  BY BeforeIsTotal DEF Ahead
<1>4. Cardinality(Ahead(n, order)) <= Cardinality(visible \ {n})
  BY <1>2, <1>3, FS_Subset
<1> QED
  BY <1>1, <1>2, <1>4, PlaceType DEF Place

\* What is ahead has the smaller place.
LEMMA PlaceFalls ==
  ASSUME TypeOK, NEW m \in visible, NEW n \in visible, NEW order \in TieBreaks, Before(n, m, order)
  PROVE  Place(n, order) < Place(m, order)
<1>1. /\ IsFiniteSet(Ahead(n, order)) /\ Place(n, order) \in Nat
      /\ IsFiniteSet(Ahead(m, order)) /\ Place(m, order) \in Nat
  BY PlaceType
<1>2. n \notin Ahead(n, order)
  BY BeforeIsTotal DEF Ahead
<1>3. Cardinality(Ahead(n, order) \cup {n}) = Cardinality(Ahead(n, order)) + 1
  BY <1>1, <1>2, FS_AddElement
<1>4. Ahead(n, order) \cup {n} \subseteq Ahead(m, order)
  BY BeforeIsTotal DEF Ahead
<1>5. Cardinality(Ahead(n, order) \cup {n}) <= Cardinality(Ahead(m, order))
  BY <1>1, <1>4, FS_Subset
<1> QED
  BY <1>1, <1>3, <1>5 DEF Place

\* So no two rows have the same place, and every place below their number is taken.
LEMMA PlaceIsInjective ==
  ASSUME TypeOK, NEW m \in visible, NEW n \in visible, NEW order \in TieBreaks,
         Place(m, order) = Place(n, order)
  PROVE  m = n
<1>1. Place(m, order) \in Nat /\ Place(n, order) \in Nat
  BY PlaceType
<1> QED
  BY <1>1, PlaceFalls, BeforeIsTotal

LEMMA PlacesUpTo ==
  ASSUME NEW n \in Nat
  PROVE  IsFiniteSet(0 .. n - 1) /\ Cardinality(0 .. n - 1) = n
<1>1. n - 1 \in Int /\ 0 \in Int
  OBVIOUS
<1>2. IsFiniteSet(0 .. n - 1) /\ Cardinality(0 .. n - 1) = IF 0 > n - 1 THEN 0 ELSE (n - 1) - 0 + 1
  BY <1>1, FS_Interval
<1> QED
  BY <1>2

LEMMA EveryPlaceIsTaken ==
  ASSUME TypeOK, NEW order \in TieBreaks, NEW k \in 0 .. Cardinality(visible) - 1
  PROVE  \E n \in visible : Place(n, order) = k
<1> DEFINE N == Cardinality(visible)
           Places == 0 .. N - 1
           place == [n \in visible |-> Place(n, order)]
<1>1. N \in Nat /\ IsFiniteSet(visible)
  BY VisibleIsFinite
<1>2. IsFiniteSet(Places) /\ Cardinality(Places) = N
  BY <1>1, PlacesUpTo
<1>3. \A n \in visible : Place(n, order) \in Places
  BY <1>1, PlaceType, PlaceBound
<1>4. place \in Injection(visible, Places)
  <2>1. place \in [visible -> Places]
    BY <1>3
  <2>2. ASSUME NEW m \in visible, NEW n \in visible, place[m] = place[n] PROVE m = n
    BY <2>2, PlaceIsInjective
  <2> HIDE DEF place
  <2> QED
    BY <2>1, <2>2 DEF Injection, IsInjective
<1>5. place \in Surjection(visible, Places)
  BY <1>2, <1>4, FS_Injection
<1> QED
  BY <1>5 DEF Surjection

\* A page that ends within the list is full, whatever order ties come in.
LEMMA FullPage ==
  ASSUME TypeOK, NEW order \in TieBreaks, NEW offset \in Nat, NEW limit \in Nat \ {0},
         offset + limit <= Cardinality(visible)
  PROVE  Cardinality(Slice(offset, limit, order)) = limit
<1> DEFINE Places == offset .. offset + limit - 1
           page == Slice(offset, limit, order)
           place == [n \in page |-> Place(n, order)]
<1>1. Cardinality(visible) \in Nat
  BY VisibleIsFinite
<1>2. IsFiniteSet(Places) /\ Cardinality(Places) = limit
  BY FS_Interval
<1>3. \A n \in page : n \in visible /\ Place(n, order) \in Places
  BY DEF Slice, Place
<1>4. place \in Injection(page, Places)
  <2>1. place \in [page -> Places]
    BY <1>3
  <2>2. ASSUME NEW m \in page, NEW n \in page, place[m] = place[n] PROVE m = n
    BY <1>3, <2>2, PlaceIsInjective
  <2> HIDE DEF place, page
  <2> QED
    BY <2>1, <2>2 DEF Injection, IsInjective
<1>5. place \in Surjection(page, Places)
  <2> SUFFICES ASSUME NEW k \in Places PROVE \E n \in page : Place(n, order) = k
    BY <1>3 DEF Surjection
  <2>1. k \in 0 .. Cardinality(visible) - 1
    BY <1>1
  <2>2. PICK n \in visible : Place(n, order) = k
    BY <2>1, EveryPlaceIsTaken
  <2> QED
    BY <2>2 DEF Slice, Place
<1> QED
  BY <1>2, <1>4, <1>5, FS_Injection

\* A row that is alone stands in every answer where its rank says.
LEMMA LonePlace ==
  ASSUME TypeOK, NEW n \in visible, Alone(n), NEW order \in TieBreaks
  PROVE  Place(n, order) = Rank(n)
<1>1. ASSUME NEW m \in visible PROVE Before(m, n, order) <=> CreatedAt[m] > CreatedAt[n]
  BY BeforeIsTotal DEF Alone, Before
<1>2. Ahead(n, order) = Newer(n)
  BY <1>1 DEF Ahead, Newer
<1> QED
  BY <1>2 DEF Place, Rank

\* Not every row is newer than a row of the list.
LEMMA RankBound ==
  ASSUME TypeOK, NEW n \in visible
  PROVE  Rank(n) < Cardinality(visible)
<1>1. IsFiniteSet(visible) /\ n \in 1 .. MaxRows /\ Cardinality(visible) \in Nat
  BY VisibleIsFinite
<1>2. IsFiniteSet(visible \ {n}) /\ Cardinality(visible \ {n}) = Cardinality(visible) - 1
  BY <1>1, FS_RemoveElement
<1>3. Newer(n) \subseteq visible \ {n}
  BY <1>1, OrderAssumption DEF Newer
<1>4. Cardinality(Newer(n)) <= Cardinality(visible \ {n})
  BY <1>2, <1>3, FS_Subset
<1> QED
  BY <1>1, <1>2, <1>4, RankType DEF Rank

LEMMA RankGrows ==
  ASSUME TypeOK, TypeOK', visible \subseteq visible', NEW n
  PROVE  Rank(n) \in Nat /\ Rank(n)' \in Nat /\ Rank(n) <= Rank(n)'
<1>1. IsFiniteSet(visible')
  <2>1. visible' \subseteq 1 .. MaxRows
    BY DEF TypeOK
  <2>2. IsFiniteSet(1 .. MaxRows)
    BY FS_Interval
  <2> QED
    BY <2>1, <2>2, FS_Subset
<1>2. Newer(n)' \subseteq visible'
  BY DEF Newer
<1>3. IsFiniteSet(Newer(n)')
  BY <1>1, <1>2, FS_Subset
<1>4. Newer(n) \subseteq Newer(n)'
  BY DEF Newer
<1>5. Cardinality(Newer(n)) <= Cardinality(Newer(n)')
  BY <1>3, <1>4, FS_Subset
<1>6. Cardinality(Newer(n)') \in Nat
  BY <1>3, FS_CardinalityType
<1> QED
  BY <1>5, <1>6, RankType DEF Rank

(***************************************************************************)
(* Pages.  Offset(page + 1, limit) is where the page after page starts.    *)
(***************************************************************************)
LEMMA Paging ==
  ASSUME TypeOK, NEW t \in Tabs
  PROVE  /\ PageOf(t) \in Nat \ {0}
         /\ LimitOf(t) \in 1 .. MaxLimit
<1>1. tab[t].ask \in Nat /\ tab[t].wish \in Int
  BY DEF TypeOK, Tab
<1>2. PageOf(t) \in Nat \ {0}
  BY <1>1 DEF PageOf, EffectivePage
<1>3. LimitOf(t) \in 1 .. MaxLimit
  BY <1>1 DEF LimitOf, EffectiveLimit
<1> QED
  BY <1>2, <1>3

LEMMA NextOffset ==
  ASSUME NEW page \in Nat \ {0}, NEW limit \in Nat
  PROVE  /\ Offset(page, limit) \in Nat
         /\ Offset(page + 1, limit) = page * limit
         /\ Offset(page + 1, limit) = Offset(page, limit) + limit
         /\ Offset(page + 1, limit) \in Nat
<1>1. \A a \in Nat, b \in Nat : a * b \in Nat
  OBVIOUS
<1>2. \A a \in Nat, b \in Nat : (a + 1) * b = a * b + b
  OBVIOUS
<1>3. PICK a \in Nat : page = a + 1
  <2>1. page - 1 \in Nat /\ page = (page - 1) + 1
    OBVIOUS
  <2> QED
    BY <2>1
<1>4. page - 1 = a /\ page + 1 - 1 = page
  BY <1>3
<1>5. Offset(page, limit) = a * limit /\ Offset(page + 1, limit) = page * limit
  BY <1>4 DEF Offset
<1> QED
  BY <1>1, <1>2, <1>3, <1>5

\* What a page shows that was not cut off: all rows that are alone and whose ranks
\* are on it, and if it is short the list ends with it.
LEMMA PageIsWhole ==
  ASSUME TypeOK, NEW order \in TieBreaks, NEW page \in Nat \ {0}, NEW limit \in Nat \ {0},
         NEW n \in visible, Alone(n),
         Rank(n) >= Offset(page, limit),
         n \notin Slice(Offset(page, limit), limit, order)
  PROVE  /\ Rank(n) >= Offset(page + 1, limit)
         /\ Cardinality(Slice(Offset(page, limit), limit, order)) = limit
<1> DEFINE offset == Offset(page, limit)
<1>1. offset \in Nat /\ Offset(page + 1, limit) = offset + limit
  BY NextOffset
<1>2. Rank(n) \in Nat /\ Rank(n) = Place(n, order)
  BY RankType, LonePlace
<1>3. Rank(n) \notin offset .. offset + limit - 1
  BY <1>2 DEF Slice, Place
<1> HIDE DEF offset
<1>4. Rank(n) >= offset + limit
  BY <1>1, <1>2, <1>3 DEF offset
<1>5. offset + limit <= Cardinality(visible)
  BY <1>1, <1>2, <1>4, RankBound, VisibleIsFinite
<1> QED
  BY <1>1, <1>4, <1>5, FullPage DEF offset

-----------------------------------------------------------------------------
(***************************************************************************)
(* A tab that does nothing keeps its part of the invariant, whatever rows  *)
(* are added and commit.                                                   *)
(***************************************************************************)
LEMMA SettingsStay ==
  ASSUME NEW t \in Tabs, SettingsOK(t), task' = task, stored' = stored, cookie' = cookie,
         tab'[t] = tab[t]
  PROVE  SettingsOK(t)'
  BY DEF SettingsOK, TokenOK, RefusalOK, UseOK, CopyOK

LEMMA WalkStays ==
  ASSUME NEW t \in Tabs, TypeOK, TypeOK', WalkOK(t), task' = task, visible \subseteq visible',
         tab'[t] = tab[t]
  PROVE  WalkOK(t)'
<1> SUFFICES ASSUME task[t] \in Lists
             PROVE  (ExistedOK(t) /\ AskedOK(t) /\ SeenOK(t) /\ ReadOK(t) /\ TotalOK(t) /\ WalkedOK(t))'
  BY DEF WalkOK
<1>0. ExistedOK(t) /\ AskedOK(t) /\ SeenOK(t) /\ ReadOK(t) /\ TotalOK(t) /\ WalkedOK(t)
  BY DEF WalkOK
<1>1. PageOf(t)' = PageOf(t) /\ LimitOf(t)' = LimitOf(t) /\ Shown(t)' = Shown(t)
  BY DEF PageOf, LimitOf, Shown
<1>2. /\ Offset(PageOf(t), LimitOf(t)) \in Nat /\ Offset(PageOf(t) + 1, LimitOf(t)) \in Nat
      /\ Offset(PageOf(t), LimitOf(t))' = Offset(PageOf(t), LimitOf(t))
      /\ Offset(PageOf(t) + 1, LimitOf(t))' = Offset(PageOf(t) + 1, LimitOf(t))
  <2>1. PageOf(t) \in Nat \ {0} /\ LimitOf(t) \in Nat
    BY Paging
  <2> QED
    BY <1>1, <2>1, NextOffset DEF Offset
<1>3. ASSUME NEW n \in Nat, NEW k \in Nat, Rank(n)' < k PROVE Rank(n) < k
  <2>1. Rank(n) \in Nat /\ Rank(n)' \in Nat /\ Rank(n) <= Rank(n)'
    BY RankGrows
  <2> QED
    BY <1>3, <2>1
<1>4. Lone(t) \subseteq Nat /\ Lone(t)' \subseteq Lone(t)
  <2>1. tab[t].existed \subseteq 1 .. MaxRows
    BY DEF TypeOK, Tab
  <2>2. \A n : Alone(n)' => Alone(n)
    BY DEF Alone
  <2> QED
    BY <2>1, <2>2 DEF Lone
<1>5. ExistedOK(t)' /\ AskedOK(t)' /\ WalkedOK(t)'
  BY <1>0, <1>1, <1>4 DEF ExistedOK, AskedOK, WalkedOK
<1>6. SeenOK(t)'
  BY <1>0, <1>1, <1>2, <1>3, <1>4 DEF SeenOK
<1>7. ReadOK(t)'
  BY <1>0, <1>1, <1>2, <1>3, <1>4 DEF ReadOK, HasRead, WholeSoFar
<1>8. TotalOK(t)'
  BY <1>0, <1>1, <1>2, <1>4 DEF TotalOK, WholeSoFar
<1> QED
  BY <1>5, <1>6, <1>7, <1>8

\* Whether its token is outdated, or its copy stale, is nothing to a walk.
WalkFieldsSame(t) ==
  /\ tab'[t].pc = tab[t].pc /\ tab'[t].ask = tab[t].ask /\ tab'[t].wish = tab[t].wish
  /\ tab'[t].page = tab[t].page /\ tab'[t].limit = tab[t].limit /\ tab'[t].total = tab[t].total
  /\ tab'[t].rows = tab[t].rows /\ tab'[t].cut = tab[t].cut /\ tab'[t].until = tab[t].until
  /\ tab'[t].existed = tab[t].existed /\ tab'[t].seen = tab[t].seen
  /\ tab'[t].torn = tab[t].torn /\ tab'[t].overtaken = tab[t].overtaken

LEMMA Apart ==
  ASSUME NEW t \in Tabs, WalkOK(t), task' = task, visible' = visible, WalkFieldsSame(t)
  PROVE  WalkOK(t)'
<1>1. (\A n : Rank(n)' = Rank(n)) /\ Lone(t)' = Lone(t)
  BY DEF Rank, Newer, Lone, Alone, WalkFieldsSame
<1>2. (PageOf(t)' = PageOf(t)) /\ (LimitOf(t)' = LimitOf(t)) /\ (Shown(t)' = Shown(t))
  BY DEF PageOf, LimitOf, Shown, WalkFieldsSame
<1> QED
  BY <1>1, <1>2 DEF WalkFieldsSame, WalkOK, ExistedOK, AskedOK, SeenOK, ReadOK, HasRead, TotalOK, WalkedOK,
     WholeSoFar, Offset

LEMMA Outdated ==
  ASSUME NEW t \in Tabs, TypeOK, WalkOK(t), task' = task, visible' = visible,
         tab'[t] = [tab[t] EXCEPT !.outdated = TRUE]
  PROVE  WalkOK(t)'
<1>1. tab[t] \in Tab
  BY DEF TypeOK
<1>2. WalkFieldsSame(t)
  BY <1>1 DEF Tab, WalkFieldsSame
<1> QED
  BY <1>2, Apart

LEMMA Stale ==
  ASSUME NEW t \in Tabs, TypeOK, WalkOK(t), task' = task, visible' = visible,
         tab'[t] = [tab[t] EXCEPT !.stale = TRUE]
  PROVE  WalkOK(t)'
<1>1. tab[t] \in Tab
  BY DEF TypeOK
<1>2. WalkFieldsSame(t)
  BY <1>1 DEF Tab, WalkFieldsSame
<1> QED
  BY <1>2, Apart

\* A step that changes one tab and nothing that tabs share
LEMMA TypeOfStep ==
  ASSUME PInv, NEW t \in Tabs, NEW q \in Tab, Becomes(t, q),
         UNCHANGED <<task, stored, cookie, table>>
  PROVE  TypeOK' /\ tab'[t] = q /\ \A p \in Tabs \ {t} : tab'[p] = tab[p]
  BY DEF PInv, TypeOK, Becomes, table

LEMMA SettingsStep ==
  ASSUME PInv, NEW t \in Tabs, NEW q \in Tab, Becomes(t, q),
         UNCHANGED <<task, stored, cookie, table>>, task[t] = "settings", SettingsOK(t)'
  PROVE  PInv'
<1>1. TypeOK /\ TypeOK' /\ \A p \in Tabs \ {t} : tab'[p] = tab[p]
  BY TypeOfStep DEF PInv
<1>2. ASSUME NEW p \in Tabs PROVE SettingsOK(p)'
  BY <1>1, SettingsStay DEF PInv
<1>3. ASSUME NEW p \in Tabs PROVE WalkOK(p)'
  <2>1. CASE p = t
    BY <2>1 DEF WalkOK, Lists
  <2>2. CASE p # t
    BY <1>1, <2>2, WalkStays DEF PInv, table
  <2> QED
    BY <2>1, <2>2
<1> QED
  BY <1>1, <1>2, <1>3 DEF PInv

LEMMA WalkStep ==
  ASSUME PInv, NEW t \in Tabs, NEW q \in Tab, Becomes(t, q),
         UNCHANGED <<task, stored, cookie, table>>, task[t] \in Lists,
         q.csrf = NoCsrf \/ (q.csrf = tab[t].csrf /\ q.outdated = tab[t].outdated),
         q.pc # "refused", WalkOK(t)'
  PROVE  PInv'
<1>1. TypeOK /\ TypeOK' /\ tab'[t] = q /\ \A p \in Tabs \ {t} : tab'[p] = tab[p]
  BY TypeOfStep DEF PInv
<1>2. SettingsOK(t)'
  BY <1>1 DEF PInv, SettingsOK, TokenOK, RefusalOK, UseOK, CopyOK, Lists
<1>3. ASSUME NEW p \in Tabs PROVE SettingsOK(p)'
  BY <1>1, <1>2, SettingsStay DEF PInv
<1>4. ASSUME NEW p \in Tabs PROVE WalkOK(p)'
  BY <1>1, WalkStays DEF PInv, table
<1> QED
  BY <1>1, <1>3, <1>4 DEF PInv

-----------------------------------------------------------------------------
(***************************************************************************)
(* Every step preserves the invariant: the settings.                       *)
(***************************************************************************)
LEMMA InitPInv == Init => PInv
<1> SUFFICES ASSUME Init PROVE PInv
  OBVIOUS
<1>1. /\ Idle \in Tab
      /\ Idle.pc = "idle" /\ Idle.csrf = NoCsrf /\ Idle.existed = {}
  BY DEF Idle, Tab, Settings, Defaults
<1>2. TypeOK /\ \A t \in Tabs : tab[t] = Idle
  BY <1>1 DEF Init, TypeOK
<1>3. ASSUME NEW t \in Tabs PROVE SettingsOK(t) /\ WalkOK(t)
  BY <1>1, <1>2 DEF SettingsOK, TokenOK, RefusalOK, UseOK, CopyOK, HoldsCopy, WalkOK, ExistedOK, AskedOK, SeenOK,
     ReadOK, HasRead, TotalOK, WalkedOK, HasAsked, Walking
<1> QED
  BY <1>2, <1>3 DEF PInv

LEMMA PcOrNot ==
  ASSUME NEW q \in Tab
  PROVE  [q EXCEPT !.pc = IF @ = "refused" THEN "edited" ELSE @] \in Tab
<1>1. [q EXCEPT !.pc = "edited"] \in Tab
  BY DEF Tab
<1>2. [q EXCEPT !.pc = q.pc] = q
  BY Zenon DEF Tab
<1> QED
  BY <1>1, <1>2

LEMMA FetchTokenPInv == ASSUME PInv, NEW t \in Tabs, FetchToken(t) PROVE PInv'
<1>0. TypeOK /\ tab[t] \in Tab /\ task[t] = "settings"
  BY DEF PInv, TypeOK, FetchToken
<1>1. ASSUME NEW c \in FreshCsrfs, cookie' = c,
             tab' = [p \in Tabs |->
               IF p = t THEN [tab[t] EXCEPT !.csrf = c, !.outdated = FALSE,
                                !.pc = IF @ = "refused" THEN "edited" ELSE @]
               ELSE [tab[p] EXCEPT !.outdated = TRUE]]
      PROVE  PInv'
  <2>0. UNCHANGED <<task, stored, table>> /\ c \in Csrfs /\ c # NoCsrf
    BY <1>1 DEF FetchToken, FreshCsrfs
  <2>1. /\ tab'[t] = [tab[t] EXCEPT !.csrf = c, !.outdated = FALSE,
                                    !.pc = IF @ = "refused" THEN "edited" ELSE @]
        /\ \A p \in Tabs \ {t} : tab'[p] = [tab[p] EXCEPT !.outdated = TRUE]
        /\ DOMAIN tab' = Tabs
    BY <1>1
  <2>2. tab'[t] \in Tab
    <3> DEFINE q == [tab[t] EXCEPT !.csrf = c, !.outdated = FALSE]
    <3>1. q \in Tab
      BY <1>0, <2>0 DEF Tab
    <3>2. tab'[t] = [q EXCEPT !.pc = IF @ = "refused" THEN "edited" ELSE @]
      <4>1. q.pc = tab[t].pc
        BY <1>0 DEF Tab
      <4> QED
        BY <2>1, <4>1
    <3> HIDE DEF q
    <3> QED
      BY <3>1, <3>2, PcOrNot
  <2>3. ASSUME NEW p \in Tabs \ {t} PROVE tab'[p] \in Tab
    <3>1. tab[p] \in Tab
      BY <1>0 DEF TypeOK
    <3>2. [tab[p] EXCEPT !.outdated = TRUE] \in Tab
      BY <3>1 DEF Tab
    <3> QED
      BY <2>1, <3>2
  <2>4. TypeOK'
    BY <1>0, <1>1, <2>0, <2>1, <2>2, <2>3 DEF TypeOK, table
  <2>5. SettingsOK(t)' /\ WalkOK(t)'
    <3>1. /\ tab'[t].csrf = c /\ tab'[t].pc = IF tab[t].pc = "refused" THEN "edited" ELSE tab[t].pc
          /\ tab'[t].draft = tab[t].draft /\ tab'[t].touched = tab[t].touched
          /\ tab'[t].stale = tab[t].stale /\ tab'[t].false = tab[t].false
      BY <1>0, <2>1 DEF Tab
    <3>2. TokenOK(t)' /\ RefusalOK(t)' /\ UseOK(t)'
      BY <1>0, <1>1, <2>0, <3>1 DEF TokenOK, RefusalOK, UseOK, PInv, SettingsOK
    <3>3. CopyOK(t)'
      BY <2>0, <3>1 DEF PInv, SettingsOK, CopyOK, HoldsCopy
    <3> QED
      BY <1>0, <2>0, <3>2, <3>3 DEF SettingsOK, WalkOK, Lists
  <2>6. ASSUME NEW p \in Tabs \ {t} PROVE SettingsOK(p)' /\ WalkOK(p)'
    <3> DEFINE q == tab[p]
    <3>1. q \in Tab /\ tab'[p] = [q EXCEPT !.outdated = TRUE]
      BY <1>0, <2>1 DEF TypeOK
    <3>2. /\ tab'[p].outdated = TRUE /\ tab'[p].pc = q.pc /\ tab'[p].draft = q.draft
          /\ tab'[p].touched = q.touched /\ tab'[p].stale = q.stale /\ tab'[p].false = q.false
      BY <3>1 DEF Tab
    <3>3. SettingsOK(p)'
      BY <2>0, <3>2 DEF PInv, SettingsOK, TokenOK, RefusalOK, UseOK, CopyOK
    <3>4. WalkOK(p)'
      BY <1>0, <2>0, <2>4, <3>1, Outdated DEF PInv, table
    <3> QED
      BY <3>3, <3>4
  <2> QED
    BY <2>4, <2>5, <2>6 DEF PInv
<1>2. ASSUME Becomes(t, [tab[t] EXCEPT !.csrf = NoCsrf]), UNCHANGED cookie PROVE PInv'
  <2> DEFINE q == [tab[t] EXCEPT !.csrf = NoCsrf]
  <2>0. UNCHANGED <<task, stored, cookie, table>>
    BY <1>2 DEF FetchToken
  <2>1. /\ q \in Tab /\ q.csrf = NoCsrf
        /\ q.pc = tab[t].pc /\ q.draft = tab[t].draft /\ q.touched = tab[t].touched
        /\ q.stale = tab[t].stale /\ q.false = tab[t].false
    BY <1>0 DEF Tab
  <2> HIDE DEF q
  <2>2. tab'[t] = q
    BY <1>2, <2>0, <2>1, TypeOfStep DEF q
  <2>3. SettingsOK(t)'
    BY <2>0, <2>1, <2>2 DEF PInv, SettingsOK, TokenOK, RefusalOK, UseOK, CopyOK
  <2>4. Becomes(t, q)
    BY <1>2 DEF q
  <2> QED
    BY <1>0, <2>0, <2>1, <2>3, <2>4, SettingsStep
<1> QED
  BY <1>1, <1>2 DEF FetchToken

LEMMA CookieExpiresPInv == ASSUME PInv, CookieExpires PROVE PInv'
<1>0. TypeOK /\ UNCHANGED <<task, stored, table>> /\ cookie' = NoCsrf
  BY DEF PInv, CookieExpires
<1>1. ASSUME NEW p \in Tabs PROVE tab[p] \in Tab /\ tab'[p] = [tab[p] EXCEPT !.outdated = TRUE] /\ tab'[p] \in Tab
  <2>1. tab[p] \in Tab /\ tab'[p] = [tab[p] EXCEPT !.outdated = TRUE]
    BY <1>0 DEF TypeOK, CookieExpires
  <2>2. [tab[p] EXCEPT !.outdated = TRUE] \in Tab
    BY <2>1 DEF Tab
  <2> QED
    BY <2>1, <2>2
<1>2. TypeOK'
  <2>1. DOMAIN tab' = Tabs /\ tab' = [p \in Tabs |-> tab'[p]]
    BY DEF CookieExpires
  <2> QED
    BY <1>0, <1>1, <2>1 DEF TypeOK, table
<1>3. ASSUME NEW p \in Tabs PROVE SettingsOK(p)' /\ WalkOK(p)'
  <2>0. tab[p] \in Tab /\ tab'[p] = [tab[p] EXCEPT !.outdated = TRUE]
    BY <1>1
  <2>1. /\ tab'[p].outdated = TRUE /\ tab'[p].pc = tab[p].pc /\ tab'[p].draft = tab[p].draft
        /\ tab'[p].touched = tab[p].touched /\ tab'[p].stale = tab[p].stale /\ tab'[p].false = tab[p].false
    BY <2>0 DEF Tab
  <2>2. SettingsOK(p)'
    BY <1>0, <2>1 DEF PInv, SettingsOK, TokenOK, RefusalOK, UseOK, CopyOK
  <2>3. WalkOK(p)'
    BY <1>0, <1>1, Outdated DEF PInv, table
  <2> QED
    BY <2>2, <2>3
<1> QED
  BY <1>2, <1>3 DEF PInv

LEMMA LoadPInv == ASSUME PInv, NEW t \in Tabs, Load(t) PROVE PInv'
<1>0. /\ TypeOK /\ tab[t] \in Tab /\ task[t] = "settings" /\ tab[t].pc = "idle"
      /\ UNCHANGED <<task, stored, cookie, table>>
  BY DEF PInv, TypeOK, Load, At
<1>1. PICK failed \in BOOLEAN :
        Becomes(t, [tab[t] EXCEPT !.pc = "loaded", !.draft = IF failed THEN Defaults ELSE Loaded(stored),
                                  !.touched = {}, !.stale = FALSE, !.false = failed])
  BY DEF Load
<1> DEFINE draft == IF failed THEN Defaults ELSE Loaded(stored)
           q == [tab[t] EXCEPT !.pc = "loaded", !.draft = draft, !.touched = {}, !.stale = FALSE,
                               !.false = failed]
<1>2. draft \in Settings /\ (~failed => draft = Loaded(stored))
  BY <1>0 DEF TypeOK, Loaded, Defaults, Settings
<1>3. Becomes(t, q)
  BY <1>1
<1> HIDE DEF draft
<1>4. /\ q \in Tab /\ q.pc = "loaded" /\ q.csrf = tab[t].csrf /\ q.outdated = tab[t].outdated
      /\ q.draft = draft /\ q.false = failed
  BY <1>0, <1>2 DEF Tab
<1> HIDE DEF q
<1>5. tab'[t] = q
  BY <1>0, <1>3, <1>4, TypeOfStep
<1>6. SettingsOK(t)'
  BY <1>0, <1>2, <1>4, <1>5 DEF PInv, SettingsOK, TokenOK, RefusalOK, UseOK, CopyOK
<1> QED
  BY <1>0, <1>3, <1>4, <1>6, SettingsStep

LEMMA EditPInv == ASSUME PInv, NEW t \in Tabs, Edit(t) PROVE PInv'
<1>0. /\ TypeOK /\ tab[t] \in Tab /\ task[t] = "settings" /\ tab[t].pc \in {"loaded", "edited", "saved"}
      /\ UNCHANGED <<task, stored, cookie, table>>
  BY DEF PInv, TypeOK, Edit
<1>1. PICK f \in Fields :
        Becomes(t, [tab[t] EXCEPT !.pc = "edited", !.draft = [@ EXCEPT ![f] = ~@], !.touched = @ \cup {f}])
  BY DEF Edit
<1> DEFINE q == [tab[t] EXCEPT !.pc = "edited", !.draft = [@ EXCEPT ![f] = ~@], !.touched = @ \cup {f}]
<1>2. q \in Tab
  BY <1>0 DEF Tab, Settings
<1>3. q.pc = "edited" /\ q.touched = tab[t].touched \cup {f} /\ q.false = tab[t].false /\ q.stale = tab[t].stale
  BY <1>0 DEF Tab
<1>4. q.csrf = tab[t].csrf /\ q.outdated = tab[t].outdated
  BY <1>0 DEF Tab
<1>5. \A g \in Fields : g # f => q.draft[g] = tab[t].draft[g]
  BY <1>0 DEF Tab, Settings
<1>6. Becomes(t, q)
  BY <1>1
<1> HIDE DEF q
<1>7. tab'[t] = q
  BY <1>0, <1>2, <1>6, TypeOfStep
<1>8. SettingsOK(t)'
  BY <1>0, <1>3, <1>4, <1>5, <1>7 DEF PInv, SettingsOK, TokenOK, RefusalOK, UseOK, CopyOK, HoldsCopy
<1> QED
  BY <1>0, <1>2, <1>6, <1>8, SettingsStep

\* A step that only moves the program counter of a tab with settings
LEMMA SettingsGoto ==
  ASSUME PInv, NEW t \in Tabs, task[t] = "settings", NEW pc \in {"idle", "edited", "upsert", "refused"},
         pc # "idle" => tab[t].pc \in HoldsCopy,
         pc = "refused" => tab[t].csrf = NoCsrf \/ tab[t].outdated,
         Goto(t, pc), UNCHANGED <<task, stored, cookie, table>>
  PROVE  PInv'
<1> DEFINE q == [tab[t] EXCEPT !.pc = pc]
<1>1. tab[t] \in Tab
  BY DEF PInv, TypeOK
<1>2. /\ q \in Tab /\ q.pc = pc /\ q.csrf = tab[t].csrf /\ q.outdated = tab[t].outdated
      /\ q.draft = tab[t].draft /\ q.touched = tab[t].touched /\ q.false = tab[t].false /\ q.stale = tab[t].stale
  BY <1>1 DEF Tab
<1>3. Becomes(t, q)
  BY DEF Goto
<1> HIDE DEF q
<1>4. tab'[t] = q
  BY <1>2, <1>3, TypeOfStep
<1>5. SettingsOK(t)'
  BY <1>2, <1>4 DEF PInv, SettingsOK, TokenOK, RefusalOK, UseOK, CopyOK, HoldsCopy
<1> QED
  BY <1>2, <1>3, <1>5, SettingsStep

LEMMA SavePInv == ASSUME PInv, NEW t \in Tabs, Save(t) PROVE PInv'
<1>0. /\ task[t] = "settings" /\ tab[t].pc = "edited" /\ cookie' = cookie
      /\ UNCHANGED <<task, stored, table>>
  BY DEF PInv, Save, At, CookieAfterUse
<1>1. CASE Verified(t)
  <2>1. Goto(t, "upsert")
    BY <1>1 DEF Save
  <2> QED
    BY <1>0, <2>1, SettingsGoto DEF HoldsCopy
<1>2. CASE ~Verified(t)
  <2>1. Goto(t, "refused")
    BY <1>2 DEF Save
  <2>2. tab[t].csrf = NoCsrf \/ tab[t].outdated
    BY <1>2 DEF PInv, SettingsOK, TokenOK, Verified
  <2> QED
    BY <1>0, <2>1, <2>2, SettingsGoto DEF HoldsCopy
<1> QED
  BY <1>1, <1>2

LEMMA UpsertPInv == ASSUME PInv, NEW t \in Tabs, Upsert(t) PROVE PInv'
<1>0. /\ TypeOK /\ tab[t] \in Tab /\ task[t] = "settings" /\ tab[t].pc = "upsert"
      /\ UNCHANGED <<task, cookie, table>>
  BY DEF PInv, TypeOK, Upsert, At
<1>1. ASSUME NEW q \in {[tab[t] EXCEPT !.pc = "saved", !.touched = {}, !.stale = FALSE, !.false = FALSE]}
                         \cup {[tab[t] EXCEPT !.pc = "edited"] : f \in Faults \cap {"unsure"}},
             stored' = tab[t].draft,
             tab' = [p \in Tabs |-> IF p = t THEN q ELSE [tab[p] EXCEPT !.stale = TRUE]]
      PROVE  PInv'
  <2>1. \/ q = [tab[t] EXCEPT !.pc = "saved", !.touched = {}, !.stale = FALSE, !.false = FALSE]
        \/ q = [tab[t] EXCEPT !.pc = "edited"]
    OBVIOUS
  <2>2. /\ q \in Tab /\ q.pc \in {"saved", "edited"} /\ q.draft = tab[t].draft
        /\ q.csrf = tab[t].csrf /\ q.outdated = tab[t].outdated
    <3>1. CASE q = [tab[t] EXCEPT !.pc = "saved", !.touched = {}, !.stale = FALSE, !.false = FALSE]
      BY <1>0, <3>1 DEF Tab
    <3>2. CASE q = [tab[t] EXCEPT !.pc = "edited"]
      BY <1>0, <3>2 DEF Tab
    <3> QED
      BY <2>1, <3>1, <3>2
  <2>3. tab'[t] = q
    BY <1>1
  <2>4. ASSUME NEW p \in Tabs \ {t}
        PROVE  tab[p] \in Tab /\ tab'[p] = [tab[p] EXCEPT !.stale = TRUE] /\ tab'[p] \in Tab
    <3>1. tab[p] \in Tab /\ tab'[p] = [tab[p] EXCEPT !.stale = TRUE]
      BY <1>0, <1>1 DEF TypeOK
    <3>2. [tab[p] EXCEPT !.stale = TRUE] \in Tab
      BY <3>1 DEF Tab
    <3> QED
      BY <3>1, <3>2
  <2>5. stored' \in Settings
    BY <1>0, <1>1 DEF Tab
  <2>6. TypeOK'
    <3>1. \A p \in Tabs : tab'[p] \in Tab
      BY <2>2, <2>3, <2>4
    <3>2. tab' = [p \in Tabs |-> tab'[p]]
      BY <1>1
    <3> QED
      BY <1>0, <2>5, <3>1, <3>2 DEF TypeOK, table
  <2>7. SettingsOK(t)' /\ WalkOK(t)'
    <3>1. Loaded(stored)' = tab[t].draft
      BY <1>1, <2>5 DEF Loaded, Settings
    <3>2. TokenOK(t)' /\ RefusalOK(t)' /\ UseOK(t)'
      BY <1>0, <2>2, <2>3 DEF PInv, SettingsOK, TokenOK, RefusalOK, UseOK
    <3>3. CopyOK(t)'
      BY <2>2, <2>3, <3>1 DEF CopyOK
    <3> QED
      BY <1>0, <3>2, <3>3 DEF SettingsOK, WalkOK, Lists
  <2>8. ASSUME NEW p \in Tabs \ {t} PROVE SettingsOK(p)' /\ WalkOK(p)'
    <3>0. tab[p] \in Tab /\ tab'[p] = [tab[p] EXCEPT !.stale = TRUE]
      BY <2>4
    <3>1. /\ tab'[p].stale = TRUE /\ tab'[p].pc = tab[p].pc /\ tab'[p].csrf = tab[p].csrf
          /\ tab'[p].outdated = tab[p].outdated
      BY <3>0 DEF Tab
    <3>2. SettingsOK(p)'
      BY <1>0, <3>1 DEF PInv, SettingsOK, TokenOK, RefusalOK, UseOK, CopyOK
    <3>3. WalkOK(p)'
      BY <1>0, <2>4, Stale DEF PInv, table
    <3> QED
      BY <3>2, <3>3
  <2> QED
    BY <2>6, <2>7, <2>8 DEF PInv
<1>2. ASSUME Goto(t, "edited"), UNCHANGED stored PROVE PInv'
  BY <1>0, <1>2, SettingsGoto DEF HoldsCopy
<1> QED
  BY <1>1, <1>2 DEF Upsert

LEMMA LeavePInv == ASSUME PInv, NEW t \in Tabs, Leave(t) PROVE PInv'
  BY SettingsGoto DEF Leave

-----------------------------------------------------------------------------
(***************************************************************************)
(* Every step preserves the invariant: the walks.                          *)
(***************************************************************************)
LEMMA WalkParts ==
  ASSUME PInv, NEW t \in Tabs, task[t] \in Lists
  PROVE  /\ TypeOK /\ tab[t] \in Tab
         /\ ExistedOK(t) /\ AskedOK(t) /\ SeenOK(t) /\ ReadOK(t) /\ TotalOK(t) /\ WalkedOK(t)
  BY DEF PInv, TypeOK, WalkOK

\* A step that leaves the table as it is leaves the ranks as they are.
LEMMA RanksStay ==
  ASSUME visible' = visible
  PROVE  /\ \A n : Rank(n)' = Rank(n)
         /\ \A t \in Tabs : tab'[t].existed = tab[t].existed => Lone(t)' = Lone(t)
  BY DEF Rank, Newer, Lone, Alone

LEMMA WalkGoto ==
  ASSUME PInv, NEW t \in Tabs, task[t] \in Lists, NEW pc \in {"ask", "error"}, tab[t].pc \in Walking,
         Goto(t, pc), UNCHANGED <<task, stored, cookie, table>>
  PROVE  PInv'
<1> DEFINE q == [tab[t] EXCEPT !.pc = pc]
<1>0. /\ TypeOK /\ tab[t] \in Tab
      /\ ExistedOK(t) /\ AskedOK(t) /\ SeenOK(t) /\ ReadOK(t) /\ TotalOK(t) /\ WalkedOK(t)
  BY WalkParts
<1>1. /\ q \in Tab /\ q.pc = pc /\ q.csrf = tab[t].csrf /\ q.outdated = tab[t].outdated
      /\ q.ask = tab[t].ask /\ q.wish = tab[t].wish /\ q.existed = tab[t].existed /\ q.seen = tab[t].seen
      /\ q.torn = tab[t].torn
  BY <1>0 DEF Tab
<1>2. Becomes(t, q)
  BY DEF Goto
<1> HIDE DEF q
<1>3. tab'[t] = q
  BY <1>1, <1>2, TypeOfStep
<1>4. (\A n : Rank(n)' = Rank(n)) /\ Lone(t)' = Lone(t)
  BY <1>1, <1>3, RanksStay DEF table
<1>5. PageOf(t)' = PageOf(t) /\ LimitOf(t)' = LimitOf(t)
  BY <1>1, <1>3 DEF PageOf, LimitOf
<1>6. SeenOK(t)' /\ ExistedOK(t)'
  BY <1>0, <1>1, <1>3, <1>4, <1>5 DEF SeenOK, ExistedOK, Offset, table
<1>7. WalkOK(t)'
  BY <1>1, <1>3, <1>6 DEF WalkOK, AskedOK, ReadOK, TotalOK, WalkedOK, HasAsked, HasRead
<1> QED
  BY <1>1, <1>2, <1>7, WalkStep

LEMMA RetryPInv == ASSUME PInv, NEW t \in Tabs, Retry(t) PROVE PInv'
  BY WalkGoto DEF Retry, Walking

LEMMA WalkAgainPInv == ASSUME PInv, NEW t \in Tabs, WalkAgain(t) PROVE PInv'
<1>0. task[t] \in Lists /\ Becomes(t, Idle) /\ UNCHANGED <<task, stored, cookie, table>>
  BY DEF WalkAgain, At
<1>1. /\ Idle \in Tab
      /\ Idle.pc = "idle" /\ Idle.csrf = NoCsrf /\ Idle.existed = {}
  BY DEF Idle, Tab, Settings, Defaults
<1>2. tab'[t] = Idle
  BY <1>0, <1>1, TypeOfStep
<1>3. WalkOK(t)'
  BY <1>1, <1>2 DEF WalkOK, ExistedOK, AskedOK, SeenOK, ReadOK, HasRead, TotalOK, WalkedOK, HasAsked, Walking
<1> QED
  BY <1>0, <1>1, <1>3, WalkStep

\* Before the first page there is nothing that must have been seen.
LEMMA WalkStartPInv == ASSUME PInv, NEW t \in Tabs, WalkStart(t) PROVE PInv'
<1>0. TypeOK /\ task[t] \in Lists /\ UNCHANGED <<task, stored, cookie, table>>
  BY DEF WalkStart, At, PInv
<1>1. PICK p \in {0, 1}, n \in AskedLimits, until \in {"short", "total"} :
        Becomes(t, [Idle EXCEPT !.pc = "ask", !.ask = p, !.wish = n, !.until = until, !.existed = visible])
  BY DEF WalkStart
<1> DEFINE q == [Idle EXCEPT !.pc = "ask", !.ask = p, !.wish = n, !.until = until, !.existed = visible]
<1>2. /\ Idle \in Tab /\ Idle.csrf = NoCsrf
      /\ visible \in SUBSET (1 .. MaxRows) /\ n \in Int /\ p \in Nat /\ until \in {"short", "total"}
  <2>1. Idle \in Tab /\ Idle.csrf = NoCsrf
    BY DEF Idle, Tab, Settings, Defaults
  <2>2. visible \in SUBSET (1 .. MaxRows)
    BY <1>0, VisibleIsFinite
  <2> QED
    BY <2>1, <2>2
<1>3. q \in Tab /\ q.pc = "ask" /\ q.ask = p /\ q.wish = n /\ q.existed = visible /\ q.csrf = NoCsrf
  <2>1. q \in Tab
    BY <1>2 DEF Tab
  <2>2. q.pc = "ask" /\ q.ask = p /\ q.wish = n /\ q.existed = visible /\ q.csrf = NoCsrf
    BY <1>2 DEF Tab
  <2> QED
    BY <2>1, <2>2
<1>4. Becomes(t, q)
  BY <1>1
<1> HIDE DEF q
<1>5. tab'[t] = q
  BY <1>0, <1>3, <1>4, TypeOfStep
<1>6. PageOf(t)' = 1 /\ LimitOf(t)' \in Nat
  <2>1. PageOf(t)' = EffectivePage(p) /\ LimitOf(t)' = EffectiveLimit(n)
    BY <1>3, <1>5 DEF PageOf, LimitOf
  <2>2. EffectivePage(p) = 1
    BY DEF EffectivePage
  <2>3. EffectiveLimit(n) \in Nat
    BY <1>2 DEF EffectiveLimit
  <2> QED
    BY <2>1, <2>2, <2>3
<1>7. Offset(PageOf(t), LimitOf(t))' = 0
  <2>1. (1 - 1) * LimitOf(t)' = 0
    BY <1>6
  <2> QED
    BY <1>6, <2>1 DEF Offset
<1>8. ASSUME NEW m PROVE Rank(m)' \in Nat
  <2>1. Rank(m)' = Rank(m) /\ Rank(m) \in Nat
    BY <1>0, RankType, RanksStay DEF table
  <2> QED
    BY <2>1
<1>9. SeenOK(t)' /\ ExistedOK(t)'
  BY <1>0, <1>3, <1>5, <1>7, <1>8 DEF SeenOK, ExistedOK, table
<1>10. WalkOK(t)'
  BY <1>3, <1>5, <1>9 DEF WalkOK, AskedOK, ReadOK, TotalOK, WalkedOK, HasAsked, HasRead
<1> QED
  BY <1>0, <1>3, <1>4, <1>10, WalkStep

LEMMA AskPInv == ASSUME PInv, NEW t \in Tabs, Ask(t) PROVE PInv'
<1>0. /\ task[t] \in Lists /\ tab[t].pc = "ask"
      /\ UNCHANGED <<task, stored, cookie, table>>
  BY DEF Ask, At
<1>1. /\ TypeOK /\ tab[t] \in Tab
      /\ ExistedOK(t) /\ AskedOK(t) /\ SeenOK(t) /\ ReadOK(t) /\ TotalOK(t) /\ WalkedOK(t)
  BY <1>0, WalkParts
<1> DEFINE q == [tab[t] EXCEPT !.pc = FirstStatement(task[t]), !.page = EffectivePage(tab[t].ask),
                               !.limit = EffectiveLimit(tab[t].wish)]
<1>2. /\ FirstStatement(task[t]) \in {"count", "rows"}
      /\ FirstStatement(task[t]) = "count" => task[t] = "users"
  BY <1>0 DEF FirstStatement, Lists
<1>3. EffectivePage(tab[t].ask) \in Nat /\ EffectiveLimit(tab[t].wish) \in 0 .. MaxLimit
  BY <1>1, Paging DEF PageOf, LimitOf
<1>4. /\ q \in Tab /\ q.pc = FirstStatement(task[t]) /\ q.csrf = tab[t].csrf /\ q.outdated = tab[t].outdated
      /\ q.page = PageOf(t) /\ q.limit = LimitOf(t)
      /\ q.ask = tab[t].ask /\ q.wish = tab[t].wish /\ q.existed = tab[t].existed /\ q.seen = tab[t].seen
      /\ q.torn = tab[t].torn
  BY <1>1, <1>2, <1>3 DEF Tab, PageOf, LimitOf
<1>5. Becomes(t, q)
  BY DEF Ask
<1> HIDE DEF q
<1>6. tab'[t] = q
  BY <1>0, <1>4, <1>5, TypeOfStep
<1>7. (\A n : Rank(n)' = Rank(n)) /\ Lone(t)' = Lone(t)
  BY <1>0, <1>4, <1>6, RanksStay DEF table
<1>8. PageOf(t)' = PageOf(t) /\ LimitOf(t)' = LimitOf(t)
  BY <1>4, <1>6 DEF PageOf, LimitOf
<1>9. SeenOK(t)' /\ ExistedOK(t)' /\ AskedOK(t)'
  BY <1>0, <1>1, <1>4, <1>6, <1>7, <1>8 DEF SeenOK, ExistedOK, AskedOK, Offset, table, Walking
<1>10. q.pc \in {"count", "rows"} /\ ~HasRead(t)'
  BY <1>0, <1>2, <1>4, <1>6 DEF HasRead
<1>11. WalkOK(t)'
  BY <1>6, <1>9, <1>10 DEF WalkOK, ReadOK, TotalOK, WalkedOK
<1> QED
  BY <1>0, <1>2, <1>4, <1>5, <1>11, WalkStep

\* The rows of a submissions list come first: they are all if it is no longer
\* than the pages so far.
LEMMA CountPInv == ASSUME PInv, NEW t \in Tabs, Count(t) PROVE PInv'
<1>0. /\ task[t] \in Lists /\ tab[t].pc = "count"
      /\ UNCHANGED <<task, stored, cookie, table>>
  BY DEF Count, At
<1>1. /\ TypeOK /\ tab[t] \in Tab
      /\ ExistedOK(t) /\ AskedOK(t) /\ SeenOK(t) /\ ReadOK(t) /\ TotalOK(t) /\ WalkedOK(t)
  BY <1>0, WalkParts
<1>2. ASSUME Becomes(t, [tab[t] EXCEPT !.pc = After(task[t], "count"), !.total = Cardinality(visible)])
      PROVE  PInv'
  <2> DEFINE q == [tab[t] EXCEPT !.pc = After(task[t], "count"), !.total = Cardinality(visible)]
  <2>1. /\ After(task[t], "count") \in {"rows", "answer"}
        /\ After(task[t], "count") = "answer" <=> task[t] = "submissions"
    BY <1>0 DEF After, FirstStatement, Lists
  <2>2. Cardinality(visible) \in 0 .. MaxRows
    BY <1>1, VisibleIsFinite
  <2>3. /\ q \in Tab /\ q.pc = After(task[t], "count") /\ q.csrf = tab[t].csrf /\ q.outdated = tab[t].outdated
        /\ q.page = tab[t].page /\ q.limit = tab[t].limit /\ q.total = Cardinality(visible)
        /\ q.ask = tab[t].ask /\ q.wish = tab[t].wish /\ q.existed = tab[t].existed /\ q.seen = tab[t].seen
        /\ q.torn = tab[t].torn /\ q.cut = tab[t].cut /\ q.rows = tab[t].rows
    BY <1>1, <2>1, <2>2 DEF Tab
  <2>4. Becomes(t, q)
    BY <1>2
  <2> HIDE DEF q
  <2>5. tab'[t] = q
    BY <1>0, <2>3, <2>4, TypeOfStep
  <2>6. (\A n : Rank(n)' = Rank(n)) /\ Lone(t)' = Lone(t)
    BY <1>0, <2>3, <2>5, RanksStay DEF table
  <2>7. PageOf(t)' = PageOf(t) /\ LimitOf(t)' = LimitOf(t) /\ Shown(t)' = Shown(t) /\ (WholeSoFar(t)' <=> WholeSoFar(t))
    BY <2>3, <2>5 DEF PageOf, LimitOf, Shown, WholeSoFar
  <2>8. SeenOK(t)' /\ ExistedOK(t)' /\ AskedOK(t)'
    BY <1>0, <1>1, <2>3, <2>5, <2>6, <2>7 DEF SeenOK, ExistedOK, AskedOK, Offset, table, Walking, HasAsked
  <2>9. HasRead(t)' <=> HasRead(t)
    BY <1>0, <2>1, <2>3, <2>5 DEF HasRead
  <2>10. ReadOK(t)'
    BY <1>1, <2>3, <2>5, <2>6, <2>7, <2>9 DEF ReadOK, Offset
  <2>11. TotalOK(t)'
    <3>0. /\ Lone(t)' = Lone(t) /\ Shown(t)' = Shown(t) /\ (WholeSoFar(t)' <=> WholeSoFar(t))
          /\ Offset(PageOf(t) + 1, LimitOf(t))' = Offset(PageOf(t) + 1, LimitOf(t))
          /\ tab'[t].total = Cardinality(visible)
      BY <2>3, <2>5, <2>6, <2>7 DEF Offset
    <3> SUFFICES ASSUME (tab[t].pc = "answer")', WholeSoFar(t),
                        Cardinality(visible) <= Offset(PageOf(t) + 1, LimitOf(t))
                 PROVE  Lone(t) \subseteq Shown(t)
      BY <3>0 DEF TotalOK
    <3>1. HasRead(t)
      BY <2>5, <2>9 DEF HasRead
    <3>2. Offset(PageOf(t) + 1, LimitOf(t)) \in Nat
      <4>1. PageOf(t) \in Nat \ {0} /\ LimitOf(t) \in Nat
        BY <1>1, Paging
      <4> QED
        BY <4>1, NextOffset
    <3>3. ASSUME NEW n \in Lone(t) PROVE n \in Shown(t)
      <4>1. Rank(n) < Cardinality(visible) /\ Rank(n) \in Nat /\ Cardinality(visible) \in Nat
        BY <1>1, <2>2, RankBound, RankType DEF ExistedOK, Lone
      <4>2. Rank(n) < Offset(PageOf(t) + 1, LimitOf(t))
        BY <3>2, <4>1
      <4> QED
        BY <1>1, <3>1, <4>2 DEF ReadOK
    <3> QED
      BY <3>3
  <2>12. WalkOK(t)'
    BY <2>1, <2>3, <2>5, <2>8, <2>10, <2>11 DEF WalkOK, WalkedOK
  <2> QED
    BY <1>0, <2>1, <2>3, <2>4, <2>12, WalkStep
<1>3. ASSUME Goto(t, "error") PROVE PInv'
  BY <1>0, <1>3, WalkGoto DEF Walking
<1> QED
  BY <1>2, <1>3 DEF Count

\* The page shows every row of its ranks.  If it is short, or the list is no
\* longer than it was counted, and the pages so far add up to the count, nothing
\* comes after it.
LEMMA ReadRowsPInv == ASSUME PInv, NEW t \in Tabs, ReadRows(t) PROVE PInv'
<1> DEFINE found(order) == Slice(Offset(tab[t].page, tab[t].limit), tab[t].limit, order)
           Read(part, order) == [tab[t] EXCEPT
             !.pc = After(task[t], "rows"), !.rows = part, !.cut = part # found(order),
             !.overtaken = task[t] = "users" /\ Cardinality(visible) > tab[t].total]
<1>0. /\ task[t] \in Lists /\ tab[t].pc = "rows"
      /\ UNCHANGED <<task, stored, cookie, table>>
  BY DEF ReadRows, At
<1>1. /\ TypeOK /\ tab[t] \in Tab
      /\ ExistedOK(t) /\ AskedOK(t) /\ SeenOK(t) /\ ReadOK(t) /\ TotalOK(t) /\ WalkedOK(t)
  BY <1>0, WalkParts
<1>2. tab[t].page = PageOf(t) /\ tab[t].limit = LimitOf(t)
  BY <1>0, <1>1 DEF AskedOK, HasAsked
<1>3. PageOf(t) \in Nat \ {0} /\ LimitOf(t) \in Nat \ {0}
  BY <1>1, Paging
<1>4. /\ After(task[t], "rows") \in {"count", "answer"}
      /\ After(task[t], "rows") = "answer" => task[t] = "users"
      /\ After(task[t], "rows") = "count" => task[t] = "submissions"
  BY <1>0 DEF After, FirstStatement, Lists
<1>5. ASSUME NEW order \in TieBreaks, NEW part \in SUBSET found(order), Becomes(t, Read(part, order)) PROVE PInv'
  <2> DEFINE q == Read(part, order)
  <2>1. part \in SUBSET (1 .. MaxRows)
    <3>1. visible \subseteq 1 .. MaxRows
      BY <1>1, VisibleIsFinite
    <3> QED
      BY <3>1 DEF Slice
  <2>2. q \in Tab
    <3> DEFINE cut == part # found(order)
               overtaken == task[t] = "users" /\ Cardinality(visible) > tab[t].total
    <3>1. cut \in BOOLEAN /\ overtaken \in BOOLEAN
      BY Zenon
    <3>2. q = [tab[t] EXCEPT !.pc = After(task[t], "rows"), !.rows = part, !.cut = cut, !.overtaken = overtaken]
      OBVIOUS
    <3> HIDE DEF cut, overtaken
    <3> QED
      BY <1>1, <1>4, <2>1, <3>1, <3>2 DEF Tab
  <2>3. /\ q.pc = After(task[t], "rows") /\ q.csrf = tab[t].csrf /\ q.outdated = tab[t].outdated
        /\ q.page = tab[t].page /\ q.limit = tab[t].limit /\ q.total = tab[t].total
        /\ q.ask = tab[t].ask /\ q.wish = tab[t].wish /\ q.existed = tab[t].existed /\ q.seen = tab[t].seen
        /\ q.torn = tab[t].torn /\ q.rows = part
    BY <1>1 DEF Tab
  <2>4. q.cut <=> part # found(order)
    BY <1>1 DEF Tab
  <2>5. q.overtaken <=> task[t] = "users" /\ Cardinality(visible) > tab[t].total
    BY <1>1 DEF Tab
  <2>6. Becomes(t, q)
    BY <1>5
  <2> HIDE DEF q
  <2>7. tab'[t] = q
    BY <1>0, <2>2, <2>6, TypeOfStep
  <2>8. (\A n : Rank(n)' = Rank(n)) /\ Lone(t)' = Lone(t)
    BY <1>0, <2>3, <2>7, RanksStay DEF table
  <2>9. PageOf(t)' = PageOf(t) /\ LimitOf(t)' = LimitOf(t) /\ Shown(t)' = tab[t].seen \cup part
    BY <2>3, <2>7 DEF PageOf, LimitOf, Shown
  <2>10. SeenOK(t)' /\ ExistedOK(t)' /\ AskedOK(t)'
    BY <1>0, <1>1, <1>2, <2>3, <2>7, <2>8, <2>9 DEF SeenOK, ExistedOK, AskedOK, Offset, table, Walking
  <2>11. ASSUME WholeSoFar(t)', NEW n \in Lone(t), n \notin tab[t].seen \cup part
         PROVE  /\ Rank(n) \in Nat /\ Offset(PageOf(t) + 1, LimitOf(t)) \in Nat
                /\ Rank(n) < Cardinality(visible)
                /\ Rank(n) >= Offset(PageOf(t) + 1, LimitOf(t))
                /\ Cardinality(part) = LimitOf(t)
    <3>1. ~tab[t].torn /\ part = found(order)
      BY <2>3, <2>4, <2>7, <2>11 DEF WholeSoFar
    <3>2. n \in visible /\ Alone(n) /\ Rank(n) \in Nat /\ Rank(n) < Cardinality(visible)
      BY <1>1, RankType, RankBound DEF ExistedOK, Lone
    <3>3. Offset(PageOf(t), LimitOf(t)) \in Nat /\ Offset(PageOf(t) + 1, LimitOf(t)) \in Nat
      BY <1>3, NextOffset
    <3>4. ~ (Rank(n) < Offset(PageOf(t), LimitOf(t)))
      BY <1>0, <1>1, <2>11, <3>1 DEF SeenOK, Walking
    <3>5. Rank(n) >= Offset(PageOf(t), LimitOf(t))
      BY <3>2, <3>3, <3>4
    <3>6. n \notin Slice(Offset(PageOf(t), LimitOf(t)), LimitOf(t), order)
      BY <1>2, <2>11, <3>1
    <3>7. Rank(n) >= Offset(PageOf(t) + 1, LimitOf(t)) /\ Cardinality(Slice(Offset(PageOf(t), LimitOf(t)), LimitOf(t), order)) = LimitOf(t)
      BY <1>1, <1>3, <3>2, <3>5, <3>6, PageIsWhole
    <3> QED
      BY <1>2, <3>1, <3>2, <3>3, <3>7
  <2>12. ReadOK(t)'
    <3> SUFFICES ASSUME WholeSoFar(t)'
                 PROVE  /\ \A n \in Lone(t) :
                             Rank(n) < Offset(PageOf(t) + 1, LimitOf(t)) => n \in tab[t].seen \cup part
                        /\ Cardinality(part) < LimitOf(t) => Lone(t) \subseteq tab[t].seen \cup part
      BY <2>3, <2>7, <2>8, <2>9 DEF ReadOK, Offset
    <3>1. ASSUME NEW n \in Lone(t), Rank(n) < Offset(PageOf(t) + 1, LimitOf(t))
          PROVE  n \in tab[t].seen \cup part
      BY <2>11, <3>1
    <3>2. ASSUME Cardinality(part) < LimitOf(t), NEW n \in Lone(t) PROVE n \in tab[t].seen \cup part
      BY <1>3, <2>11, <3>2
    <3> QED
      BY <3>1, <3>2
  <2>13. TotalOK(t)'
    <3> SUFFICES ASSUME q.pc = "answer", WholeSoFar(t)', ~q.overtaken,
                        tab[t].total <= Offset(PageOf(t) + 1, LimitOf(t)),
                        NEW n \in Lone(t)
                 PROVE  n \in tab[t].seen \cup part
      BY <2>3, <2>7, <2>8, <2>9 DEF TotalOK, Offset
    <3>1. ~ (Cardinality(visible) > tab[t].total)
      BY <1>4, <2>3, <2>5
    <3>2. tab[t].total \in Nat /\ Cardinality(visible) \in Nat
      BY <1>1, VisibleIsFinite DEF Tab
    <3> QED
      BY <2>11, <3>1, <3>2
  <2>14. WalkOK(t)'
    BY <1>4, <2>3, <2>7, <2>10, <2>12, <2>13 DEF WalkOK, WalkedOK
  <2> QED
    BY <1>0, <1>4, <2>2, <2>3, <2>6, <2>14, WalkStep
<1>6. ASSUME NEW order \in TieBreaks, Becomes(t, Read(found(order), order)) PROVE PInv'
  BY <1>5, <1>6
<1>7. ASSUME NEW order \in TieBreaks, NEW n \in found(order),
             Becomes(t, Read({m \in found(order) : Before(m, n, order)}, order))
      PROVE  PInv'
  <2>1. {m \in found(order) : Before(m, n, order)} \in SUBSET found(order)
    OBVIOUS
  <2> HIDE DEF found, Read
  <2> QED
    BY <1>5, <1>7, <2>1
<1>8. CASE Goto(t, "error")
  BY <1>0, <1>8, WalkGoto DEF Walking
<1> QED
  BY <1>6, <1>7, <1>8 DEF ReadRows

\* The client goes on where the page ended, or has been shown everything.
LEMMA ReceivePInv == ASSUME PInv, NEW t \in Tabs, Receive(t) PROVE PInv'
<1> DEFINE last == IF tab[t].until = "total" THEN tab[t].page * tab[t].limit >= tab[t].total
                                             ELSE Cardinality(tab[t].rows) < tab[t].limit
           pc == IF last THEN "walked" ELSE "ask"
           torn == tab[t].torn \/ tab[t].cut
           q == [tab[t] EXCEPT !.pc = pc, !.seen = @ \cup tab[t].rows, !.torn = torn, !.ask = tab[t].page + 1]
<1>0. /\ task[t] \in Lists /\ tab[t].pc = "answer"
      /\ UNCHANGED <<task, stored, cookie, table>>
  BY DEF Receive, At
<1>1. /\ TypeOK /\ tab[t] \in Tab
      /\ ExistedOK(t) /\ AskedOK(t) /\ SeenOK(t) /\ ReadOK(t) /\ TotalOK(t) /\ WalkedOK(t)
  BY <1>0, WalkParts
<1>2. tab[t].page = PageOf(t) /\ tab[t].limit = LimitOf(t)
  BY <1>0, <1>1 DEF AskedOK, HasAsked
<1>3. PageOf(t) \in Nat \ {0} /\ LimitOf(t) \in Nat \ {0}
  BY <1>1, Paging
<1>4. pc \in {"walked", "ask"} /\ (pc = "walked" <=> last) /\ torn \in BOOLEAN
  BY Zenon
<1>5. Becomes(t, q)
  BY DEF Receive, Echo
<1>6. (torn <=> tab[t].torn \/ tab[t].cut)
  OBVIOUS
<1>7. last => IF tab[t].until = "total" THEN tab[t].page * tab[t].limit >= tab[t].total
                                        ELSE Cardinality(tab[t].rows) < tab[t].limit
  OBVIOUS
<1> HIDE DEF last, pc, torn
<1>8. q \in Tab
  <2>1. tab[t].seen \cup tab[t].rows \in SUBSET (1 .. MaxRows) /\ tab[t].page + 1 \in Nat
    BY <1>1 DEF Tab
  <2> QED
    BY <1>1, <1>4, <2>1 DEF Tab
<1>9. /\ q.pc = pc /\ q.csrf = tab[t].csrf /\ q.outdated = tab[t].outdated
      /\ q.seen = Shown(t) /\ q.torn = torn /\ q.ask = tab[t].page + 1 /\ q.wish = tab[t].wish
      /\ q.existed = tab[t].existed /\ q.until = tab[t].until /\ q.overtaken = tab[t].overtaken
  BY <1>1 DEF Tab, Shown
<1> HIDE DEF q
<1>10. tab'[t] = q
  BY <1>0, <1>5, <1>8, TypeOfStep
<1>11. (\A n : Rank(n)' = Rank(n)) /\ Lone(t)' = Lone(t)
  BY <1>0, <1>9, <1>10, RanksStay DEF table
<1>12. PageOf(t)' = PageOf(t) + 1 /\ LimitOf(t)' = LimitOf(t)
  <2>1. EffectivePage(PageOf(t) + 1) = PageOf(t) + 1
    BY <1>3 DEF EffectivePage
  <2>2. q.ask = PageOf(t) + 1
    BY <1>2, <1>9
  <2> QED
    BY <1>9, <1>10, <2>1, <2>2 DEF PageOf, LimitOf
<1>13. HasRead(t) /\ (~torn <=> WholeSoFar(t))
  BY <1>0, <1>6 DEF HasRead, WholeSoFar
<1>14. SeenOK(t)' /\ ExistedOK(t)'
  BY <1>0, <1>1, <1>9, <1>10, <1>11, <1>12, <1>13 DEF SeenOK, ReadOK, ExistedOK, Offset, table
<1>15. WalkedOK(t)'
  <2> SUFFICES ASSUME last, WholeSoFar(t), ~(tab[t].until = "total" /\ tab[t].overtaken)
               PROVE  Lone(t) \subseteq Shown(t)
    BY <1>4, <1>9, <1>10, <1>11, <1>13 DEF WalkedOK
  <2>1. CASE tab[t].until # "total"
    BY <1>1, <1>2, <1>7, <1>13, <2>1 DEF ReadOK
  <2>2. CASE tab[t].until = "total"
    <3>1. Offset(PageOf(t) + 1, LimitOf(t)) = tab[t].page * tab[t].limit
      BY <1>2, <1>3, NextOffset
    <3>2. tab[t].total \in Nat /\ Offset(PageOf(t) + 1, LimitOf(t)) \in Nat
      <4>1. tab[t].total \in 0 .. MaxRows
        BY <1>1 DEF Tab
      <4>2. Offset(PageOf(t) + 1, LimitOf(t)) \in Nat
        BY <1>3, NextOffset
      <4> QED
        BY <4>1, <4>2
    <3>3. tab[t].total <= Offset(PageOf(t) + 1, LimitOf(t))
      BY <1>7, <2>2, <3>1, <3>2
    <3> QED
      BY <1>0, <1>1, <2>2, <3>3 DEF TotalOK
  <2> QED
    BY <2>1, <2>2
<1>16. WalkOK(t)'
  BY <1>4, <1>9, <1>10, <1>14, <1>15 DEF WalkOK, AskedOK, ReadOK, TotalOK, HasAsked, HasRead
<1> QED
  BY <1>0, <1>4, <1>5, <1>8, <1>9, <1>16, WalkStep

-----------------------------------------------------------------------------
(***************************************************************************)
(* Rows that are added only push others down.                              *)
(***************************************************************************)
LEMMA TableGrows ==
  ASSUME PInv, task' = task, stored' = stored, cookie' = cookie, tab' = tab,
         TypeOK', visible \subseteq visible'
  PROVE  PInv'
<1>1. ASSUME NEW t \in Tabs PROVE SettingsOK(t)' /\ WalkOK(t)'
  BY SettingsStay, WalkStays DEF PInv
<1> QED
  BY <1>1 DEF PInv

LEMMA RowCreatedPInv == ASSUME PInv, RowCreated PROVE PInv'
<1>1. /\ task' = task /\ stored' = stored /\ cookie' = cookie /\ tab' = tab /\ visible' = visible
      /\ created' = created + 1 /\ created < MaxRows
  BY DEF RowCreated
<1>2. TypeOK'
  BY <1>1 DEF PInv, TypeOK
<1> QED
  BY <1>1, <1>2, TableGrows

LEMMA RowCommittedPInv == ASSUME PInv, NEW n \in 1 .. MaxRows, RowCommitted(n) PROVE PInv'
<1>1. /\ task' = task /\ stored' = stored /\ cookie' = cookie /\ tab' = tab /\ created' = created
      /\ visible' = visible \cup {n} /\ n \in 1 .. created
  BY DEF RowCommitted
<1>2. TypeOK'
  BY <1>1 DEF PInv, TypeOK
<1> QED
  BY <1>1, <1>2, TableGrows

LEMMA NextPInv == ASSUME PInv, [Next]_vars PROVE PInv'
<1>1. ASSUME NEW t \in Tabs, EditSettings(t) PROVE PInv'
  BY <1>1, FetchTokenPInv, LoadPInv, EditPInv, SavePInv, UpsertPInv, LeavePInv DEF EditSettings
<1>2. ASSUME NEW t \in Tabs, Walk(t) PROVE PInv'
  BY <1>2, WalkStartPInv, AskPInv, CountPInv, ReadRowsPInv, ReceivePInv, RetryPInv, WalkAgainPInv DEF Walk
<1>3. CASE CookieExpires
  BY <1>3, CookieExpiresPInv
<1>4. CASE RowCreated
  BY <1>4, RowCreatedPInv
<1>5. ASSUME NEW n \in 1 .. MaxRows, RowCommitted(n) PROVE PInv'
  BY <1>5, RowCommittedPInv
<1>6. CASE UNCHANGED vars
  <2>1. /\ task' = task /\ stored' = stored /\ cookie' = cookie /\ tab' = tab
        /\ created' = created /\ visible' = visible
    BY <1>6 DEF vars, table
  <2>2. TypeOK'
    BY <2>1 DEF PInv, TypeOK
  <2> QED
    BY <2>1, <2>2, TableGrows
<1> QED
  BY <1>1, <1>2, <1>3, <1>4, <1>5, <1>6 DEF Next

-----------------------------------------------------------------------------
(***************************************************************************)
(* The theorems.                                                           *)
(***************************************************************************)
LEMMA Inductive == Spec => []PInv
<1>1. Init => PInv
  BY InitPInv
<1>2. PInv /\ [Next]_vars => PInv'
  BY NextPInv
<1> QED
  BY <1>1, <1>2, PTL DEF Spec

\* The cookie, the row, the list and the tabs hold what they can hold.
THEOREM PortalTyped == Spec => []TypeOK
<1>1. PInv => TypeOK
  BY DEF PInv
<1> QED
  BY <1>1, Inductive, PTL

\* CSRFMiddleware refuses a tab that has a token only after the cookie has expired
\* or another tab has replaced it.
THEOREM NoRefusalWithoutCause == Spec => []RefusalHasCause
<1>1. PInv => RefusalHasCause
  BY DEF PInv, SettingsOK, RefusalOK, RefusalHasCause
<1> QED
  BY <1>1, Inductive, PTL

\* A walk through the users or one's submissions shows every row there was when it
\* began and that shares its moment with no other row, although rows are added and
\* commit in any order meanwhile and every query may order ties anew.
THEOREM WalksMissNobody == Spec => []WalkMissesNobody
<1>1. ASSUME PInv PROVE WalkMissesNobody
  <2> SUFFICES ASSUME NEW t \in Tabs, tab[t].pc = "walked", ~tab[t].torn
               PROVE  Lone(t) \subseteq tab[t].seen \/ (tab[t].until = "total" /\ tab[t].overtaken)
    BY DEF WalkMissesNobody, Lone
  <2> QED
    BY <1>1 DEF PInv, SettingsOK, UseOK, WalkOK, WalkedOK
<1> QED
  BY <1>1, Inductive, PTL

\* UpdateNotificationSettings overwrites every column, yet changes only what was
\* edited unless its tab showed an old copy or the defaults of a failed read.
THEOREM SavesChangeOnlyEdits == Spec => OnlyEditsChange
<1> DEFINE Edits ==
             \A t \in Tabs : Upsert(t) /\ stored' # stored /\ ~tab[t].stale /\ ~tab[t].false =>
               \A f \in Fields : stored'[f] # (IF stored = NoSettings THEN Defaults ELSE stored)[f]
                               => f \in tab[t].touched
<1>1. ASSUME PInv PROVE Edits
  <2> SUFFICES ASSUME NEW t \in Tabs, Upsert(t), stored' # stored, ~tab[t].stale, ~tab[t].false,
                      NEW f \in Fields, f \notin tab[t].touched
               PROVE  stored'[f] = (IF stored = NoSettings THEN Defaults ELSE stored)[f]
    OBVIOUS
  <2>1. stored' = tab[t].draft /\ task[t] = "settings" /\ tab[t].pc = "upsert"
    BY DEF Upsert, At
  <2>2. tab[t].draft[f] = Loaded(stored)[f]
    BY <1>1, <2>1 DEF PInv, SettingsOK, CopyOK, HoldsCopy
  <2> QED
    BY <2>1, <2>2 DEF Loaded
<1>2. PInv => [Edits]_vars
  BY <1>1
<1> QED
  BY <1>2, Inductive, PTL DEF OnlyEditsChange
=============================================================================
