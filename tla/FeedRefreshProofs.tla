------------------------- MODULE FeedRefreshProofs -------------------------
(***************************************************************************)
(* Safety of the refresh of feeds and of the cap on their articles, for    *)
(* every number of feeds, sites, documents, items and processes, and every *)
(* cap.  What an entry needs is that it is stored, or was removed, or lies *)
(* below the watermark; no step but the deletion of the feed takes that    *)
(* away, so a validator may be kept, sent and stored again however         *)
(* refreshes overlap.                                                      *)
(***************************************************************************)
EXTENDS FeedRefresh, FiniteSetTheorems, WellFoundedInduction, TLAPS

-----------------------------------------------------------------------------
(* The invariant.                                                            *)

EntryRow(f) == [item : ItemsOf(f), date : Nat \ {0}, rev : Revision]
Version(f)  == 1..Len(Document[Site[f]])

RefreshRow == [proc : Process, feed : Feed, ask : Nat \cup {None}, failures : Nat, gated : BOOLEAN,
               step : {"fetch", "unmodified", "gate", "rejected", "exclude", "ingest", "complete"},
               ver : Nat \cup {None},
               left : Seq([item : Item, date : Nat, rev : Revision]), by : Process \cup {"kept", None}]
ImportRow  == [feed : Feed, kind : {"discover", "opml", "admin"}, mirror : Feed \cup {None},
               step : {"mirror", "insert", "subscribe", "ingest"}, left : Seq([item : Item, date : Nat, rev : Revision])]
CapRow     == [feed : Feed, keep : BOOLEAN, ids : SUBSET Item, step : {"ranked", "locked"}]

\* Articles belong to known feeds, and so does a run of the cap.
TablesOK ==
  /\ feed \in [Feed -> FeedRow \cup {None}]
  /\ art \in [Item -> ArticleRow \cup {None}]
  /\ \A i \in Item : art[i] # None => feed[i[1]] # None
  /\ tomb \subseteq Item /\ gone \subseteq [item : Item, date : Nat]
  /\ cap \in CapRow \cup {None} /\ (cap # None => feed[cap.feed] # None)
  /\ compact \in Item \cup {None}

\* What was removed left its mark: a tombstone, or the watermark of its feed.
RemovalsMarked ==
  /\ \A i \in tomb : \E g \in gone : g.item = i
  /\ \A g \in gone : \/ g.item \in tomb
                     \/ feed[g.item[1]] # None /\ g.date <= feed[g.item[1]].mark

\* Beside what a run of the cap has locked, the feed keeps Cap newer articles.
Kept(f, ids) == Stored(f) \ ids
LocksRanked ==
  cap # None /\ cap.step = "locked" =>
    \A i \in cap.ids : /\ i \in Stored(cap.feed)
                       /\ Cardinality(Newer(i, Kept(cap.feed, cap.ids))) >= Cap

\* An entry is accounted for, and so is all a version lists.
Covered(f, e) ==
  \/ art[e.item] # None
  \/ \E g \in gone : g.item = e.item
  \/ e.date <= feed[f].mark
Vouched(f, ver) ==
  /\ ver \in Version(f)
  /\ \A n \in DOMAIN parse_feed(f, ver) : Covered(f, parse_feed(f, ver)[n])

FeedsVouched == \A f \in Feed : feed[f] # None /\ feed[f].etag # None => Vouched(f, feed[f].etag)

\* What a refresh asked with is vouched for, and of what it downloaded all is accounted
\* for but what it still has to ingest.
Downloaded(r) ==
  /\ r.ver \in Version(r.feed)
  /\ \A n \in DOMAIN parse_feed(r.feed, r.ver) :
       \/ Covered(r.feed, parse_feed(r.feed, r.ver)[n])
       \/ \E k \in DOMAIN r.left : r.left[k] = parse_feed(r.feed, r.ver)[n]
RefreshOK(r) ==
  /\ r \in RefreshRow /\ feed[r.feed] # None /\ r.left \in Seq(EntryRow(r.feed))
  /\ r.ask # None => Vouched(r.feed, r.ask)
  /\ r.step \in {"gate", "rejected", "exclude", "ingest", "complete"} => Downloaded(r)
  /\ r.step = "complete" => r.left = <<>>
ImportOK(m) ==
  /\ m \in ImportRow /\ m.left \in Seq(EntryRow(m.feed))
  /\ m.step = "mirror" => m.mirror \in Feed
  /\ m.step \in {"subscribe", "ingest"} => feed[m.feed] # None

ServerOK ==
  server \in [DOMAIN Document -> Nat] /\ \A s \in DOMAIN Document : server[s] \in 1..Len(Document[s])

RefreshInv ==
  /\ TablesOK /\ RemovalsMarked /\ LocksRanked /\ FeedsVouched /\ ServerOK
  /\ \A r \in refreshes : RefreshOK(r)
  /\ \A m \in imports : ImportOK(m)

-----------------------------------------------------------------------------
(* Newest articles.                                                          *)

\* A finite set that is not empty has an element of the greatest date.
LEMMA NewestExists ==
  ASSUME NEW S, IsFiniteSet(S), S # {}, NEW d, \A x \in S : d[x] \in Nat
  PROVE  \E x \in S : \A y \in S : d[y] <= d[x]
<1> DEFINE HasNewest(T) == \E x \in T : \A y \in T : d[y] <= d[x]
<1> DEFINE Bad == {T \in SUBSET S : T # {} /\ ~HasNewest(T)}
<1>1. SUFFICES ASSUME Bad # {} PROVE FALSE
  <2>1. S \in SUBSET S
    OBVIOUS
  <2> QED BY <2>1
<1>2. IsWellFoundedOn(StrictSubsetOrdering(S), FiniteSubsetsOf(S))
  BY FS_StrictSubsetOrderingWellFounded
<1>3. Bad \subseteq FiniteSubsetsOf(S)
  BY FS_FiniteSubsetsOfFinite
<1>4. PICK T \in Bad : \A U \in Bad : ~(<<U, T>> \in StrictSubsetOrdering(S))
  <2> HIDE DEF Bad
  <2> QED BY <1>1, <1>2, <1>3, WFMin
<1>5. PICK x \in T : TRUE
  OBVIOUS
<1> DEFINE U == T \ {x}
<1>6. <<U, T>> \in StrictSubsetOrdering(S)
  BY <1>5 DEF StrictSubsetOrdering
<1>7. U \notin Bad
  BY <1>4, <1>6
<1>8. \A y \in T : d[y] \in Nat
  OBVIOUS
<1>9. CASE U = {}
  <2>1. \A y \in T : y = x
    BY <1>9
  <2>2. \A y \in T : d[y] <= d[x]
    BY <2>1, <1>8, <1>5
  <2> QED BY <2>2, <1>5
<1>10. CASE U # {}
  <2>1. PICK m \in U : \A y \in U : d[y] <= d[m]
    BY <1>7, <1>10
  <2>2. m \in T /\ d[m] \in Nat /\ d[x] \in Nat
    BY <1>8, <1>5
  <2>3. CASE d[x] <= d[m]
    <3>1. \A y \in T : d[y] <= d[m]
      BY <2>1, <2>3
    <3> QED BY <3>1, <2>2
  <2>4. CASE d[m] <= d[x]
    <3>1. \A y \in T : d[y] <= d[x]
      <4>1. SUFFICES ASSUME NEW y \in T PROVE d[y] <= d[x]
        OBVIOUS
      <4>2. d[y] \in Nat
        BY <1>8
      <4>3. CASE y = x
        BY <4>3, <4>2
      <4>4. CASE y # x
        BY <4>4, <4>2, <2>1, <2>2, <2>4
      <4> QED BY <4>3, <4>4
    <3> QED BY <3>1, <1>5
  <2> QED BY <2>2, <2>3, <2>4
<1> QED BY <1>9, <1>10

\* The newest members of a set: those with fewer than Cap newer ones.
Top(S) == {j \in S : Cardinality(Newer(j, S)) < Cap}

\* If anything in a set of dated articles has Cap newer ones, the set has Cap articles at
\* the top, and they are all newer than it.
LEMMA TopIsFull ==
  ASSUME NEW S \in SUBSET Item, \A j \in S : art[j].date \in Nat,
         NEW i \in S, Cardinality(Newer(i, S)) >= Cap
  PROVE  Cardinality(Top(S)) >= Cap /\ \A t \in Top(S) : art[t].date > art[i].date
<1> USE ArticleAssumption
<1>1. IsFiniteSet(S) /\ \A T \in SUBSET S : IsFiniteSet(T) /\ Cardinality(T) \in Nat
  <2>1. IsFiniteSet(S)
    BY FS_Subset DEF ArticleAssumption
  <2>2. ASSUME NEW T \in SUBSET S PROVE IsFiniteSet(T) /\ Cardinality(T) \in Nat
    BY <2>1, FS_Subset, FS_CardinalityType
  <2> QED BY <2>1, <2>2
<1>2. \A j \in S : Newer(j, S) \in SUBSET S
  BY DEF Newer
<1>3. Cap \in Nat
  BY DEF ArticleAssumption
<1>4. ASSUME NEW t \in Top(S) PROVE art[t].date > art[i].date
  <2>1. t \in S /\ Cardinality(Newer(t, S)) < Cap
    BY DEF Top
  <2>2. art[t].date \in Nat /\ art[i].date \in Nat
    BY <2>1
  <2>3. SUFFICES ASSUME art[t].date <= art[i].date PROVE FALSE
    BY <2>2
  <2>4. Newer(i, S) \in SUBSET Newer(t, S)
    BY <2>2, <2>3 DEF Newer
  <2>5. Cardinality(Newer(i, S)) <= Cardinality(Newer(t, S))
    BY <2>1, <2>4, <1>1, <1>2, FS_Subset
  <2> QED BY <2>1, <2>5, <1>1, <1>2, <1>3
<1>5. Cardinality(Top(S)) >= Cap
  <2>1. SUFFICES ASSUME Cardinality(Top(S)) < Cap PROVE FALSE
    BY <1>1, <1>3 DEF Top
  <2> DEFINE Low == S \ Top(S)
  <2>2. i \in Low
    BY <1>1, <1>2, <1>3 DEF Top
  <2>3. IsFiniteSet(Low) /\ Low # {} /\ \A x \in Low : art[x].date \in Nat
    BY <1>1, <2>2
  <2> DEFINE d == [x \in Low |-> art[x].date]
  <2>4. PICK m \in Low : \A y \in Low : d[y] <= d[m]
    <3> HIDE DEF Low
    <3>1. \A x \in Low : d[x] \in Nat
      BY <2>3
    <3> HIDE DEF d
    <3> QED BY <2>3, <3>1, NewestExists
  <2>5. m \in S /\ \A y \in Low : art[y].date <= art[m].date
    BY <2>4
  <2>6. Newer(m, S) \subseteq Top(S)
    BY <2>5, <2>3 DEF Newer
  <2>7. Cardinality(Newer(m, S)) <= Cardinality(Top(S))
    <3>1. Top(S) \in SUBSET S
      BY DEF Top
    <3> QED BY <2>6, <1>1, <3>1, FS_Subset
  <2>8. Cardinality(Newer(m, S)) \in Nat /\ Cardinality(Top(S)) \in Nat
    BY <1>1, <1>2, <2>5 DEF Top
  <2>9. m \in Top(S)
    BY <2>1, <2>5, <2>7, <2>8, <1>3 DEF Top
  <2> QED BY <2>9
<1> QED BY <1>4, <1>5

\* The greatest of the dates of a finite set of articles and a mark is at least each of
\* them, and is one of them.
LEMMA MaxOfDates ==
  ASSUME NEW S, IsFiniteSet(S), \A x \in S : art[x].date \in Nat, NEW mark \in Nat
  PROVE  LET old == {art[x].date : x \in S} \cup {mark}
         IN /\ Max(old) \in Nat /\ Max(old) >= mark /\ Max(old) \in old
            /\ \A x \in S : Max(old) >= art[x].date
<1> DEFINE old == {art[x].date : x \in S} \cup {mark}
<1>1. old \subseteq Nat
  OBVIOUS
<1>2. \E x \in old : \A y \in old : x >= y
  <2>1. CASE S = {}
    BY <2>1
  <2>2. CASE S # {}
    <3> DEFINE d == [x \in S |-> art[x].date]
    <3>1. \A x \in S : d[x] \in Nat
      OBVIOUS
    <3>2. PICK m \in S : \A y \in S : d[y] <= d[m]
      <4> HIDE DEF d
      <4> QED BY <2>2, <3>1, NewestExists
    <3>3. \A y \in S : art[y].date <= art[m].date
      BY <3>2
    <3>4. CASE art[m].date >= mark
      <4>1. art[m].date \in old /\ \A y \in old : art[m].date >= y
        BY <3>3, <3>4
      <4> QED BY <4>1
    <3>5. CASE mark >= art[m].date
      <4>1. mark \in old /\ \A y \in old : mark >= y
        BY <3>3, <3>5, <1>1
      <4> QED BY <4>1
    <3> QED BY <3>4, <3>5
  <2> QED BY <2>1, <2>2
<1>3. Max(old) \in old /\ \A y \in old : Max(old) >= y
  <2> HIDE DEF old
  <2> QED BY <1>2 DEF Max
<1> QED BY <1>1, <1>3

-----------------------------------------------------------------------------
(* What a step keeps.                                                        *)

\* Of a feed that stays, an article that goes is written down, and neither what is
\* written down nor the watermark goes back.
GrowsAt(f) ==
  /\ \A i \in ItemsOf(f) : art[i] # None => art'[i] # None \/ \E g \in gone' : g.item = i
  /\ \A g \in gone : g.item[1] = f => g \in gone'
  /\ feed'[f] # None /\ feed'[f].mark \in Nat /\ feed'[f].mark >= feed[f].mark

\* Every step but the deletion of a feed leaves all feeds so.
Grows ==
  /\ \A i \in Item : art[i] # None => art'[i] # None \/ \E g \in gone' : g.item = i
  /\ gone \subseteq gone'
  /\ \A f \in Feed : feed[f] # None =>
       feed'[f] # None /\ feed'[f].mark \in Nat /\ feed'[f].mark >= feed[f].mark

\* Nothing is evicted or deleted, and no article loses its row or changes its feed's order.
Frozen(i) == /\ art'[i] = None <=> art[i] = None
             /\ art[i] # None => art'[i].date = art[i].date
LocksHeld ==
  /\ cap' = cap \/ cap' = None \/ cap'.step = "ranked"
  /\ \A i \in Item : Locked(i[1]) => Frozen(i)

\* The fields of a row of feeds and of a row of articles.
LEMMA Fields ==
  /\ \A w \in FeedRow : /\ w.mark \in Nat /\ w.failures \in Nat /\ w.count \in Nat
                        /\ w.etag \in Nat \cup {None} /\ w.archived \in BOOLEAN /\ w # None
  /\ \A a \in ArticleRow : /\ a.rev \in Revision /\ a.date \in Nat /\ a.mined \in BOOLEAN
                           /\ a.full \in BOOLEAN /\ a.staged \in BOOLEAN /\ a # None
BY ArticleAssumption, RefreshAssumption DEF ArticleAssumption, RefreshAssumption, FeedRow, ArticleRow

\* A step that leaves all feeds so leaves each of them so.
LEMMA GrowsThere ==
  ASSUME Grows, NEW f \in Feed, feed[f] # None
  PROVE  GrowsAt(f)
BY DEF Grows, GrowsAt, ItemsOf

\* What is accounted for stays accounted for.
LEMMA CoveredStays ==
  ASSUME TablesOK, NEW f \in Feed, feed[f] # None, GrowsAt(f), NEW e \in EntryRow(f), Covered(f, e)
  PROVE  Covered(f, e)'
<1>1. e.item \in ItemsOf(f) /\ e.item[1] = f /\ e.date \in Nat
  BY DEF EntryRow, ItemsOf
<1>2. feed[f].mark \in Nat /\ feed'[f].mark \in Nat /\ feed'[f].mark >= feed[f].mark
  BY Fields DEF TablesOK, GrowsAt
<1>3. CASE art[e.item] # None
  BY <1>1, <1>3 DEF GrowsAt, Covered
<1>4. CASE \E g \in gone : g.item = e.item
  BY <1>1, <1>4 DEF GrowsAt, Covered
<1>5. CASE e.date <= feed[f].mark
  BY <1>1, <1>2, <1>5 DEF Covered
<1> QED BY <1>3, <1>4, <1>5 DEF Covered

\* The entries of a version of a feed.
LEMMA EntriesTyped ==
  ASSUME NEW f \in Feed, NEW ver \in Version(f)
  PROVE  /\ parse_feed(f, ver) \in Seq(EntryRow(f))
         /\ \A n \in DOMAIN parse_feed(f, ver) : parse_feed(f, ver)[n] \in EntryRow(f)
<1>1. parse_feed(f, ver) \in Seq(EntryRow(f))
  BY RefreshAssumption DEF RefreshAssumption, Version, EntryRow
<1> DEFINE s == parse_feed(f, ver)
<1>2. s \in Seq(EntryRow(f))
  BY <1>1
<1> HIDE DEF s
<1>3. \A n \in DOMAIN s : s[n] \in EntryRow(f)
  BY <1>2
<1> QED BY <1>1, <1>3 DEF s

\* A sequence of entries of one feed is one of entries.
LEMMA EntriesListed ==
  ASSUME NEW f, NEW s \in Seq(EntryRow(f))
  PROVE  s \in Seq([item : Item, date : Nat, rev : Revision])
<1> DEFINE T == [item : Item, date : Nat, rev : Revision]
<1>1. EntryRow(f) \subseteq T
  BY DEF EntryRow, ItemsOf
<1> HIDE DEF T
<1>2. s \in Seq(T)
  BY <1>1
<1> QED BY <1>2 DEF T

\* So does a version.
LEMMA VouchedStays ==
  ASSUME TablesOK, NEW f \in Feed, feed[f] # None, GrowsAt(f), NEW ver, Vouched(f, ver)
  PROVE  Vouched(f, ver)'
BY EntriesTyped, CoveredStays DEF Vouched

\* So does a refresh that the step leaves alone.
LEMMA RefreshStays ==
  ASSUME TablesOK, NEW r, RefreshOK(r), GrowsAt(r.feed)
  PROVE  RefreshOK(r)'
<1>1. r \in RefreshRow /\ r.feed \in Feed /\ feed[r.feed] # None /\ r.left \in Seq(EntryRow(r.feed))
  BY DEF RefreshOK, RefreshRow
<1>2. feed'[r.feed] # None
  BY <1>1 DEF GrowsAt
<1>3. r.ask # None => Vouched(r.feed, r.ask)'
  BY <1>1, VouchedStays DEF RefreshOK
<1>4. ASSUME r.step \in {"gate", "rejected", "exclude", "ingest", "complete"} PROVE Downloaded(r)'
  <2>1. Downloaded(r)
    BY <1>4 DEF RefreshOK
  <2>2. ASSUME NEW n \in DOMAIN parse_feed(r.feed, r.ver), Covered(r.feed, parse_feed(r.feed, r.ver)[n])
        PROVE  Covered(r.feed, parse_feed(r.feed, r.ver)[n])'
    BY <2>1, <2>2, <1>1, EntriesTyped, CoveredStays DEF Downloaded
  <2> QED BY <2>1, <2>2 DEF Downloaded
<1> QED BY <1>1, <1>2, <1>3, <1>4 DEF RefreshOK

\* So does an import that the step leaves alone.
LEMMA ImportStays ==
  ASSUME Grows, NEW m, ImportOK(m)
  PROVE  ImportOK(m)'
BY DEF ImportOK, ImportRow, Grows

\* Removals stay marked where nothing is removed.
LEMMA MarksStay ==
  ASSUME TablesOK, RemovalsMarked, Grows, tomb' = tomb, gone' = gone
  PROVE  RemovalsMarked'
<1>1. ASSUME NEW g \in gone
      PROVE  g.item \in tomb \/ (feed'[g.item[1]] # None /\ g.date <= feed'[g.item[1]].mark)
  <2>1. g.item \in Item /\ g.date \in Nat /\ g.item[1] \in Feed
    BY ArticleAssumption DEF ArticleAssumption, TablesOK
  <2>2. CASE g.item \in tomb
    BY <2>2
  <2>3. CASE feed[g.item[1]] # None /\ g.date <= feed[g.item[1]].mark
    <3>1. feed[g.item[1]].mark \in Nat
      BY <2>1, <2>3, Fields DEF TablesOK
    <3> QED BY <2>1, <2>3, <3>1 DEF Grows
  <2> QED BY <2>2, <2>3 DEF RemovalsMarked
<1> QED BY <1>1 DEF RemovalsMarked

\* What is locked stays ranked.
LEMMA RanksStay ==
  ASSUME TablesOK, LocksRanked, LocksHeld
  PROVE  LocksRanked'
<1>1. SUFFICES ASSUME cap # None, cap.step = "locked", cap' = cap, NEW i \in cap.ids
               PROVE  /\ i \in Stored(cap.feed)'
                      /\ Cardinality(Newer(i, Kept(cap.feed, cap.ids))') >= Cap
  BY DEF LocksRanked, LocksHeld
<1>2. i \in Stored(cap.feed) /\ Cardinality(Newer(i, Kept(cap.feed, cap.ids))) >= Cap
  BY <1>1 DEF LocksRanked
<1>3. \A j \in ItemsOf(cap.feed) : Frozen(j)
  BY <1>1 DEF LocksHeld, Locked, ItemsOf
<1>4. Stored(cap.feed)' = Stored(cap.feed)
  BY <1>3, <1>1 DEF Stored, Frozen
<1>5. \A j \in Stored(cap.feed) : art'[j].date = art[j].date
  BY <1>3 DEF Stored, Frozen
<1>6. Newer(i, Kept(cap.feed, cap.ids))' = Newer(i, Kept(cap.feed, cap.ids))
  BY <1>1, <1>2, <1>4, <1>5 DEF Newer, Kept
<1> QED BY <1>2, <1>4, <1>6

RefreshKept == RefreshInv' /\ Grows

\* A step keeps the invariant if it keeps the tables in order and marks what it removes,
\* and if whatever it writes anew is vouched for.
LEMMA StepKeeps ==
  ASSUME RefreshInv, TablesOK', RemovalsMarked', LocksRanked', Grows, ServerOK',
         \A f \in Feed : feed'[f] # None /\ feed'[f].etag # None =>
            feed[f] # None /\ (feed'[f].etag = feed[f].etag \/ Vouched(f, feed'[f].etag)),
         \A r \in refreshes' : r \in refreshes \/ RefreshOK(r)',
         \A m \in imports' : m \in imports \/ ImportOK(m)'
  PROVE  RefreshKept
<1>1. FeedsVouched'
  <2>1. SUFFICES ASSUME NEW f \in Feed, feed'[f] # None, NEW ver, ver = feed'[f].etag, ver # None
                 PROVE  Vouched(f, ver)'
    BY DEF FeedsVouched, Vouched, Covered
  <2>2. Vouched(f, ver) /\ feed[f] # None
    BY <2>1 DEF RefreshInv, FeedsVouched
  <2> QED BY <2>2, VouchedStays, GrowsThere DEF RefreshInv
<1>2. \A r \in refreshes' : RefreshOK(r)'
  <2>1. ASSUME NEW r \in refreshes PROVE GrowsAt(r.feed)
    BY GrowsThere DEF RefreshInv, RefreshOK, RefreshRow
  <2> QED BY <2>1, RefreshStays DEF RefreshInv
<1>3. \A m \in imports' : ImportOK(m)'
  BY ImportStays DEF RefreshInv
<1> QED BY <1>1, <1>2, <1>3 DEF RefreshInv, RefreshKept

-----------------------------------------------------------------------------
(* Steps on the tables.                                                      *)

\* The rows of feeds keep their watermarks, and gain no validator.
FeedsKept ==
  /\ feed' \in [Feed -> FeedRow \cup {None}]
  /\ \A f \in Feed : feed[f] # None => feed'[f] # None /\ feed'[f].mark = feed[f].mark
EtagsKept ==
  \A f \in Feed : feed'[f] # None /\ feed'[f].etag # None =>
    feed[f] # None /\ feed'[f].etag = feed[f].etag

TablesStep == TablesOK' /\ RemovalsMarked' /\ LocksRanked' /\ Grows

\* Writing one row of feeds.
LEMMA OneRow ==
  ASSUME TablesOK, NEW f \in Feed, feed[f] # None, NEW w \in FeedRow, w.mark = feed[f].mark,
         feed' = [feed EXCEPT ![f] = w]
  PROVE  FeedsKept /\ (w.etag = feed[f].etag => EtagsKept)
<1>1. feed \in [Feed -> FeedRow \cup {None}]
  BY DEF TablesOK
<1>2. w # None
  BY Fields
<1>3. feed'[f] = w /\ \A g \in Feed : g # f => feed'[g] = feed[g]
  BY <1>1
<1>4. feed' \in [Feed -> FeedRow \cup {None}]
  BY <1>1
<1>5. FeedsKept
  BY <1>2, <1>3, <1>4 DEF FeedsKept
<1>6. ASSUME w.etag = feed[f].etag PROVE EtagsKept
  BY <1>2, <1>3, <1>6 DEF EtagsKept
<1> QED BY <1>5, <1>6

\* Setting one field of a row of feeds.
LEMMA RowFields ==
  ASSUME NEW w \in FeedRow
  PROVE  /\ \A n \in Nat : LET v == [w EXCEPT !.count = n]
                           IN v \in FeedRow /\ v.mark = w.mark /\ v.etag = w.etag
         /\ \A b \in BOOLEAN : LET v == [w EXCEPT !.archived = b]
                               IN v \in FeedRow /\ v.mark = w.mark /\ v.etag = w.etag
         /\ \A n \in Nat : LET v == [w EXCEPT !.mark = n]
                           IN v \in FeedRow /\ v.mark = n /\ v.etag = w.etag
BY DEF FeedRow

\* The articles of a feed can be counted.
LEMMA CountTyped ==
  ASSUME NEW rows, NEW f
  PROVE  Cardinality({i \in ItemsOf(f) : rows[i] # None}) \in Nat
BY ArticleAssumption, FS_Subset, FS_CardinalityType DEF ArticleAssumption, ItemsOf

\* Counting them writes one row.
LEMMA CountKeeps ==
  ASSUME TablesOK, NEW f \in Feed, feed[f] # None, NEW rows, feed' = Count(rows, f)
  PROVE  FeedsKept /\ EtagsKept
<1> DEFINE n == Cardinality({i \in ItemsOf(f) : rows[i] # None})
<1> DEFINE w == [feed[f] EXCEPT !.count = n]
<1>1. n \in Nat
  BY CountTyped
<1>2. feed' = [feed EXCEPT ![f] = w]
  BY DEF Count
<1>3. feed[f] \in FeedRow
  BY DEF TablesOK
<1>4. w \in FeedRow /\ w.mark = feed[f].mark /\ w.etag = feed[f].etag
  <2> HIDE DEF n
  <2> QED BY <1>1, <1>3, RowFields
<1> QED
  <2> HIDE DEF w
  <2> QED BY <1>2, <1>4, OneRow

\* Feeds keep what Grows asks of them.
LEMMA FeedsGrow ==
  ASSUME TablesOK, FeedsKept
  PROVE  \A f \in Feed : feed[f] # None =>
           feed'[f] # None /\ feed'[f].mark \in Nat /\ feed'[f].mark >= feed[f].mark
BY Fields DEF TablesOK, FeedsKept

\* A step that neither stores nor removes an article, nor locks any.
LEMMA ArticlesStay ==
  ASSUME RefreshInv, FeedsKept, art' \in [Item -> ArticleRow \cup {None}],
         \A i \in Item : Frozen(i), tomb' = tomb, gone' = gone, compact' \in Item \cup {None},
         cap' \in CapRow \cup {None},
         cap' = cap \/ cap' = None \/ (cap'.step = "ranked" /\ feed[cap'.feed] # None)
  PROVE  TablesStep
<1>1. TablesOK /\ RemovalsMarked /\ LocksRanked
  BY DEF RefreshInv
<1>2. Grows
  BY <1>1, FeedsGrow DEF Grows, Frozen
<1>3. LocksHeld
  BY DEF LocksHeld
<1>4. TablesOK'
  <2>1. \A i \in Item : art'[i] # None => feed'[i[1]] # None
    BY <1>1, ArticleAssumption DEF TablesOK, FeedsKept, Frozen, ArticleAssumption
  <2>2. cap' # None => feed'[cap'.feed] # None
    BY <1>1 DEF TablesOK, FeedsKept, CapRow
  <2> QED BY <1>1, <2>1, <2>2 DEF TablesOK, FeedsKept
<1> QED BY <1>1, <1>2, <1>3, <1>4, MarksStay, RanksStay DEF TablesStep

\* A step that leaves the tables alone.
LEMMA TablesUntouched ==
  ASSUME RefreshInv, UNCHANGED <<feed, art, tomb, gone, cap, compact>>
  PROVE  TablesStep /\ EtagsKept
<1>1. TablesOK
  BY DEF RefreshInv
<1>2. FeedsKept /\ EtagsKept
  BY <1>1 DEF FeedsKept, EtagsKept, TablesOK
<1>3. \A i \in Item : Frozen(i)
  BY DEF Frozen
<1> QED BY <1>1, <1>2, <1>3, ArticlesStay DEF TablesOK

\* A step that writes feeds and no article.
LEMMA ArticlesUntouched ==
  ASSUME RefreshInv, FeedsKept, UNCHANGED <<art, tomb, gone, cap, compact>>
  PROVE  TablesStep
<1>1. TablesOK
  BY DEF RefreshInv
<1>2. \A i \in Item : Frozen(i)
  BY DEF Frozen
<1> QED BY <1>1, <1>2, ArticlesStay DEF TablesOK

\* The row an ingestion writes.
LEMMA RowTyped ==
  ASSUME TablesOK, NEW i \in Item, NEW date \in Nat, NEW rev \in Revision
  PROVE  Row(i, date, rev) \in ArticleRow
<1>1. CASE art[i] = None
  BY <1>1 DEF Row, ArticleRow
<1>2. CASE art[i] # None
  <2>1. art[i] \in ArticleRow
    BY <1>2 DEF TablesOK
  <2> DEFINE same == art[i].rev.hash = rev.hash
  <2> DEFINE mined == art[i].mined /\ same
  <2> DEFINE full == art[i].full \/ ~same
  <2> DEFINE w == [art[i] EXCEPT !.rev = rev, !.date = date, !.mined = mined, !.full = full]
  <2>2. Row(i, date, rev) = art[i] \/ Row(i, date, rev) = w
    BY <1>2 DEF Row
  <2>3. mined \in BOOLEAN /\ full \in BOOLEAN
    BY <2>1, Fields
  <2> HIDE DEF mined, full
  <2>4. w \in ArticleRow
    BY <2>1, <2>3 DEF ArticleRow
  <2> HIDE DEF w
  <2> QED BY <2>1, <2>2, <2>4
<1> QED BY <1>1, <1>2

\* An ingested entry is accounted for.
LEMMA IngestKeeps ==
  ASSUME RefreshInv, NEW f \in Feed, feed[f] # None, NEW e \in EntryRow(f),
         ingest_article_batch(f, e.item, e.date, e.rev), UNCHANGED <<tomb, gone, cap, compact>>
  PROVE  TablesStep /\ EtagsKept /\ Covered(f, e)'
<1>1. TablesOK /\ RemovalsMarked /\ LocksRanked
  BY DEF RefreshInv
<1>2. e.item \in Item /\ e.item[1] = f /\ e.date \in Nat /\ e.rev \in Revision
  BY DEF EntryRow, ItemsOf
<1>3. FeedsKept /\ EtagsKept
  BY <1>1, CountKeeps DEF ingest_article_batch
<1> DEFINE w == Row(e.item, e.date, e.rev)
<1>4. w \in ArticleRow /\ w # None
  BY <1>1, <1>2, RowTyped, Fields
<1>5. ~Locked(f) /\ art' = IF Dropped(e.item, e.date) THEN art ELSE [art EXCEPT ![e.item] = w]
  BY DEF ingest_article_batch
<1> HIDE DEF w
<1>6. /\ art' \in [Item -> ArticleRow \cup {None}]
      /\ \A i \in Item : i # e.item => art'[i] = art[i]
      /\ art[e.item] # None => art'[e.item] # None
  BY <1>1, <1>2, <1>4, <1>5 DEF TablesOK
<1>7. Grows
  BY <1>1, <1>3, <1>6, FeedsGrow DEF Grows
<1>8. LocksHeld
  BY <1>2, <1>5, <1>6 DEF LocksHeld, Frozen
<1>9. TablesOK'
  <2>1. \A i \in Item : art'[i] # None => feed'[i[1]] # None
    BY <1>1, <1>2, <1>3, <1>6, ArticleAssumption DEF TablesOK, FeedsKept, ArticleAssumption
  <2>2. cap' # None => feed'[cap'.feed] # None
    BY <1>1, <1>3 DEF TablesOK, FeedsKept, CapRow
  <2> QED BY <1>1, <1>3, <1>6, <2>1, <2>2 DEF TablesOK, FeedsKept
<1>10. Covered(f, e)'
  <2>1. CASE e.item \in tomb
    BY <2>1, <1>1 DEF RemovalsMarked, Covered
  <2>2. CASE e.item \notin tomb /\ Dropped(e.item, e.date)
    BY <2>2, <1>2, <1>3 DEF Dropped, Covered, FeedsKept
  <2>3. CASE ~Dropped(e.item, e.date)
    BY <2>3, <1>1, <1>2, <1>4, <1>5 DEF Covered, TablesOK
  <2> QED BY <2>1, <2>2, <2>3
<1> QED BY <1>1, <1>3, <1>7, <1>8, <1>9, <1>10, MarksStay, RanksStay DEF TablesStep

-----------------------------------------------------------------------------
(* The cap and the administrator.                                            *)

\* Sets of articles are finite.
LEMMA ItemsFinite ==
  ASSUME NEW S \in SUBSET Item
  PROVE  IsFiniteSet(S) /\ Cardinality(S) \in Nat
BY ArticleAssumption, FS_Subset, FS_CardinalityType DEF ArticleAssumption

\* Whatever the cap ranks as surplus, the newest Cap articles are not among it, and are
\* newer.
LEMMA SurplusRanked ==
  ASSUME TablesOK, NEW f, NEW keep, NEW i \in article_cap_candidates(f, keep)
  PROVE  /\ i \in Stored(f)
         /\ Cardinality(Newer(i, Kept(f, article_cap_candidates(f, keep)))) >= Cap
<1> DEFINE ids == article_cap_candidates(f, keep)
<1> DEFINE U == Unprotected(f)
<1> DEFINE K == Newer(i, Kept(f, ids))
<1>1. U \in SUBSET Item /\ U \subseteq Stored(f) /\ ids \subseteq U
  BY DEF Unprotected, Stored, ItemsOf, article_cap_candidates
<1>2. \A j \in U : art[j].date \in Nat
  BY <1>1, Fields DEF TablesOK, Unprotected, Stored
<1>3. \A j \in ids : Cardinality(Newer(j, U)) >= Cap
  <2>1. SUFFICES ASSUME NEW j \in ids PROVE Cardinality(Newer(j, U)) >= Cap
    OBVIOUS
  <2>2. Newer(j, U) \in SUBSET Item
    BY <1>1 DEF Newer
  <2>3. Cardinality(Newer(j, U)) \in Nat
    BY <2>2, ItemsFinite
  <2>4. Cardinality(Newer(j, U)) + 1 > Cap
    BY DEF article_cap_candidates
  <2> QED BY <2>3, <2>4, ArticleAssumption DEF ArticleAssumption
<1>4. i \in U /\ Cardinality(Newer(i, U)) >= Cap
  BY <1>1, <1>3
<1>5. Cardinality(Top(U)) >= Cap /\ \A t \in Top(U) : art[t].date > art[i].date
  <2> HIDE DEF U
  <2> QED BY <1>1, <1>2, <1>4, TopIsFull
<1>6. Top(U) \cap ids = {}
  <2>1. SUFFICES ASSUME NEW t \in Top(U), t \in ids PROVE FALSE
    OBVIOUS
  <2>2. Cardinality(Newer(t, U)) < Cap /\ Cardinality(Newer(t, U)) >= Cap
    BY <1>3, <2>1 DEF Top
  <2>3. Cardinality(Newer(t, U)) \in Nat
    <3>1. Newer(t, U) \in SUBSET Item
      BY <1>1 DEF Newer
    <3> QED BY <3>1, ItemsFinite
  <2> QED BY <2>2, <2>3, ArticleAssumption DEF ArticleAssumption
<1>7. Top(U) \in SUBSET K
  BY <1>1, <1>5, <1>6 DEF Top, Newer, Kept
<1>8. K \in SUBSET Item
  BY DEF Newer, Kept, Stored, ItemsOf
<1>9. Cardinality(Top(U)) <= Cardinality(K) /\ Cardinality(K) \in Nat /\ Cardinality(Top(U)) \in Nat
  <2>1. Top(U) \in SUBSET Item
    BY <1>1 DEF Top
  <2> HIDE DEF K, U
  <2> QED BY <1>7, <1>8, <2>1, ItemsFinite, FS_Subset
<1>10. Cardinality(K) >= Cap
  BY <1>5, <1>9, ArticleAssumption DEF ArticleAssumption
<1> QED BY <1>1, <1>4, <1>10

\* The second ranking, under the lock.
LEMMA CapLockKeeps ==
  ASSUME RefreshInv, CapLock
  PROVE  TablesStep /\ EtagsKept
<1>1. TablesOK /\ RemovalsMarked /\ LocksRanked
  BY DEF RefreshInv
<1>2. UNCHANGED <<feed, art, tomb, gone, compact>>
  BY DEF CapLock
<1>3. FeedsKept /\ EtagsKept
  BY <1>1, <1>2 DEF FeedsKept, EtagsKept, TablesOK
<1>4. \A i \in Item : Frozen(i)
  BY <1>2 DEF Frozen
<1>5. CASE cap' = None
  BY <1>1, <1>2, <1>3, <1>4, <1>5, ArticlesStay DEF TablesOK
<1>6. CASE cap' # None
  <2> DEFINE ids == article_cap_candidates(cap.feed, cap.keep)
  <2>1. cap # None /\ cap' = [cap EXCEPT !.ids = ids, !.step = "locked"]
    BY <1>6 DEF CapLock
  <2>2. cap \in CapRow /\ cap.feed \in Feed /\ feed[cap.feed] # None
    BY <1>1, <2>1 DEF TablesOK, CapRow
  <2>3. ids \in SUBSET Item
    BY DEF article_cap_candidates, Unprotected, Stored, ItemsOf
  <2>4. cap' \in CapRow /\ cap'.feed = cap.feed /\ cap'.ids = ids
    <3> HIDE DEF ids
    <3> QED BY <2>1, <2>2, <2>3 DEF CapRow
  <2>5. TablesOK'
    BY <1>1, <1>2, <2>2, <2>4 DEF TablesOK
  <2>6. Grows
    BY <1>1, <1>2, <1>3, FeedsGrow DEF Grows
  <2>7. LocksRanked'
    <3>1. SUFFICES ASSUME NEW i \in ids
                   PROVE  /\ i \in Stored(cap.feed)'
                          /\ Cardinality(Newer(i, Kept(cap.feed, cap.ids))') >= Cap
      BY <2>4 DEF LocksRanked
    <3>2. i \in Stored(cap.feed) /\ Cardinality(Newer(i, Kept(cap.feed, ids))) >= Cap
      BY <1>1, SurplusRanked
    <3>3. Stored(cap.feed)' = Stored(cap.feed)
      BY <1>2, <2>4 DEF Stored
    <3>4. Newer(i, Kept(cap.feed, cap.ids))' = Newer(i, Kept(cap.feed, ids))
      BY <1>2, <2>4, <3>3 DEF Newer, Kept
    <3> QED BY <3>2, <3>3, <3>4
  <2> QED BY <1>1, <1>2, <1>3, <2>5, <2>6, <2>7, MarksStay DEF TablesStep
<1> QED BY <1>5, <1>6

\* The deletion: whoever goes leaves its date below the watermark.
LEMMA CapDeleteKeeps ==
  ASSUME RefreshInv, CapDelete
  PROVE  TablesStep /\ EtagsKept
<1>1. TablesOK /\ RemovalsMarked /\ LocksRanked
  BY DEF RefreshInv
<1> DEFINE f == cap.feed
<1>2. cap # None /\ cap.step = "locked" /\ cap' = None /\ UNCHANGED <<tomb, compact>>
  BY DEF CapDelete
<1>3. f \in Feed /\ feed[f] # None /\ feed[f] \in FeedRow /\ feed[f].mark \in Nat
  BY <1>1, <1>2, Fields DEF TablesOK, CapRow
<1>4. PICK free \in SUBSET cap.ids :
        LET out == Evicted(free)
            old == {art[i].date : i \in out} \cup {feed[cap.feed].mark}
        IN /\ art' = [i \in Item |-> IF i \in out THEN None ELSE art[i]]
           /\ feed' = [Count(art', cap.feed) EXCEPT ![cap.feed].mark = Max(old)]
           /\ gone' = gone \cup {[item |-> i, date |-> art[i].date] : i \in out}
  BY DEF CapDelete
<1> DEFINE out == Evicted(free)
<1> DEFINE top == Max({art[i].date : i \in out} \cup {feed[f].mark})
<1> DEFINE n == Cardinality({i \in ItemsOf(f) : art'[i] # None})
<1> DEFINE counted == [feed[f] EXCEPT !.count = n]
<1> DEFINE w == [counted EXCEPT !.mark = top]
<1>5. \A i \in out : i \in Item /\ i[1] = f /\ art[i] # None
  BY <1>1, <1>2 DEF Evicted, LocksRanked, Stored, ItemsOf
<1>6. \A i \in out : art[i].date \in Nat
  BY <1>1, <1>5, Fields DEF TablesOK
<1>7. top \in Nat /\ top >= feed[f].mark /\ \A i \in out : top >= art[i].date
  <2>1. IsFiniteSet(out)
    BY <1>5, ItemsFinite
  <2> HIDE DEF out
  <2> QED BY <2>1, <1>3, <1>6, MaxOfDates
<1>8. art' = [i \in Item |-> IF i \in out THEN None ELSE art[i]]
  BY <1>4
<1>9. gone' = gone \cup {[item |-> i, date |-> art[i].date] : i \in out}
  BY <1>4
<1>10. feed' = [feed EXCEPT ![f] = w]
  BY <1>1, <1>3, <1>4 DEF Count, TablesOK
<1>11. w \in FeedRow /\ w.mark = top /\ w.etag = feed[f].etag /\ w # None
  <2>1. n \in Nat
    BY CountTyped
  <2>2. counted \in FeedRow /\ counted.etag = feed[f].etag
    <3> HIDE DEF n
    <3> QED BY <1>3, <2>1, RowFields
  <2> HIDE DEF counted, top
  <2> QED BY <1>7, <2>2, RowFields, Fields
<1> HIDE DEF f, out, top, w
<1>12. feed'[f] = w /\ \A g \in Feed : g # f => feed'[g] = feed[g]
  BY <1>1, <1>3, <1>10 DEF TablesOK
<1>13. feed' \in [Feed -> FeedRow \cup {None}]
  BY <1>1, <1>10, <1>11 DEF TablesOK
<1>14. EtagsKept
  BY <1>3, <1>11, <1>12 DEF EtagsKept
<1>15. Grows
  <2>1. \A g \in Feed : feed[g] # None =>
          feed'[g] # None /\ feed'[g].mark \in Nat /\ feed'[g].mark >= feed[g].mark
    BY <1>1, <1>7, <1>11, <1>12, Fields DEF TablesOK
  <2>2. ASSUME NEW i \in Item, art[i] # None, art'[i] = None PROVE \E g \in gone' : g.item = i
    <3>1. i \in out
      BY <1>8, <2>2
    <3>2. [item |-> i, date |-> art[i].date] \in gone'
      BY <1>9, <3>1
    <3> QED BY <3>2
  <2>3. gone \subseteq gone'
    BY <1>9
  <2> QED BY <2>1, <2>2, <2>3 DEF Grows
<1>16. gone' \subseteq [item : Item, date : Nat]
  BY <1>1, <1>5, <1>6, <1>9 DEF TablesOK
<1>17. RemovalsMarked'
  <2>1. \A i \in tomb : \E g \in gone' : g.item = i
    BY <1>1, <1>9 DEF RemovalsMarked
  <2>2. ASSUME NEW g \in gone
        PROVE  g.item \in tomb \/ (feed'[g.item[1]] # None /\ g.date <= feed'[g.item[1]].mark)
    <3>1. g.date \in Nat /\ g.item[1] \in Feed
      BY <1>1, ArticleAssumption DEF ArticleAssumption, TablesOK
    <3>2. CASE g.item \in tomb
      BY <3>2
    <3>3. CASE feed[g.item[1]] # None /\ g.date <= feed[g.item[1]].mark
      <4>1. feed[g.item[1]].mark \in Nat
        BY <1>1, <3>1, <3>3, Fields DEF TablesOK
      <4> QED BY <1>15, <3>1, <3>3, <4>1 DEF Grows
    <3> QED BY <1>1, <3>2, <3>3 DEF RemovalsMarked
  <2>3. ASSUME NEW i \in out PROVE feed'[i[1]] # None /\ art[i].date <= feed'[i[1]].mark
    BY <1>5, <1>6, <1>7, <1>11, <1>12
  <2> QED BY <1>2, <1>9, <2>1, <2>2, <2>3 DEF RemovalsMarked
<1>18. TablesOK'
  <2>1. art' \in [Item -> ArticleRow \cup {None}]
    BY <1>1, <1>8 DEF TablesOK
  <2>2. \A i \in Item : art'[i] # None => feed'[i[1]] # None
    BY <1>1, <1>8, <1>15, ArticleAssumption DEF ArticleAssumption, TablesOK, Grows
  <2> QED BY <1>1, <1>2, <1>13, <1>16, <2>1, <2>2 DEF TablesOK
<1>19. LocksRanked'
  BY <1>2 DEF LocksRanked
<1> QED BY <1>14, <1>15, <1>17, <1>18, <1>19 DEF TablesStep

\* A deletion by the administrator leaves a tombstone.
LEMMA DeleteArticleKeeps ==
  ASSUME RefreshInv, NEW i \in Item, DeleteArticle(i)
  PROVE  TablesStep /\ EtagsKept
<1>1. TablesOK /\ RemovalsMarked /\ LocksRanked
  BY DEF RefreshInv
<1>2. /\ art[i] # None /\ ~Locked(i[1]) /\ art' = [art EXCEPT ![i] = None]
      /\ feed' = Count(art', i[1]) /\ tomb' = tomb \cup {i}
      /\ gone' = gone \cup {[item |-> i, date |-> art[i].date]} /\ UNCHANGED <<cap, compact>>
  BY DEF DeleteArticle
<1>3. i[1] \in Feed /\ feed[i[1]] # None /\ art[i].date \in Nat
  BY <1>1, <1>2, Fields, ArticleAssumption DEF ArticleAssumption, TablesOK
<1>4. FeedsKept /\ EtagsKept
  BY <1>1, <1>2, <1>3, CountKeeps
<1>5. /\ art' \in [Item -> ArticleRow \cup {None}] /\ art'[i] = None
      /\ \A j \in Item : j # i => art'[j] = art[j]
  BY <1>1, <1>2 DEF TablesOK
<1>6. Grows
  <2>1. [item |-> i, date |-> art[i].date] \in gone'
    BY <1>2
  <2>2. \E g \in gone' : g.item = i
    BY <2>1
  <2>3. gone \subseteq gone'
    BY <1>2
  <2> QED BY <1>1, <1>4, <1>5, <2>2, <2>3, FeedsGrow DEF Grows
<1>7. LocksHeld
  BY <1>2, <1>5 DEF LocksHeld, Frozen
<1>8. gone' \subseteq [item : Item, date : Nat]
  BY <1>1, <1>2, <1>3 DEF TablesOK
<1>9. TablesOK'
  <2>1. \A j \in Item : art'[j] # None => feed'[j[1]] # None
    BY <1>1, <1>4, <1>5, ArticleAssumption DEF TablesOK, FeedsKept, ArticleAssumption
  <2>2. cap' # None => feed'[cap'.feed] # None
    BY <1>1, <1>2, <1>4 DEF TablesOK, FeedsKept, CapRow
  <2>3. tomb' \subseteq Item
    BY <1>1, <1>2 DEF TablesOK
  <2> QED BY <1>1, <1>2, <1>4, <1>5, <1>8, <2>1, <2>2, <2>3 DEF TablesOK, FeedsKept
<1>10. RemovalsMarked'
  <2>1. ASSUME NEW j \in tomb' PROVE \E g \in gone' : g.item = j
    <3>1. CASE j = i
      <4>1. [item |-> i, date |-> art[i].date] \in gone'
        BY <1>2
      <4> QED BY <3>1, <4>1
    <3>2. CASE j \in tomb
      BY <1>1, <1>2, <3>2 DEF RemovalsMarked
    <3> QED BY <1>2, <3>1, <3>2
  <2>2. ASSUME NEW g \in gone'
        PROVE  g.item \in tomb' \/ (feed'[g.item[1]] # None /\ g.date <= feed'[g.item[1]].mark)
    <3>1. CASE g \in gone
      <4>1. g.item[1] \in Feed
        BY <1>1, <3>1, ArticleAssumption DEF ArticleAssumption, TablesOK
      <4> QED BY <1>1, <1>2, <1>4, <3>1, <4>1 DEF RemovalsMarked, FeedsKept
    <3>2. CASE g = [item |-> i, date |-> art[i].date]
      BY <1>2, <3>2
    <3> QED BY <1>2, <3>1, <3>2
  <2> QED BY <2>1, <2>2 DEF RemovalsMarked
<1> QED BY <1>1, <1>4, <1>6, <1>7, <1>9, <1>10, RanksStay DEF TablesStep

-----------------------------------------------------------------------------
(* The other steps on the tables.                                            *)

\* Marks on an article change nothing about where it stands.
LEMMA MarkKeeps ==
  ASSUME RefreshInv, NEW i \in Item, NEW w \in ArticleRow, art[i] # None, w.date = art[i].date,
         art' = [art EXCEPT ![i] = w], UNCHANGED <<feed, tomb, gone, cap>>, compact' \in Item \cup {None}
  PROVE  TablesStep /\ EtagsKept
<1>1. TablesOK
  BY DEF RefreshInv
<1>2. FeedsKept /\ EtagsKept
  BY <1>1 DEF FeedsKept, EtagsKept, TablesOK
<1>3. w # None
  BY Fields
<1>4. art' \in [Item -> ArticleRow \cup {None}] /\ \A j \in Item : Frozen(j)
  BY <1>1, <1>3 DEF TablesOK, Frozen
<1> QED BY <1>1, <1>2, <1>4, ArticlesStay DEF TablesOK

\* Setting one mark on a row of articles.
LEMMA MarkFields ==
  ASSUME NEW w \in ArticleRow, NEW b \in BOOLEAN
  PROVE  /\ [w EXCEPT !.mined = b] \in ArticleRow /\ [w EXCEPT !.mined = b].date = w.date
         /\ [w EXCEPT !.full = b] \in ArticleRow /\ [w EXCEPT !.full = b].date = w.date
         /\ [w EXCEPT !.staged = b] \in ArticleRow /\ [w EXCEPT !.staged = b].date = w.date
BY DEF ArticleRow

\* Mining the links of an article.
LEMMA MineKeeps ==
  ASSUME RefreshInv, NEW i \in Item, Mine(i)
  PROVE  TablesStep /\ EtagsKept
<1> DEFINE w == [art[i] EXCEPT !.mined = TRUE]
<1>1. TablesOK /\ art[i] # None /\ art[i] \in ArticleRow
  BY DEF RefreshInv, Mine, TablesOK
<1>2. w \in ArticleRow /\ w.date = art[i].date
  BY <1>1, MarkFields
<1>3. art' = [art EXCEPT ![i] = w] /\ UNCHANGED <<feed, tomb, gone, cap>> /\ compact' \in Item \cup {None}
  BY <1>1 DEF Mine, TablesOK
<1> HIDE DEF w
<1> QED BY <1>1, <1>2, <1>3, MarkKeeps

\* Staging an article for deletion, or taking it back.
LEMMA StageKeeps ==
  ASSUME RefreshInv, NEW i \in Item, NEW staged \in BOOLEAN, Stage(i, staged)
  PROVE  TablesStep /\ EtagsKept
<1> DEFINE w == [art[i] EXCEPT !.staged = staged]
<1>1. TablesOK /\ art[i] # None /\ art[i] \in ArticleRow
  BY DEF RefreshInv, Stage, TablesOK
<1>2. w \in ArticleRow /\ w.date = art[i].date
  BY <1>1, MarkFields
<1>3. art' = [art EXCEPT ![i] = w] /\ UNCHANGED <<feed, tomb, gone, cap>> /\ compact' \in Item \cup {None}
  BY <1>1 DEF Stage, TablesOK
<1> HIDE DEF w
<1> QED BY <1>1, <1>2, <1>3, MarkKeeps

\* Compacting its body.
LEMMA CompactApplyKeeps ==
  ASSUME RefreshInv, CompactApply
  PROVE  TablesStep /\ EtagsKept
<1> DEFINE i == compact
<1> DEFINE w == [art[i] EXCEPT !.full = FALSE]
<1>1. TablesOK /\ i \in Item
  BY DEF RefreshInv, CompactApply, TablesOK
<1>2. UNCHANGED <<feed, tomb, gone, cap>> /\ compact' \in Item \cup {None}
  BY DEF CompactApply
<1>3. CASE Compactable(compact) /\ ~Locked(compact[1])
  <2>1. art[i] # None /\ art[i] \in ArticleRow
    BY <1>1, <1>3 DEF Compactable, TablesOK
  <2>2. w \in ArticleRow /\ w.date = art[i].date
    BY <2>1, MarkFields
  <2>3. art' = [art EXCEPT ![i] = w]
    BY <1>1, <1>3, <2>1 DEF CompactApply, TablesOK
  <2> HIDE DEF w, i
  <2> QED BY <1>1, <1>2, <2>1, <2>2, <2>3, MarkKeeps
<1>4. CASE ~(Compactable(compact) /\ ~Locked(compact[1]))
  <2>1. art' = art
    BY <1>4 DEF CompactApply
  <2>2. FeedsKept /\ EtagsKept /\ \A j \in Item : Frozen(j)
    BY <1>1, <1>2, <2>1 DEF FeedsKept, EtagsKept, TablesOK, Frozen
  <2> QED BY <1>1, <1>2, <2>1, <2>2, ArticlesStay DEF TablesOK
<1> QED BY <1>3, <1>4

\* Choosing what to compact.
LEMMA CompactPickKeeps ==
  ASSUME RefreshInv, NEW i \in Item, CompactPick(i)
  PROVE  TablesStep /\ EtagsKept
<1>1. TablesOK /\ UNCHANGED <<feed, art, tomb, gone, cap>> /\ compact' = i
  BY DEF RefreshInv, CompactPick
<1>2. FeedsKept /\ EtagsKept /\ \A j \in Item : Frozen(j)
  BY <1>1 DEF FeedsKept, EtagsKept, TablesOK, Frozen
<1> QED BY <1>1, <1>2, ArticlesStay DEF TablesOK

\* Choosing what to evict.
LEMMA CapRankKeeps ==
  ASSUME RefreshInv, NEW f \in Feed, NEW running \in BOOLEAN, CapRank(f, running)
  PROVE  TablesStep /\ EtagsKept
<1> DEFINE keep == running /\ Active(f)
<1> DEFINE ids == article_cap_candidates(f, keep)
<1>1. /\ TablesOK /\ UNCHANGED <<feed, art, tomb, gone, compact>> /\ feed[f] # None
      /\ cap' = [feed |-> f, keep |-> keep, ids |-> ids, step |-> "ranked"]
  BY DEF RefreshInv, CapRank
<1>2. FeedsKept /\ EtagsKept /\ \A j \in Item : Frozen(j)
  BY <1>1 DEF FeedsKept, EtagsKept, TablesOK, Frozen
<1>3. keep \in BOOLEAN
  BY DEF Active
<1>4. ids \in SUBSET Item
  BY DEF article_cap_candidates, Unprotected, Stored, ItemsOf
<1> HIDE DEF keep, ids
<1>5. cap' \in CapRow /\ cap'.step = "ranked" /\ cap'.feed = f
  BY <1>1, <1>3, <1>4 DEF CapRow
<1> QED BY <1>1, <1>2, <1>5, ArticlesStay DEF TablesOK

\* Archiving a feed and taking it back.
LEMMA ArchiveKeeps ==
  ASSUME RefreshInv, NEW f \in Feed, Archive(f) \/ Unarchive(f)
  PROVE  TablesStep /\ EtagsKept
<1>1. TablesOK /\ feed[f] # None /\ feed[f] \in FeedRow /\ UNCHANGED <<art, tomb, gone, cap, compact>>
  BY DEF RefreshInv, TablesOK, Archive, Unarchive, Active
<1>2. CASE Archive(f)
  <2> DEFINE w == [feed[f] EXCEPT !.archived = TRUE]
  <2>1. feed' = [feed EXCEPT ![f] = w]
    BY <1>1, <1>2 DEF Archive, TablesOK
  <2>2. w \in FeedRow /\ w.mark = feed[f].mark /\ w.etag = feed[f].etag
    BY <1>1, RowFields
  <2> HIDE DEF w
  <2> QED BY <1>1, <2>1, <2>2, OneRow, ArticlesUntouched
<1>3. CASE Unarchive(f)
  <2> DEFINE a == IF feed[f].reason = "excluded" \/ feed[f].admitted # None
                  THEN [by |-> "admin", ver |-> None] ELSE feed[f].admitted
  <2> DEFINE w == [feed[f] EXCEPT !.archived = FALSE, !.restored = TRUE, !.admitted = a]
  <2>1. feed' = [feed EXCEPT ![f] = w]
    BY <1>1, <1>3 DEF Unarchive, TablesOK
  <2>2. w \in FeedRow /\ w.mark = feed[f].mark /\ w.etag = feed[f].etag
    BY <1>1 DEF FeedRow
  <2> HIDE DEF w
  <2> QED BY <1>1, <2>1, <2>2, OneRow, ArticlesUntouched
<1> QED BY <1>2, <1>3

\* Every step of module Articles keeps the invariant.
LEMMA TablesKeep ==
  ASSUME RefreshInv, TablesNext, UNCHANGED <<server, refreshes, imports>>
  PROVE  RefreshKept
<1>1. TablesStep /\ EtagsKept
  <2>1. CASE CapLock
    BY <2>1, CapLockKeeps
  <2>2. CASE CapDelete
    BY <2>2, CapDeleteKeeps
  <2>3. CASE CompactApply
    BY <2>3, CompactApplyKeeps
  <2>4. ASSUME NEW f \in Feed, Subscribe(f) PROVE TablesStep /\ EtagsKept
    BY <2>4, TablesUntouched DEF Subscribe
  <2>5. ASSUME NEW f \in Feed, Archive(f) \/ Unarchive(f) PROVE TablesStep /\ EtagsKept
    BY <2>5, ArchiveKeeps
  <2>6. ASSUME NEW f \in Feed, NEW running \in BOOLEAN, CapRank(f, running) PROVE TablesStep /\ EtagsKept
    BY <2>6, CapRankKeeps
  <2>7. ASSUME NEW f \in subs, Unsubscribe(f) PROVE TablesStep /\ EtagsKept
    BY <2>7, TablesUntouched DEF Unsubscribe
  <2>8. ASSUME NEW i \in Item, Mine(i) PROVE TablesStep /\ EtagsKept
    BY <2>8, MineKeeps
  <2>9. ASSUME NEW i \in Item, CompactPick(i) PROVE TablesStep /\ EtagsKept
    BY <2>9, CompactPickKeeps
  <2>10. ASSUME NEW i \in Item, DeleteArticle(i) PROVE TablesStep /\ EtagsKept
    BY <2>10, DeleteArticleKeeps
  <2>11. ASSUME NEW i \in Item, NEW kind \in {"bookmark", "read", "fact"}, Refer(i, kind)
         PROVE  TablesStep /\ EtagsKept
    BY <2>11, TablesUntouched DEF Refer
  <2>12. ASSUME NEW i \in Item, NEW staged \in BOOLEAN, Stage(i, staged) PROVE TablesStep /\ EtagsKept
    BY <2>12, StageKeeps
  <2>13. ASSUME NEW r \in refs, Unrefer(r) PROVE TablesStep /\ EtagsKept
    BY <2>13, TablesUntouched DEF Unrefer
  <2> QED BY <2>1, <2>2, <2>3, <2>4, <2>5, <2>6, <2>7, <2>8, <2>9, <2>10, <2>11, <2>12, <2>13
          DEF TablesNext
<1>2. ServerOK'
  BY DEF RefreshInv, ServerOK
<1> QED BY <1>1, <1>2, StepKeeps DEF TablesStep, EtagsKept

-----------------------------------------------------------------------------
(* The steps of a refresh.                                                   *)

\* A refresh that reads.
LEMMA RefreshReads ==
  ASSUME RefreshInv, UNCHANGED <<feed, art, tomb, gone, cap, compact, server, imports>>,
         \A r \in refreshes' : r \in refreshes \/ RefreshOK(r)
  PROVE  RefreshKept
<1>1. TablesStep /\ EtagsKept /\ TablesOK
  BY TablesUntouched DEF RefreshInv
<1>2. ServerOK'
  BY DEF RefreshInv, ServerOK
<1>3. \A r \in refreshes' : RefreshOK(r)'
  <2>1. ASSUME NEW r, RefreshOK(r) PROVE GrowsAt(r.feed)
    BY <1>1, <2>1, GrowsThere DEF TablesStep, RefreshOK, RefreshRow
  <2> QED BY <1>1, <2>1, RefreshStays DEF RefreshInv
<1> QED BY <1>1, <1>2, <1>3, StepKeeps DEF TablesStep, EtagsKept

\* A refresh that ends, having written the row of its feed.
LEMMA RefreshWrites ==
  ASSUME RefreshInv, NEW r \in refreshes, NEW w \in FeedRow, w.mark = feed[r.feed].mark,
         w.etag = feed[r.feed].etag \/ w.etag = None \/ Vouched(r.feed, w.etag),
         feed' = [feed EXCEPT ![r.feed] = w],
         UNCHANGED <<art, tomb, gone, cap, compact, server, imports>>, refreshes' \subseteq refreshes
  PROVE  RefreshKept
<1>1. TablesOK /\ r.feed \in Feed /\ feed[r.feed] # None
  BY DEF RefreshInv, RefreshOK, RefreshRow
<1>2. FeedsKept
  BY <1>1, OneRow
<1>3. TablesStep
  BY <1>2, ArticlesUntouched
<1>4. ServerOK'
  BY DEF RefreshInv, ServerOK
<1>5. ASSUME NEW f \in Feed, feed'[f] # None, feed'[f].etag # None
      PROVE  feed[f] # None /\ (feed'[f].etag = feed[f].etag \/ Vouched(f, feed'[f].etag))
  <2>1. CASE f = r.feed
    <3>1. feed'[f] = w
      BY <1>1, <2>1 DEF TablesOK
    <3> QED BY <1>1, <1>5, <2>1, <3>1
  <2>2. CASE f # r.feed
    <3>1. feed'[f] = feed[f]
      BY <1>1, <2>2 DEF TablesOK
    <3> QED BY <1>5, <3>1
  <2> QED BY <2>1, <2>2
<1> QED BY <1>3, <1>4, <1>5, StepKeeps DEF TablesStep

\* A refresh begins with the validator stored, or none.
LEMMA BeginKeeps ==
  ASSUME RefreshInv, NEW p \in Process, NEW f \in Feed, Begin(p, f)
  PROVE  RefreshKept
<1> DEFINE gated == feed[f].admitted = None
<1> DEFINE r == [proc |-> p, feed |-> f, ask |-> Ask(f, p = Api), failures |-> feed[f].failures,
                 gated |-> gated, step |-> "fetch", ver |-> None, left |-> <<>>, by |-> None]
<1>1. /\ TablesOK /\ FeedsVouched /\ feed[f] # None /\ refreshes' = refreshes \cup {r}
      /\ UNCHANGED <<feed, art, tomb, gone, cap, compact, server, imports>>
  BY DEF RefreshInv, Begin, Active, Unread
<1>2. feed[f] \in FeedRow /\ feed[f].failures \in Nat /\ feed[f].etag \in Nat \cup {None}
  BY <1>1, Fields DEF TablesOK
<1>3. Ask(f, p = Api) \in Nat \cup {None} /\ (Ask(f, p = Api) # None => Vouched(f, Ask(f, p = Api)))
  BY <1>1, <1>2 DEF Ask, FeedsVouched
<1>4. <<>> \in Seq([item : Item, date : Nat, rev : Revision]) /\ <<>> \in Seq(EntryRow(f)) /\ gated \in BOOLEAN
  OBVIOUS
<1> HIDE DEF gated
<1>5. r \in RefreshRow
  BY <1>2, <1>3, <1>4 DEF RefreshRow
<1>6. r.feed = f /\ r.ask = Ask(f, p = Api) /\ r.step = "fetch" /\ r.left = <<>>
  OBVIOUS
<1> HIDE DEF r
<1>7. RefreshOK(r)
  BY <1>1, <1>3, <1>4, <1>5, <1>6 DEF RefreshOK
<1> QED BY <1>1, <1>7, RefreshReads

\* An answer is not modified, or brings the entries of the version that is served.
LEMMA FetchKeeps ==
  ASSUME RefreshInv, NEW r \in refreshes, Fetch(r)
  PROVE  RefreshKept
<1> DEFINE now == server[Site[r.feed]]
<1>1. RefreshOK(r) /\ r \in RefreshRow /\ r.feed \in Feed /\ feed[r.feed] # None
  BY DEF RefreshInv, RefreshOK, RefreshRow
<1>2. now \in Version(r.feed) /\ now \in Nat
  BY <1>1, RefreshAssumption DEF RefreshInv, ServerOK, RefreshAssumption, Version
<1>3. UNCHANGED <<feed, art, tomb, gone, cap, compact, server, imports>>
  BY DEF Fetch, Unread
<1>4. CASE r.ask = now
  <2> DEFINE q == [r EXCEPT !.step = "unmodified"]
  <2>1. refreshes' = Swap(refreshes, r, q)
    BY <1>4 DEF Fetch
  <2>2. q \in RefreshRow /\ q.feed = r.feed /\ q.ask = r.ask /\ q.step = "unmodified" /\ q.left = r.left
    BY <1>1 DEF RefreshRow
  <2> HIDE DEF q
  <2>3. RefreshOK(q)
    BY <1>1, <2>2 DEF RefreshOK
  <2> QED BY <1>3, <2>1, <2>3, RefreshReads DEF Swap
<1>5. CASE r.ask # now
  <2> DEFINE left == parse_feed(r.feed, now)
  <2> DEFINE step == IF r.gated THEN "gate" ELSE "ingest"
  <2> DEFINE q == [r EXCEPT !.ver = now, !.left = left, !.step = step]
  <2>1. refreshes' = Swap(refreshes, r, q)
    BY <1>5 DEF Fetch
  <2>2. left \in Seq(EntryRow(r.feed))
    BY <1>1, <1>2, EntriesTyped
  <2>3. left \in Seq([item : Item, date : Nat, rev : Revision])
    <3> HIDE DEF left
    <3> QED BY <2>2, EntriesListed
  <2>4. step \in {"gate", "ingest"}
    OBVIOUS
  <2>5. /\ q \in RefreshRow /\ q.feed = r.feed /\ q.ask = r.ask /\ q.step = step /\ q.left = left
        /\ q.ver = now
    <3> HIDE DEF left, step, now
    <3> QED BY <1>1, <1>2, <2>3, <2>4 DEF RefreshRow
  <2> HIDE DEF q, step
  <2>6. Downloaded(q)
    BY <1>2, <2>5 DEF Downloaded
  <2>7. RefreshOK(q)
    <3> HIDE DEF left
    <3> QED BY <1>1, <2>2, <2>4, <2>5, <2>6 DEF RefreshOK
  <2> QED BY <1>3, <2>1, <2>7, RefreshReads DEF Swap
<1> QED BY <1>4, <1>5

\* A failure is counted; the validators stay as they are.
LEMMA FailureKeeps ==
  ASSUME RefreshInv, NEW r \in refreshes, FetchFails(r) \/ StoreFails(r)
  PROVE  RefreshKept
<1>1. /\ \E reason \in {"fetch_failed", "ingest_failed"} : RecordFailure(r, reason)
      /\ UNCHANGED <<art, tomb, gone, cap, compact, server, imports>>
  BY DEF FetchFails, StoreFails, Unread
<1>2. PICK reason \in {"fetch_failed", "ingest_failed"} : RecordFailure(r, reason)
  BY <1>1
<1> DEFINE n == r.failures + 1
<1> DEFINE archived == feed[r.feed].archived \/ n >= MaxFailures
<1> DEFINE w == [feed[r.feed] EXCEPT !.failures = n, !.reason = reason, !.archived = archived]
<1>3. TablesOK /\ r.feed \in Feed /\ feed[r.feed] \in FeedRow /\ r.failures \in Nat
  BY DEF RefreshInv, RefreshOK, RefreshRow, TablesOK
<1>4. feed' = [feed EXCEPT ![r.feed] = w] /\ refreshes' \subseteq refreshes
  BY <1>2, <1>3 DEF RecordFailure, TablesOK
<1>5. n \in Nat /\ archived \in BOOLEAN
  BY <1>3, Fields
<1> HIDE DEF n, archived
<1>6. w \in FeedRow /\ w.mark = feed[r.feed].mark /\ w.etag = feed[r.feed].etag
  BY <1>3, <1>5 DEF FeedRow
<1> HIDE DEF w
<1> QED BY <1>1, <1>4, <1>6, RefreshWrites

\* The row of a feed that was refreshed.
LEMMA SucceededTyped ==
  ASSUME TablesOK, NEW r, r.feed \in Feed, feed[r.feed] # None, NEW etag \in Nat \cup {None}
  PROVE  LET w == [feed[r.feed] EXCEPT !.failures = 0, !.reason = "none", !.etag = etag]
         IN w \in FeedRow /\ w.mark = feed[r.feed].mark /\ w.etag = etag
<1>1. feed[r.feed] \in FeedRow
  BY DEF TablesOK
<1> QED BY <1>1 DEF FeedRow

\* An answer that nothing was modified stores the validator that was sent.
LEMMA UnmodifiedKeeps ==
  ASSUME RefreshInv, NEW r \in refreshes, Unmodified(r)
  PROVE  RefreshKept
<1>1. /\ TablesOK /\ RefreshOK(r) /\ r.feed \in Feed /\ feed[r.feed] # None
      /\ r.ask \in Nat \cup {None}
  BY DEF RefreshInv, RefreshOK, RefreshRow
<1> DEFINE w == Succeeded(r, r.ask)
<1>2. w \in FeedRow /\ w.mark = feed[r.feed].mark /\ w.etag = r.ask
  BY <1>1, SucceededTyped DEF Succeeded
<1>3. w.etag = None \/ Vouched(r.feed, w.etag)
  BY <1>1, <1>2 DEF RefreshOK
<1>4. /\ feed' = [feed EXCEPT ![r.feed] = w] /\ refreshes' \subseteq refreshes
      /\ UNCHANGED <<art, tomb, gone, cap, compact, server, imports>>
  BY DEF Unmodified, Unread
<1> HIDE DEF w
<1> QED BY <1>2, <1>3, <1>4, RefreshWrites

\* The validators of what was downloaded are stored when all of it has been ingested.
LEMMA CompleteKeeps ==
  ASSUME RefreshInv, NEW r \in refreshes, Complete(r)
  PROVE  RefreshKept
<1>1. /\ TablesOK /\ RefreshOK(r) /\ r.feed \in Feed /\ feed[r.feed] # None
      /\ r.by \in Process \cup {"kept", None} /\ r.step = "complete"
  BY DEF RefreshInv, RefreshOK, RefreshRow, Complete
<1>2. Vouched(r.feed, r.ver)
  BY <1>1 DEF RefreshOK, Downloaded, Vouched
<1>3. r.ver \in Nat
  BY <1>2 DEF Vouched, Version
<1> DEFINE judged == r.gated /\ Cardinality(canonical_item_urls(r.feed, r.ver)) >= MinItems
<1> DEFINE row == Succeeded(r, r.ver)
<1> DEFINE a == [by |-> r.by, ver |-> r.ver]
<1> DEFINE w == IF judged THEN [row EXCEPT !.admitted = a] ELSE row
<1>4. row \in FeedRow /\ row.mark = feed[r.feed].mark /\ row.etag = r.ver
  BY <1>1, <1>3, SucceededTyped DEF Succeeded
<1>5. a \in [by : Process \cup {"catalog", "admin", "kept", None}, ver : Nat \cup {None}]
  BY <1>1, <1>3
<1>6. /\ feed' = [feed EXCEPT ![r.feed] = w] /\ refreshes' \subseteq refreshes
      /\ UNCHANGED <<art, tomb, gone, cap, compact, server, imports>>
  BY DEF Complete, Unread
<1> HIDE DEF judged, row, a
<1>7. w \in FeedRow /\ w.mark = feed[r.feed].mark /\ w.etag = r.ver
  <2> DEFINE v == [row EXCEPT !.admitted = a]
  <2>1. v \in FeedRow /\ v.mark = row.mark /\ v.etag = row.etag
    BY <1>4, <1>5 DEF FeedRow
  <2> HIDE DEF v
  <2> QED BY <1>4, <2>1 DEF v
<1> HIDE DEF w
<1> QED BY <1>2, <1>6, <1>7, RefreshWrites

\* A refresh that moves on with what it downloaded.
LEMMA MovesOn ==
  ASSUME RefreshInv, NEW r \in refreshes, Downloaded(r), NEW step \in {"rejected", "exclude", "ingest"},
         NEW by \in Process \cup {"kept", None},
         UNCHANGED <<feed, art, tomb, gone, cap, compact, server, imports>>,
         refreshes' = Swap(refreshes, r, [r EXCEPT !.step = step, !.by = by])
  PROVE  RefreshKept
<1> DEFINE q == [r EXCEPT !.step = step, !.by = by]
<1>1. RefreshOK(r) /\ r \in RefreshRow
  BY DEF RefreshInv, RefreshOK
<1>2. /\ q \in RefreshRow /\ q.feed = r.feed /\ q.ask = r.ask /\ q.step = step
      /\ q.left = r.left /\ q.ver = r.ver
  BY <1>1 DEF RefreshRow
<1>3. refreshes' = Swap(refreshes, r, q)
  OBVIOUS
<1> HIDE DEF q
<1>4. Downloaded(q)
  BY <1>2 DEF Downloaded
<1>5. RefreshOK(q)
  BY <1>1, <1>2, <1>4 DEF RefreshOK
<1> QED BY <1>3, <1>5, RefreshReads DEF Swap

\* The gate rejects a feed, or lets it ingest.
LEMMA JudgeKeeps ==
  ASSUME RefreshInv, NEW r \in refreshes, NEW found \in BOOLEAN, Judge(r, found)
  PROVE  RefreshKept
<1>1. /\ r \in RefreshRow /\ r.by \in Process \cup {"kept", None} /\ r.proc \in Process /\ Downloaded(r)
      /\ UNCHANGED <<feed, art, tomb, gone, cap, compact, server, imports>>
  BY DEF RefreshInv, RefreshOK, RefreshRow, Judge, Unread
<1>2. CASE new_source_rejection(r.feed, r.ver, found)
  <2>1. [r EXCEPT !.step = "rejected"] = [r EXCEPT !.step = "rejected", !.by = r.by]
    BY <1>1 DEF RefreshRow
  <2>2. refreshes' = Swap(refreshes, r, [r EXCEPT !.step = "rejected", !.by = r.by])
    BY <1>2, <2>1 DEF Judge
  <2> QED BY <1>1, <2>2, MovesOn
<1>3. CASE ~new_source_rejection(r.feed, r.ver, found)
  <2> DEFINE by == IF found THEN r.proc ELSE "kept"
  <2>1. refreshes' = Swap(refreshes, r, [r EXCEPT !.step = "ingest", !.by = by])
    BY <1>3 DEF Judge
  <2>2. by \in Process \cup {"kept", None}
    BY <1>1
  <2> HIDE DEF by
  <2> QED BY <1>1, <2>1, <2>2, MovesOn
<1> QED BY <1>2, <1>3

\* A feed with subscribers is let in after all.
LEMMA CountSubscribersKeeps ==
  ASSUME RefreshInv, NEW r \in refreshes, CountSubscribers(r)
  PROVE  RefreshKept
<1>1. /\ r \in RefreshRow /\ r.by \in Process \cup {"kept", None} /\ Downloaded(r)
      /\ UNCHANGED <<feed, art, tomb, gone, cap, compact, server, imports>>
  BY DEF RefreshInv, RefreshOK, RefreshRow, CountSubscribers, Unread
<1>2. CASE r.feed \in subs
  BY <1>1, <1>2, MovesOn DEF CountSubscribers
<1>3. CASE r.feed \notin subs
  <2>1. [r EXCEPT !.step = "exclude"] = [r EXCEPT !.step = "exclude", !.by = r.by]
    BY <1>1 DEF RefreshRow
  <2>2. refreshes' = Swap(refreshes, r, [r EXCEPT !.step = "exclude", !.by = r.by])
    BY <1>3, <2>1 DEF CountSubscribers
  <2> QED BY <1>1, <2>2, MovesOn
<1> QED BY <1>2, <1>3

\* One that is rejected and has none is archived.
LEMMA ExcludeKeeps ==
  ASSUME RefreshInv, NEW r \in refreshes, Exclude(r)
  PROVE  RefreshKept
<1>1. TablesOK /\ r.feed \in Feed /\ feed[r.feed] # None /\ feed[r.feed] \in FeedRow
  BY DEF RefreshInv, RefreshOK, RefreshRow, TablesOK
<1> DEFINE w == [feed[r.feed] EXCEPT !.archived = TRUE, !.reason = "excluded"]
<1>2. /\ feed' = [feed EXCEPT ![r.feed] = w] /\ refreshes' \subseteq refreshes
      /\ UNCHANGED <<art, tomb, gone, cap, compact, server, imports>>
  BY <1>1 DEF Exclude, Unread, TablesOK
<1>3. w \in FeedRow /\ w.mark = feed[r.feed].mark /\ w.etag = feed[r.feed].etag
  BY <1>1 DEF FeedRow
<1> HIDE DEF w
<1> QED BY <1>2, <1>3, RefreshWrites

\* The entries left after the first one.
LEMMA RestOfEntries ==
  ASSUME NEW T, NEW s \in Seq(T), s # <<>>
  PROVE  /\ Head(s) \in T /\ Tail(s) \in Seq(T)
         /\ \A k \in DOMAIN s : s[k] = Head(s) \/ \E m \in DOMAIN Tail(s) : Tail(s)[m] = s[k]
         /\ Len(s) <= 1 => Tail(s) = <<>>
<1>1. Head(s) \in T /\ Tail(s) \in Seq(T) /\ Len(s) \in Nat /\ Len(s) >= 1
  OBVIOUS
<1>2. Len(Tail(s)) = Len(s) - 1 /\ \A m \in 1..(Len(s) - 1) : Tail(s)[m] = s[m + 1]
  OBVIOUS
<1>3. ASSUME NEW k \in DOMAIN s PROVE s[k] = Head(s) \/ \E m \in DOMAIN Tail(s) : Tail(s)[m] = s[k]
  <2>1. CASE k = 1
    BY <2>1
  <2>2. CASE k # 1
    <3>1. k - 1 \in DOMAIN Tail(s) /\ Tail(s)[k - 1] = s[k]
      BY <1>1, <1>2, <2>2
    <3> QED BY <3>1
  <2> QED BY <2>1, <2>2
<1>4. Len(s) <= 1 => Tail(s) = <<>>
  BY <1>1, <1>2
<1> QED BY <1>1, <1>3, <1>4

\* An entry moves from what is left to what is accounted for.
LEMMA IngestStepKeeps ==
  ASSUME RefreshInv, NEW r \in refreshes, Ingest(r)
  PROVE  RefreshKept
<1>1. /\ TablesOK /\ RefreshOK(r) /\ r \in RefreshRow /\ r.feed \in Feed /\ feed[r.feed] # None
      /\ r.left \in Seq(EntryRow(r.feed)) /\ Downloaded(r) /\ r.step = "ingest"
  BY DEF RefreshInv, RefreshOK, RefreshRow, Ingest
<1> DEFINE left == IF r.left = <<>> THEN <<>> ELSE Tail(r.left)
<1> DEFINE step == IF Len(r.left) <= 1 THEN "complete" ELSE "ingest"
<1> DEFINE q == [r EXCEPT !.left = left, !.step = step]
<1>2. /\ UNCHANGED <<tomb, gone, cap, compact, server, imports>>
      /\ refreshes' = Swap(refreshes, r, q)
  BY <1>1 DEF Ingest, Unread, RefreshRow
<1>3. /\ left \in Seq(EntryRow(r.feed)) /\ step \in {"ingest", "complete"}
      /\ step = "complete" => left = <<>>
      /\ \A k \in DOMAIN r.left : r.left[k] = Head(r.left) \/ \E m \in DOMAIN left : left[m] = r.left[k]
  <2>1. CASE r.left = <<>>
    BY <2>1
  <2>2. CASE r.left # <<>>
    BY <1>1, <2>2, RestOfEntries
  <2> QED BY <2>1, <2>2
<1>4. left \in Seq([item : Item, date : Nat, rev : Revision])
  <2> HIDE DEF left
  <2> QED BY <1>3, EntriesListed
<1> HIDE DEF left, step
<1>5. /\ q \in RefreshRow /\ q.feed = r.feed /\ q.ask = r.ask /\ q.step = step
      /\ q.left = left /\ q.ver = r.ver
  BY <1>1, <1>3, <1>4 DEF RefreshRow
<1> HIDE DEF q
<1>6. TablesStep /\ EtagsKept /\ (r.left # <<>> => Covered(r.feed, Head(r.left))')
  <2>1. CASE r.left = <<>>
    BY <1>2, <2>1, TablesUntouched DEF Ingest
  <2>2. CASE r.left # <<>>
    <3>1. Head(r.left) \in EntryRow(r.feed)
      BY <1>1, <2>2
    <3>2. ingest_article_batch(r.feed, Head(r.left).item, Head(r.left).date, Head(r.left).rev)
      BY <2>2 DEF Ingest
    <3> QED BY <1>1, <1>2, <3>1, <3>2, IngestKeeps
  <2> QED BY <2>1, <2>2
<1>7. Downloaded(q)'
  <2>1. r.ver \in Version(r.feed)
    BY <1>1 DEF Downloaded
  <2> DEFINE e(n) == parse_feed(r.feed, r.ver)[n]
  <2>2. SUFFICES ASSUME NEW n \in DOMAIN parse_feed(r.feed, r.ver)
                 PROVE  Covered(r.feed, e(n))' \/ \E m \in DOMAIN left : left[m] = e(n)
    BY <1>5, <2>1 DEF Downloaded, Covered
  <2>3. e(n) \in EntryRow(r.feed)
    BY <1>1, <2>1, EntriesTyped
  <2>4. CASE Covered(r.feed, e(n))
    <3> DEFINE x == e(n)
    <3>1. x \in EntryRow(r.feed) /\ Covered(r.feed, x)
      BY <2>3, <2>4
    <3> HIDE DEF x
    <3>2. Covered(r.feed, x)'
      BY <1>1, <1>6, <3>1, CoveredStays, GrowsThere DEF TablesStep
    <3> QED BY <3>2 DEF x, Covered
  <2>5. CASE \E k \in DOMAIN r.left : r.left[k] = e(n)
    <3>1. r.left # <<>>
      BY <2>5
    <3>2. CASE e(n) = Head(r.left)
      BY <1>6, <3>1, <3>2 DEF Covered
    <3>3. CASE e(n) # Head(r.left)
      BY <1>3, <2>5, <3>3
    <3> QED BY <3>2, <3>3
  <2> QED BY <1>1, <2>4, <2>5 DEF Downloaded
<1>8. RefreshOK(q)'
  <2>1. q.ask # None => Vouched(q.feed, q.ask)'
    <3>1. SUFFICES ASSUME r.ask # None PROVE Vouched(r.feed, r.ask)'
      BY <1>5 DEF Vouched, Covered
    <3>2. Vouched(r.feed, r.ask)
      BY <1>1, <3>1 DEF RefreshOK
    <3> QED BY <1>1, <1>6, <3>2, VouchedStays, GrowsThere DEF TablesStep
  <2>2. feed'[q.feed] # None
    BY <1>1, <1>5, <1>6 DEF TablesStep, Grows
  <2> QED BY <1>3, <1>5, <1>7, <2>1, <2>2 DEF RefreshOK
<1>9. \A p \in refreshes' : p \in refreshes \/ RefreshOK(p)'
  BY <1>2, <1>8 DEF Swap
<1>10. ServerOK'
  BY <1>2 DEF RefreshInv, ServerOK
<1> QED BY <1>2, <1>6, <1>9, <1>10, StepKeeps DEF TablesStep, EtagsKept

-----------------------------------------------------------------------------
(* New feeds, imports and the rest.                                          *)

\* A row that is added has no validator and no watermark yet.
LEMMA NewRowKeeps ==
  ASSUME TablesOK, NEW f \in Feed, feed[f] = None, feed' = [feed EXCEPT ![f] = NewRow]
  PROVE  FeedsKept /\ EtagsKept /\ feed'[f] # None
<1>1. NewRow \in FeedRow /\ NewRow.etag = None
  BY DEF NewRow, FeedRow
<1>2. NewRow # None
  BY <1>1, Fields
<1> QED BY <1>1, <1>2 DEF TablesOK, FeedsKept, EtagsKept

\* A step of an import that neither ingests nor touches a refresh.
LEMMA ImportSteps ==
  ASSUME RefreshInv, FeedsKept, EtagsKept,
         UNCHANGED <<art, tomb, gone, cap, compact, server, refreshes>>,
         \A m \in imports' : m \in imports \/ ImportOK(m)'
  PROVE  RefreshKept
<1>1. TablesStep
  BY ArticlesUntouched
<1>2. ServerOK'
  BY DEF RefreshInv, ServerOK
<1> QED BY <1>1, <1>2, StepKeeps DEF TablesStep, EtagsKept

\* A feed added without a fetch.
LEMMA NewFeedKeeps ==
  ASSUME RefreshInv, NEW f \in Feed, NewFeed(f)
  PROVE  RefreshKept
<1>1. TablesOK
  BY DEF RefreshInv
<1> QED BY <1>1, NewRowKeeps, ImportSteps DEF NewFeed, Unread

\* An import begins with what the site serves.
LEMMA ImportKeeps ==
  ASSUME RefreshInv, NEW f \in Feed, NEW kind \in {"discover", "opml", "admin"}, NEW found \in BOOLEAN,
         Import(f, kind, found)
  PROVE  RefreshKept
<1>1. UNCHANGED <<feed, art, tomb, gone, cap, compact, server, refreshes>>
  BY DEF Import, Rest
<1>2. FeedsKept /\ EtagsKept
  BY <1>1 DEF RefreshInv, TablesOK, FeedsKept, EtagsKept
<1>3. PICK left : left = parse_feed(f, server[Site[f]])
  OBVIOUS
<1> DEFINE new == [feed |-> f, kind |-> kind, step |-> "insert", left |-> left, mirror |-> None]
<1>4. PICK m : /\ imports' = imports \cup {m}
               /\ m = new \/ \E g \in Feed : m = [new EXCEPT !.step = "mirror", !.mirror = g]
  BY <1>3 DEF Import, find_mirror_source
<1>5. left \in Seq(EntryRow(f))
  <2>1. server[Site[f]] \in Version(f)
    BY RefreshAssumption DEF RefreshInv, ServerOK, RefreshAssumption, Version
  <2> QED BY <1>3, <2>1, EntriesTyped
<1>6. left \in Seq([item : Item, date : Nat, rev : Revision])
  BY <1>5, EntriesListed
<1>7. /\ m \in ImportRow /\ m.feed = f /\ m.left = left
      /\ m.step \in {"insert", "mirror"} /\ (m.step = "mirror" => m.mirror \in Feed)
  <2> HIDE DEF new
  <2>1. new \in ImportRow /\ new.feed = f /\ new.left = left /\ new.step = "insert"
    BY <1>6 DEF ImportRow, new
  <2>2. ASSUME NEW g \in Feed, m = [new EXCEPT !.step = "mirror", !.mirror = g]
        PROVE  m \in ImportRow /\ m.feed = f /\ m.left = left /\ m.step = "mirror" /\ m.mirror = g
    BY <2>1, <2>2 DEF ImportRow
  <2> QED BY <1>4, <2>1, <2>2
<1>8. ImportOK(m)'
  BY <1>5, <1>7 DEF ImportOK
<1>9. \A x \in imports' : x \in imports \/ ImportOK(x)'
  BY <1>4, <1>8
<1> QED BY <1>1, <1>2, <1>9, ImportSteps

\* Reading the mirror again.
LEMMA ImportMirrorKeeps ==
  ASSUME RefreshInv, NEW m \in imports, ImportMirror(m)
  PROVE  RefreshKept
<1>1. TablesOK /\ ImportOK(m) /\ m \in ImportRow /\ m.feed \in Feed /\ m.mirror \in Feed
  BY DEF RefreshInv, ImportOK, ImportRow, ImportMirror
<1>2. UNCHANGED <<feed, art, tomb, gone, cap, compact, server, refreshes>>
  BY DEF ImportMirror, Rest
<1>3. FeedsKept /\ EtagsKept
  BY <1>1, <1>2 DEF TablesOK, FeedsKept, EtagsKept
<1> DEFINE q == [m EXCEPT !.step = "insert", !.mirror = None]
<1> DEFINE p == [m EXCEPT !.feed = m.mirror, !.kind = "opml", !.step = "subscribe", !.left = <<>>, !.mirror = None]
<1>4. \/ imports' = Swap(imports, m, q)
      \/ imports' = imports \ {m}
      \/ Active(m.mirror) /\ imports' = Swap(imports, m, p)
  BY DEF ImportMirror
<1>5. q \in ImportRow /\ q.feed = m.feed /\ q.left = m.left /\ q.step = "insert"
  BY <1>1 DEF ImportRow
<1>6. <<>> \in Seq([item : Item, date : Nat, rev : Revision]) /\ <<>> \in Seq(EntryRow(m.mirror))
  OBVIOUS
<1>7. p \in ImportRow /\ p.feed = m.mirror /\ p.left = <<>> /\ p.step = "subscribe"
  BY <1>1, <1>6 DEF ImportRow
<1> HIDE DEF p, q
<1>8. ImportOK(q)'
  BY <1>1, <1>5 DEF ImportOK
<1>9. Active(m.mirror) => ImportOK(p)'
  BY <1>1, <1>2, <1>6, <1>7 DEF ImportOK, Active
<1> QED BY <1>2, <1>3, <1>4, <1>8, <1>9, ImportSteps DEF Swap

\* Inserting the feed, if nobody has.
LEMMA ImportInsertKeeps ==
  ASSUME RefreshInv, NEW m \in imports, ImportInsert(m)
  PROVE  RefreshKept
<1>1. TablesOK /\ ImportOK(m) /\ m \in ImportRow /\ m.feed \in Feed
  BY DEF RefreshInv, ImportOK, ImportRow
<1>2. UNCHANGED <<art, tomb, gone, cap, compact, server, refreshes>>
  BY DEF ImportInsert, Rest
<1>3. FeedsKept /\ EtagsKept /\ feed'[m.feed] # None
  <2>1. CASE feed[m.feed] = None
    BY <1>1, <2>1, NewRowKeeps DEF ImportInsert
  <2>2. CASE feed[m.feed] # None
    BY <1>1, <2>2 DEF ImportInsert, TablesOK, FeedsKept, EtagsKept
  <2> QED BY <2>1, <2>2
<1> DEFINE q == [m EXCEPT !.step = "subscribe"]
<1>4. q \in ImportRow /\ q.feed = m.feed /\ q.left = m.left /\ q.step # "mirror"
  BY <1>1 DEF ImportRow
<1>5. imports' = imports \ {m} \/ imports' = Swap(imports, m, q)
  BY DEF ImportInsert
<1> HIDE DEF q
<1>6. ImportOK(q)'
  BY <1>1, <1>3, <1>4 DEF ImportOK
<1> QED BY <1>2, <1>3, <1>5, <1>6, ImportSteps DEF Swap

\* Subscribing the reader.
LEMMA ImportSubscribeKeeps ==
  ASSUME RefreshInv, NEW m \in imports, ImportSubscribe(m)
  PROVE  RefreshKept
<1>1. TablesOK /\ ImportOK(m) /\ m \in ImportRow /\ m.feed \in Feed /\ m.step = "subscribe"
  BY DEF RefreshInv, ImportOK, ImportRow, ImportSubscribe
<1>2. UNCHANGED <<feed, art, tomb, gone, cap, compact, server, refreshes>>
  BY DEF ImportSubscribe, Rest
<1>3. FeedsKept /\ EtagsKept
  BY <1>1, <1>2 DEF TablesOK, FeedsKept, EtagsKept
<1> DEFINE q == [m EXCEPT !.step = "ingest"]
<1>4. q \in ImportRow /\ q.feed = m.feed /\ q.left = m.left /\ q.step # "mirror"
  BY <1>1 DEF ImportRow
<1>5. imports' = imports \ {m} \/ imports' = Swap(imports, m, q)
  BY DEF ImportSubscribe
<1> HIDE DEF q
<1>6. ImportOK(q)'
  BY <1>1, <1>2, <1>4 DEF ImportOK
<1> QED BY <1>2, <1>3, <1>5, <1>6, ImportSteps DEF Swap

\* Storing its articles.
LEMMA ImportIngestKeeps ==
  ASSUME RefreshInv, NEW m \in imports, ImportIngest(m)
  PROVE  RefreshKept
<1>1. /\ TablesOK /\ ImportOK(m) /\ m \in ImportRow /\ m.feed \in Feed /\ m.step = "ingest"
      /\ m.left \in Seq(EntryRow(m.feed)) /\ feed[m.feed] # None
  BY DEF RefreshInv, ImportOK, ImportRow, ImportIngest
<1>2. UNCHANGED <<tomb, gone, cap, compact, server, refreshes>>
  BY DEF ImportIngest, Rest
<1> DEFINE left == Tail(m.left)
<1> DEFINE q == [m EXCEPT !.left = left]
<1>3. Head(m.left) \in EntryRow(m.feed) /\ left \in Seq(EntryRow(m.feed))
  BY <1>1, RestOfEntries DEF ImportIngest
<1>4. imports' = Swap(imports, m, q)
  BY <1>1 DEF ImportRow, ImportIngest
<1>5. TablesStep /\ EtagsKept
  BY <1>1, <1>2, <1>3, IngestKeeps DEF ImportIngest
<1> HIDE DEF left
<1>6. left \in Seq([item : Item, date : Nat, rev : Revision])
  BY <1>3, EntriesListed
<1>7. q \in ImportRow /\ q.feed = m.feed /\ q.left = left /\ q.step = "ingest"
  BY <1>1, <1>6 DEF ImportRow
<1> HIDE DEF q
<1>8. ImportOK(q)'
  BY <1>1, <1>3, <1>5, <1>7 DEF ImportOK, TablesStep, Grows
<1>9. ServerOK'
  BY <1>2 DEF RefreshInv, ServerOK
<1>10. \A x \in imports' : x \in imports \/ ImportOK(x)'
  BY <1>4, <1>8 DEF Swap
<1> QED BY <1>2, <1>5, <1>9, <1>10, StepKeeps DEF TablesStep, EtagsKept

\* The end of an import.
LEMMA ImportEndsKeeps ==
  ASSUME RefreshInv, NEW m \in imports, ImportEnds(m)
  PROVE  RefreshKept
<1>1. UNCHANGED <<feed, art, tomb, gone, cap, compact, server, refreshes>> /\ imports' = imports \ {m}
  BY DEF ImportEnds, Rest
<1>2. FeedsKept /\ EtagsKept
  BY <1>1 DEF RefreshInv, TablesOK, FeedsKept, EtagsKept
<1> QED BY <1>1, <1>2, ImportSteps

\* A site publishes the next version, and a process crashes.
LEMMA PublishKeeps ==
  ASSUME RefreshInv, NEW s \in DOMAIN Document, Publish(s)
  PROVE  RefreshKept
<1>1. UNCHANGED <<feed, art, tomb, gone, cap, compact, refreshes, imports>>
  BY DEF Publish
<1>2. TablesStep /\ EtagsKept
  BY <1>1, TablesUntouched
<1>3. ServerOK'
  BY RefreshAssumption DEF RefreshInv, ServerOK, RefreshAssumption, Publish
<1> QED BY <1>1, <1>2, <1>3, StepKeeps DEF TablesStep, EtagsKept

\* A feed that an administrator deletes takes with it all that is its own; the other feeds
\* stay as they are.
Deleted(f) ==
  /\ feed[f].archived /\ ~Locked(f) /\ feed'[f] = None
  /\ \A i \in ItemsOf(f) : art'[i] = None /\ i \notin tomb' /\ i \notin Held({"bookmark", "read", "fact"})'
  /\ f \notin subs' /\ \A r \in refreshes' : r.feed # f

\* The deletion of a feed leaves the others so, and keeps the invariant.
LEMMA CleanupKeeps ==
  ASSUME RefreshInv, NEW c \in Feed, Cleanup(c)
  PROVE  /\ RefreshInv' /\ feed[c] # None /\ Deleted(c)
         /\ \A f \in Feed : f # c /\ feed[f] # None => GrowsAt(f)
         /\ \A f \in Feed : f # c => feed'[f] = feed[f]
         /\ \A i \in Item : art'[i] = IF i[1] = c THEN None ELSE art[i]
         /\ \A i \in tomb : i[1] # c => i \in tomb'
<1>1. /\ TablesOK /\ RemovalsMarked /\ LocksRanked /\ FeedsVouched /\ ServerOK
      /\ \A r \in refreshes : RefreshOK(r)
      /\ \A m \in imports : ImportOK(m)
  BY DEF RefreshInv
<1>2. /\ feed[c] # None /\ feed[c].archived /\ ~Locked(c)
      /\ feed' = [feed EXCEPT ![c] = None]
      /\ art' = [i \in Item |-> IF i[1] = c THEN None ELSE art[i]]
      /\ tomb' = {i \in tomb : i[1] # c} /\ gone' = {g \in gone : g.item[1] # c}
      /\ refs' = {r \in refs : r[1][1] # c} /\ subs' = subs \ {c}
      /\ cap' = IF cap # None /\ cap.feed = c THEN None ELSE cap
      /\ compact' = IF compact # None /\ compact[1] = c THEN None ELSE compact
      /\ refreshes' = {r \in refreshes : r.feed # c}
      /\ imports' = {m \in imports : m.feed # c \/ m.step \in {"mirror", "insert"}}
      /\ server' = server
  BY DEF Cleanup, DeleteFeed
<1>3. feed'[c] = None /\ \A f \in Feed : f # c => feed'[f] = feed[f]
  BY <1>1, <1>2 DEF TablesOK
<1>4. \A i \in Item : art'[i] = IF i[1] = c THEN None ELSE art[i]
  BY <1>2
<1>5. \A i \in Item : i[1] \in Feed
  BY ArticleAssumption DEF ArticleAssumption
<1>6. ASSUME NEW f \in Feed, f # c, feed[f] # None PROVE GrowsAt(f)
  <2>1. feed'[f] = feed[f] /\ feed[f].mark \in Nat
    BY <1>1, <1>3, <1>6, Fields DEF TablesOK
  <2>2. \A i \in ItemsOf(f) : art'[i] = art[i]
    BY <1>4, <1>6 DEF ItemsOf
  <2>3. \A g \in gone : g.item[1] = f => g \in gone'
    BY <1>2, <1>6
  <2>4. feed'[f] # None /\ feed'[f].mark \in Nat /\ feed'[f].mark >= feed[f].mark
    BY <1>6, <2>1
  <2> QED BY <2>2, <2>3, <2>4 DEF GrowsAt
<1>7. TablesOK'
  <2>1. feed' \in [Feed -> FeedRow \cup {None}] /\ art' \in [Item -> ArticleRow \cup {None}]
    BY <1>1, <1>2 DEF TablesOK
  <2>2. \A i \in Item : art'[i] # None => feed'[i[1]] # None
    BY <1>1, <1>3, <1>4, <1>5 DEF TablesOK
  <2>3. cap' \in CapRow \cup {None} /\ (cap' # None => feed'[cap'.feed] # None)
    BY <1>1, <1>2, <1>3 DEF TablesOK, CapRow
  <2>4. tomb' \subseteq Item /\ gone' \subseteq [item : Item, date : Nat] /\ compact' \in Item \cup {None}
    BY <1>1, <1>2 DEF TablesOK
  <2> QED BY <2>1, <2>2, <2>3, <2>4 DEF TablesOK
<1>8. RemovalsMarked'
  <2>1. ASSUME NEW i \in tomb' PROVE \E g \in gone' : g.item = i
    BY <1>1, <1>2 DEF RemovalsMarked
  <2>2. ASSUME NEW g \in gone'
        PROVE  g.item \in tomb' \/ (feed'[g.item[1]] # None /\ g.date <= feed'[g.item[1]].mark)
    <3>1. g \in gone /\ g.item \in Item /\ g.item[1] \in Feed /\ g.item[1] # c
      BY <1>1, <1>2, <1>5 DEF TablesOK
    <3> QED BY <1>1, <1>2, <1>3, <3>1 DEF RemovalsMarked
  <2> QED BY <2>1, <2>2 DEF RemovalsMarked
<1>9. LocksRanked'
  <2>1. SUFFICES ASSUME cap' = cap, cap # None, cap.step = "locked", cap.feed # c, NEW i \in cap.ids
                 PROVE  /\ i \in Stored(cap.feed)'
                        /\ Cardinality(Newer(i, Kept(cap.feed, cap.ids))') >= Cap
    BY <1>2 DEF LocksRanked
  <2>2. \A j \in ItemsOf(cap.feed) : art'[j] = art[j]
    BY <1>4, <2>1 DEF ItemsOf
  <2>3. Stored(cap.feed)' = Stored(cap.feed)
    BY <2>1, <2>2 DEF Stored
  <2>4. i \in Stored(cap.feed) /\ Cardinality(Newer(i, Kept(cap.feed, cap.ids))) >= Cap
    BY <1>1, <2>1 DEF LocksRanked
  <2>5. Newer(i, Kept(cap.feed, cap.ids))' = Newer(i, Kept(cap.feed, cap.ids))
    BY <2>1, <2>2, <2>3, <2>4 DEF Newer, Kept, Stored
  <2> QED BY <2>3, <2>4, <2>5
<1>10. FeedsVouched'
  <2>1. SUFFICES ASSUME NEW f \in Feed, feed'[f] # None, NEW ver, ver = feed'[f].etag, ver # None
                 PROVE  Vouched(f, ver)'
    BY DEF FeedsVouched, Vouched, Covered
  <2>2. f # c /\ Vouched(f, ver) /\ feed[f] # None
    BY <1>1, <1>3, <2>1 DEF FeedsVouched
  <2> QED BY <1>1, <1>6, <2>2, VouchedStays
<1>11. \A r \in refreshes' : RefreshOK(r)'
  <2>1. ASSUME NEW r \in refreshes' PROVE RefreshOK(r) /\ GrowsAt(r.feed)
    BY <1>1, <1>2, <1>6 DEF RefreshOK, RefreshRow
  <2> QED BY <1>1, <2>1, RefreshStays
<1>12. \A m \in imports' : ImportOK(m)'
  BY <1>1, <1>2, <1>3 DEF ImportOK, ImportRow
<1>13. RefreshInv'
  BY <1>1, <1>2, <1>7, <1>8, <1>9, <1>10, <1>11, <1>12 DEF RefreshInv, ServerOK
<1>14. Deleted(c)
  BY <1>2, <1>3, <1>4 DEF Deleted, ItemsOf, Held
<1> QED BY <1>2, <1>3, <1>4, <1>6, <1>13, <1>14

\* Every step keeps the invariant, and takes nothing away that it does not write down,
\* unless it deletes a feed.
LEMMA EveryStepKeeps ==
  ASSUME RefreshInv, [Next]_vars
  PROVE  RefreshKept \/ \E c \in Feed : Cleanup(c)
<1>1. CASE TablesNext /\ UNCHANGED <<server, refreshes, imports>>
  BY <1>1, TablesKeep
<1>2. ASSUME NEW s \in DOMAIN Document, Publish(s) PROVE RefreshKept
  BY <1>2, PublishKeeps
<1>3. ASSUME NEW p \in Process, Crash(p) PROVE RefreshKept
  BY <1>3, RefreshReads DEF Crash, Unread
<1>4. ASSUME NEW p \in Process, NEW f \in Feed, Begin(p, f) PROVE RefreshKept
  BY <1>4, BeginKeeps
<1>5. ASSUME NEW r \in refreshes, FetchFails(r) \/ StoreFails(r) PROVE RefreshKept
  BY <1>5, FailureKeeps
<1>6. ASSUME NEW r \in refreshes, Fetch(r) PROVE RefreshKept
  BY <1>6, FetchKeeps
<1>7. ASSUME NEW r \in refreshes, Unmodified(r) PROVE RefreshKept
  BY <1>7, UnmodifiedKeeps
<1>8. ASSUME NEW r \in refreshes, Ingest(r) PROVE RefreshKept
  BY <1>8, IngestStepKeeps
<1>9. ASSUME NEW r \in refreshes, Complete(r) PROVE RefreshKept
  BY <1>9, CompleteKeeps
<1>10. ASSUME NEW r \in refreshes, CountSubscribers(r) \/ Exclude(r) \/ \E found \in BOOLEAN : Judge(r, found)
       PROVE  RefreshKept
  BY <1>10, CountSubscribersKeeps, ExcludeKeeps, JudgeKeeps
<1>11. ASSUME NEW f \in Feed, NewFeed(f) PROVE RefreshKept
  BY <1>11, NewFeedKeeps
<1>12. ASSUME NEW f \in Feed, NEW kind \in {"discover", "opml", "admin"}, NEW found \in BOOLEAN,
              Import(f, kind, found)
       PROVE  RefreshKept
  BY <1>12, ImportKeeps
<1>13. ASSUME NEW m \in imports, ImportInsert(m) PROVE RefreshKept
  BY <1>13, ImportInsertKeeps
<1>14. ASSUME NEW m \in imports, ImportSubscribe(m) PROVE RefreshKept
  BY <1>14, ImportSubscribeKeeps
<1>15. ASSUME NEW m \in imports, ImportMirror(m) \/ ImportIngest(m) \/ ImportEnds(m) PROVE RefreshKept
  BY <1>15, ImportMirrorKeeps, ImportIngestKeeps, ImportEndsKeeps
<1>16. CASE UNCHANGED vars
  <2>1. UNCHANGED <<feed, art, tomb, gone, cap, compact, server, refreshes, imports>>
    BY <1>16 DEF vars
  <2> QED BY <2>1, RefreshReads
<1> QED BY <1>1, <1>2, <1>3, <1>4, <1>5, <1>6, <1>7, <1>8, <1>9, <1>10, <1>11, <1>12, <1>13, <1>14,
           <1>15, <1>16 DEF Next

\* So the invariant is inductive.
LEMMA RefreshInductive ==
  ASSUME RefreshInv, [Next]_vars
  PROVE  RefreshInv'
BY EveryStepKeeps, CleanupKeeps DEF RefreshKept

\* What is removed is written down, unless its feed is deleted with all it has.
Recorded == \A f \in Feed : feed[f] # None => GrowsAt(f) \/ Deleted(f)

\* So of every step.
LEMMA StepRecords ==
  ASSUME RefreshInv, [Next]_vars
  PROVE  Recorded
<1>1. CASE RefreshKept
  BY <1>1, GrowsThere DEF RefreshKept, Recorded
<1>2. ASSUME NEW c \in Feed, Cleanup(c) PROVE Recorded
  BY <1>2, CleanupKeeps DEF Recorded
<1> QED BY <1>1, <1>2, EveryStepKeeps

\* The articles of the catalog come from the first version of its feeds.
LEMMA InitTables ==
  ASSUME Init
  PROVE  TablesOK /\ FeedsVouched
<1> USE ArticleAssumption, RefreshAssumption DEF ArticleAssumption, RefreshAssumption
<1> DEFINE row(f) == [NewRow EXCEPT !.admitted = [by |-> "catalog", ver |-> None], !.etag = 1,
                                    !.count = Len(parse_feed(f, 1))]
<1> DEFINE At(i) == {n \in DOMAIN parse_feed(i[1], 1) : parse_feed(i[1], 1)[n].item = i}
<1> DEFINE e(i) == parse_feed(i[1], 1)[CHOOSE n \in At(i) : TRUE]
<1> DEFINE a(i) == [rev |-> e(i).rev, date |-> e(i).date, mined |-> TRUE, full |-> TRUE, staged |-> FALSE]
<1>1. \A f \in Feed : 1 \in Version(f)
  BY DEF Version
<1>2. NewRow \in FeedRow /\ NewRow.etag = None
  BY DEF NewRow, FeedRow
<1>3. ASSUME NEW f \in Feed PROVE row(f) \in FeedRow /\ row(f).etag = 1
  <2>1. Len(parse_feed(f, 1)) \in Nat
    <3> DEFINE s == parse_feed(f, 1)
    <3>1. s \in Seq(EntryRow(f))
      BY <1>1, EntriesTyped
    <3> HIDE DEF s
    <3>2. Len(s) \in Nat
      BY <3>1
    <3> QED BY <3>2 DEF s
  <2> DEFINE n == Len(parse_feed(f, 1))
  <2> DEFINE c == [by |-> "catalog", ver |-> None]
  <2> DEFINE w == [NewRow EXCEPT !.admitted = c, !.etag = 1, !.count = n]
  <2>2. c \in [by : Process \cup {"catalog", "admin", "kept", None}, ver : Nat \cup {None}]
    OBVIOUS
  <2>3. n \in Nat
    BY <2>1
  <2> HIDE DEF n, c
  <2>4. w \in FeedRow /\ w.etag = 1
    BY <1>2, <2>2, <2>3 DEF FeedRow
  <2> QED BY <2>4 DEF n, c
<1>4. feed = [f \in Feed |-> IF f \in Catalog THEN row(f) ELSE IF f \in Promoted THEN NewRow ELSE None]
  BY DEF Init
<1>5. feed \in [Feed -> FeedRow \cup {None}]
  <2> HIDE DEF row
  <2> QED BY <1>2, <1>3, <1>4
<1>6. \A f \in Feed : feed[f] # None /\ feed[f].etag # None => f \in Catalog /\ feed[f].etag = 1
  <2> HIDE DEF row
  <2> QED BY <1>2, <1>3, <1>4
<1>7. \A f \in Catalog : feed[f] # None
  <2>1. SUFFICES ASSUME NEW f \in Catalog PROVE row(f) # None
    BY <1>4
  <2>2. row(f) \in FeedRow
    BY <1>3
  <2> QED BY <2>2, Fields
<1>8. art = [i \in Item |-> IF i[1] \notin Catalog \/ At(i) = {} THEN None ELSE a(i)]
  BY DEF Init
<1>9. ASSUME NEW i \in Item, At(i) # {} PROVE a(i) \in ArticleRow /\ a(i) # None
  <2>1. (CHOOSE n \in At(i) : TRUE) \in At(i)
    BY <1>9
  <2>2. e(i) \in EntryRow(i[1])
    BY <1>1, <2>1, EntriesTyped
  <2>3. e(i).rev \in Revision /\ e(i).date \in Nat
    BY <2>2 DEF EntryRow
  <2> HIDE DEF e
  <2>4. a(i) \in ArticleRow
    BY <2>3 DEF ArticleRow
  <2> QED BY <2>4, Fields
<1> HIDE DEF a, row
<1>10. art \in [Item -> ArticleRow \cup {None}]
  BY <1>8, <1>9
<1>11. TablesOK
  BY <1>5, <1>7, <1>8, <1>10 DEF TablesOK, Init
<1>12. ASSUME NEW f \in Catalog PROVE Vouched(f, 1)
  <2>1. SUFFICES ASSUME NEW n \in DOMAIN parse_feed(f, 1) PROVE art[parse_feed(f, 1)[n].item] # None
    BY <1>1 DEF Vouched, Covered
  <2> DEFINE i == parse_feed(f, 1)[n].item
  <2>2. i \in Item /\ i[1] = f
    BY <1>1, EntriesTyped DEF EntryRow, ItemsOf
  <2>3. n \in At(i)
    BY <2>2
  <2> QED BY <1>8, <1>9, <2>2, <2>3
<1>13. FeedsVouched
  BY <1>6, <1>12 DEF FeedsVouched
<1> QED BY <1>11, <1>13

\* Whatever the feeds, sites and documents, the invariant holds of every state.
THEOREM RefreshInvariant == Spec => []RefreshInv
<1>1. ASSUME Init PROVE RefreshInv
  <2>1. TablesOK /\ FeedsVouched
    BY <1>1, InitTables
  <2>2. RemovalsMarked /\ LocksRanked
    BY <1>1 DEF Init, RemovalsMarked, LocksRanked
  <2>3. ServerOK
    <3>1. server = [s \in DOMAIN Document |-> 1]
      BY <1>1 DEF Init
    <3>2. \A s \in DOMAIN Document : 1 \in 1..Len(Document[s])
      BY RefreshAssumption DEF RefreshAssumption
    <3> QED BY <3>1, <3>2 DEF ServerOK
  <2>4. refreshes = {} /\ imports = {}
    BY <1>1 DEF Init
  <2> QED BY <2>1, <2>2, <2>3, <2>4 DEF RefreshInv
<1> QED BY <1>1, RefreshInductive, PTL DEF Spec

\* Whatever refreshes, imports, retention and administrators do at a time, no article of a
\* feed that stays goes without a record of it, no such record is lost and no watermark
\* goes back.  A feed goes only archived and while no run of the cap holds it, and then all
\* that is its own goes with it: articles, tombstones, subscriptions, what readers and events
\* refer to, and the refreshes under way.
THEOREM NothingGoesUnrecorded == Spec => [][Recorded]_vars
<1>1. RefreshInv /\ [Next]_vars => [Recorded]_vars
  BY StepRecords
<1> QED BY <1>1, RefreshInvariant, PTL DEF Spec

-----------------------------------------------------------------------------
(* What a step does to an article.                                           *)

\* An entry of a known feed is ingested, which a refresh or an import has still to do.
Pending(f, e) ==
  \/ \E r \in refreshes : r.feed = f /\ \E k \in DOMAIN r.left : r.left[k] = e
  \/ \E m \in imports : m.feed = f /\ \E k \in DOMAIN m.left : m.left[k] = e
Ingested ==
  \E f \in Feed : \E e \in EntryRow(f) :
    Pending(f, e) /\ feed[f] # None /\ ingest_article_batch(f, e.item, e.date, e.rev) /\ UNCHANGED <<tomb, gone, cap, compact>>

\* Only these steps change the table of articles.
LEMMA ArticleSteps ==
  ASSUME RefreshInv, [Next]_vars
  PROVE  \/ art' = art
         \/ Ingested \/ CapDelete \/ CompactApply
         \/ \E i \in Item : Mine(i) \/ DeleteArticle(i) \/ \E staged \in BOOLEAN : Stage(i, staged)
         \/ \E f \in Feed : Cleanup(f)
<1> DEFINE Goal == \/ art' = art
                   \/ Ingested \/ CapDelete \/ CompactApply
                   \/ \E f \in Feed : Cleanup(f)
                   \/ \E i \in Item : Mine(i) \/ DeleteArticle(i) \/ \E staged \in BOOLEAN : Stage(i, staged)
<1>1. ASSUME TablesNext PROVE Goal
  <2>1. ASSUME CapLock PROVE Goal
    BY <2>1 DEF CapLock
  <2>2. ASSUME CapDelete \/ CompactApply PROVE Goal
    BY <2>2
  <2>3. ASSUME NEW f \in Feed, Subscribe(f) \/ Archive(f) \/ Unarchive(f) PROVE Goal
    BY <2>3 DEF Subscribe, Archive, Unarchive
  <2>4. ASSUME NEW f \in Feed, NEW running \in BOOLEAN, CapRank(f, running) PROVE Goal
    BY <2>4 DEF CapRank
  <2>5. ASSUME NEW f \in subs, Unsubscribe(f) PROVE Goal
    BY <2>5 DEF Unsubscribe
  <2>6. ASSUME NEW i \in Item, Mine(i) \/ DeleteArticle(i) PROVE Goal
    BY <2>6
  <2>7. ASSUME NEW i \in Item, CompactPick(i) PROVE Goal
    BY <2>7 DEF CompactPick
  <2>8. ASSUME NEW i \in Item, NEW kind \in {"bookmark", "read", "fact"}, Refer(i, kind) PROVE Goal
    BY <2>8 DEF Refer
  <2>9. ASSUME NEW i \in Item, NEW staged \in BOOLEAN, Stage(i, staged) PROVE Goal
    BY <2>9
  <2>10. ASSUME NEW r \in refs, Unrefer(r) PROVE Goal
    BY <2>10 DEF Unrefer
  <2> HIDE DEF Goal
  <2> QED BY <1>1, <2>1, <2>2, <2>3, <2>4, <2>5, <2>6, <2>7, <2>8, <2>9, <2>10 DEF TablesNext
<1>2. ASSUME NEW r \in refreshes, Ingest(r) PROVE Goal
  <2>1. CASE r.left = <<>>
    BY <1>2, <2>1 DEF Ingest
  <2>2. CASE r.left # <<>>
    <3>1. r.feed \in Feed /\ feed[r.feed] # None /\ r.left \in Seq(EntryRow(r.feed))
      BY DEF RefreshInv, RefreshOK, RefreshRow
    <3>2. Head(r.left) \in EntryRow(r.feed)
      BY <2>2, <3>1
    <3>3. ingest_article_batch(r.feed, Head(r.left).item, Head(r.left).date, Head(r.left).rev)
          /\ UNCHANGED <<tomb, gone, cap, compact>>
      BY <1>2, <2>2 DEF Ingest, Unread
    <3>4. Pending(r.feed, Head(r.left))
      <4>1. 1 \in DOMAIN r.left /\ r.left[1] = Head(r.left)
        BY <2>2, <3>1
      <4> QED BY <4>1 DEF Pending
    <3>5. Ingested
      BY <3>1, <3>2, <3>3, <3>4 DEF Ingested
    <3> QED BY <3>5
  <2> QED BY <2>1, <2>2
<1>3. ASSUME NEW m \in imports, ImportIngest(m) PROVE Goal
  <2>1. m.feed \in Feed /\ feed[m.feed] # None /\ m.left \in Seq(EntryRow(m.feed)) /\ m.left # <<>>
    BY <1>3 DEF RefreshInv, ImportOK, ImportRow, ImportIngest
  <2>2. Head(m.left) \in EntryRow(m.feed)
    BY <2>1
  <2>3. ingest_article_batch(m.feed, Head(m.left).item, Head(m.left).date, Head(m.left).rev)
        /\ UNCHANGED <<tomb, gone, cap, compact>>
    BY <1>3 DEF ImportIngest, Rest
  <2>4. Pending(m.feed, Head(m.left))
    <3>1. 1 \in DOMAIN m.left /\ m.left[1] = Head(m.left)
      BY <2>1
    <3> QED BY <3>1 DEF Pending
  <2>5. Ingested
    BY <2>1, <2>2, <2>3, <2>4 DEF Ingested
  <2> QED BY <2>5
<1>4. ASSUME NEW r \in refreshes,
             \/ FetchFails(r) \/ StoreFails(r) \/ Fetch(r) \/ Unmodified(r) \/ Complete(r)
             \/ CountSubscribers(r) \/ Exclude(r) \/ \E found \in BOOLEAN : Judge(r, found)
      PROVE  Goal
  BY <1>4 DEF FetchFails, StoreFails, Fetch, Unmodified, Complete, CountSubscribers, Exclude, Judge
<1>5. ASSUME NEW m \in imports, ImportMirror(m) \/ ImportInsert(m) \/ ImportSubscribe(m) \/ ImportEnds(m)
      PROVE  Goal
  BY <1>5 DEF ImportMirror, ImportInsert, ImportSubscribe, ImportEnds
<1>6. ASSUME NEW f \in Feed, NewFeed(f) \/ Cleanup(f) PROVE Goal
  BY <1>6 DEF NewFeed
<1>7. ASSUME NEW f \in Feed, NEW kind \in {"discover", "opml", "admin"}, NEW found \in BOOLEAN,
             Import(f, kind, found)
      PROVE  Goal
  BY <1>7 DEF Import
<1>8. ASSUME NEW p \in Process, NEW f \in Feed, Begin(p, f) PROVE Goal
  BY <1>8 DEF Begin
<1>9. ASSUME NEW p \in Process, Crash(p) PROVE Goal
  BY <1>9 DEF Crash
<1>10. ASSUME NEW s \in DOMAIN Document, Publish(s) PROVE Goal
  BY <1>10 DEF Publish
<1>11. ASSUME UNCHANGED vars PROVE Goal
  BY <1>11 DEF vars
<1> HIDE DEF Goal
<1>12. Goal
  BY <1>1, <1>2, <1>3, <1>4, <1>5, <1>6, <1>7, <1>8, <1>9, <1>10, <1>11 DEF Next
<1> QED BY <1>12 DEF Goal

\* What an ingestion does to an article.
LEMMA IngestedArticle ==
  ASSUME RefreshInv, Ingested, NEW i \in Item, art'[i] # art[i]
  PROVE  \E e \in EntryRow(i[1]) :
           /\ i = e.item /\ art'[i] = Row(i, e.date, e.rev) /\ Row(i, e.date, e.rev) \in ArticleRow
           /\ ~Dropped(i, e.date) /\ feed[i[1]] # None /\ Pending(i[1], e)
<1>1. TablesOK
  BY DEF RefreshInv
<1>2. PICK f \in Feed : \E e \in EntryRow(f) :
        Pending(f, e) /\ feed[f] # None /\ ingest_article_batch(f, e.item, e.date, e.rev)
  BY DEF Ingested
<1> PICK e \in EntryRow(f) : Pending(f, e) /\ feed[f] # None /\ ingest_article_batch(f, e.item, e.date, e.rev)
  BY <1>2
<1>3. e.item \in Item /\ e.item[1] = f /\ e.date \in Nat /\ e.rev \in Revision
  BY DEF EntryRow, ItemsOf
<1> DEFINE w == Row(e.item, e.date, e.rev)
<1>4. w \in ArticleRow
  BY <1>1, <1>3, RowTyped
<1>5. art' = IF Dropped(e.item, e.date) THEN art ELSE [art EXCEPT ![e.item] = w]
  BY <1>2 DEF ingest_article_batch
<1>6. ~Dropped(e.item, e.date) /\ i = e.item /\ art'[i] = w
  <2> HIDE DEF w
  <2> QED BY <1>1, <1>3, <1>5 DEF TablesOK
<1> QED BY <1>2, <1>3, <1>4, <1>6

\* What an eviction does to an article.
LEMMA EvictedArticle ==
  ASSUME RefreshInv, CapDelete, NEW i \in Item, art'[i] # art[i]
  PROVE  /\ cap # None /\ cap.step = "locked" /\ i \in cap.ids /\ art'[i] = None
         /\ i \notin Held({"bookmark", "fact"}) /\ ~art[i].staged
         /\ \A j \in Item : j \notin cap.ids => art'[j] = art[j]
<1>1. PICK free \in SUBSET cap.ids :
        art' = [j \in Item |-> IF j \in Evicted(free) THEN None ELSE art[j]]
  BY DEF CapDelete
<1>2. i \in Evicted(free) /\ art'[i] = None
  BY <1>1
<1>3. \A j \in Evicted(free) : j \in cap.ids
  BY DEF Evicted
<1> QED BY <1>1, <1>2, <1>3 DEF CapDelete, Evicted

\* What the other steps do to an article.
LEMMA MarkedArticle ==
  ASSUME RefreshInv, NEW i \in Item, art'[i] # art[i],
         \/ CompactApply
         \/ \E j \in Item : Mine(j) \/ \E staged \in BOOLEAN : Stage(j, staged)
  PROVE  /\ art[i] # None /\ art'[i] # None
         /\ art[i].full /\ ~art'[i].full =>
              art[i].mined /\ i[1] \notin subs /\ i \notin Held({"bookmark", "read"})
<1>1. TablesOK
  BY DEF RefreshInv
<1>2. CASE CompactApply
  <2>1. Compactable(compact) /\ compact \in Item /\ art' = [art EXCEPT ![compact].full = FALSE]
    BY <1>1, <1>2 DEF CompactApply, TablesOK
  <2>2. i = compact /\ art'[i] = [art[i] EXCEPT !.full = FALSE]
    BY <1>1, <2>1 DEF TablesOK
  <2>3. art[i] \in ArticleRow
    BY <1>1, <2>1, <2>2 DEF TablesOK, Compactable
  <2>4. art'[i] # None
    BY <2>2, <2>3, MarkFields, Fields
  <2> QED BY <2>1, <2>2, <2>3, <2>4, Fields DEF Compactable
<1>3. ASSUME NEW j \in Item, Mine(j) PROVE art[i] # None /\ art'[i] # None /\ art'[i].full = art[i].full
  <2>1. i = j /\ art'[i] = [art[i] EXCEPT !.mined = TRUE] /\ art[i] \in ArticleRow
    BY <1>1, <1>3 DEF Mine, TablesOK
  <2>2. art'[i] \in ArticleRow
    BY <2>1, MarkFields
  <2>3. art'[i].full = art[i].full
    BY <2>1 DEF ArticleRow
  <2> QED BY <2>1, <2>2, <2>3, Fields
<1>4. ASSUME NEW j \in Item, NEW staged \in BOOLEAN, Stage(j, staged)
      PROVE  art[i] # None /\ art'[i] # None /\ art'[i].full = art[i].full
  <2>1. i = j /\ art'[i] = [art[i] EXCEPT !.staged = staged] /\ art[i] \in ArticleRow
    BY <1>1, <1>4 DEF Stage, TablesOK
  <2>2. art'[i] \in ArticleRow
    BY <2>1, MarkFields
  <2>3. art'[i].full = art[i].full
    BY <2>1 DEF ArticleRow
  <2> QED BY <2>1, <2>2, <2>3, Fields
<1> QED BY <1>2, <1>3, <1>4

-----------------------------------------------------------------------------
(* The theorems.                                                             *)

\* A stored validator never hides an item, whatever the number of refreshes, imports,
\* evictions and deletions: what it stands for is stored, was removed or kept out.
THEOREM ValidatorsHideNothing == Spec => []ValidatorsCertify
<1>1. ASSUME RefreshInv PROVE ValidatorsCertify
  BY <1>1 DEF RefreshInv, FeedsVouched, Vouched, Covered, ValidatorsCertify
<1> QED BY <1>1, RefreshInvariant, PTL

\* While its feed stays, what was evicted or deleted is not stored again by any refresh or
\* import.
THEOREM RemovalsLast == Spec => RemovedStayOut
<1> DEFINE Out == \A i \in Item : art[i] = None /\ art'[i] # None =>
                    /\ i \notin tomb
                    /\ \A g \in gone : g.item = i => art'[i].date > g.date
<1>1. ASSUME RefreshInv, [Next]_vars PROVE Out
  <2>1. SUFFICES ASSUME NEW i \in Item, art[i] = None, art'[i] # None
                 PROVE  i \notin tomb /\ \A g \in gone : g.item = i => art'[i].date > g.date
    OBVIOUS
  <2>2. TablesOK /\ RemovalsMarked
    BY <1>1 DEF RefreshInv
  <2>3. Ingested
    <3>1. ~CapDelete
      BY <1>1, <2>1, EvictedArticle
    <3>2. ~CompactApply /\ \A j \in Item : ~Mine(j) /\ \A staged \in BOOLEAN : ~Stage(j, staged)
      BY <1>1, <2>1, MarkedArticle
    <3>3. \A j \in Item : ~DeleteArticle(j)
      BY <2>1, <2>2 DEF DeleteArticle, TablesOK
    <3>4. \A f \in Feed : ~Cleanup(f)
      BY <1>1, <2>1, CleanupKeeps
    <3> QED BY <1>1, <2>1, <3>1, <3>2, <3>3, <3>4, ArticleSteps
  <2>4. PICK e \in EntryRow(i[1]) :
          /\ art'[i] = Row(i, e.date, e.rev) /\ Row(i, e.date, e.rev) \in ArticleRow
          /\ ~Dropped(i, e.date) /\ feed[i[1]] # None
    BY <1>1, <2>1, <2>3, IngestedArticle
  <2>5. i \notin tomb /\ ~(e.date <= feed[i[1]].mark) /\ art'[i].date = e.date
    BY <2>1, <2>4 DEF Dropped, Row
  <2>6. i[1] \in Feed /\ feed[i[1]].mark \in Nat /\ e.date \in Nat
    BY <2>2, <2>4, Fields, ArticleAssumption DEF ArticleAssumption, TablesOK, EntryRow
  <2>7. ASSUME NEW g \in gone, g.item = i PROVE art'[i].date > g.date
    <3>1. g.date <= feed[i[1]].mark /\ g.date \in Nat
      BY <2>2, <2>5, <2>7 DEF RemovalsMarked, TablesOK
    <3> QED BY <2>5, <2>6, <3>1
  <2> QED BY <2>5, <2>7
<1>2. RefreshInv /\ [Next]_vars => [Out]_<<art, tomb, gone>>
  BY <1>1
<1> QED BY <1>2, RefreshInvariant, PTL DEF Spec, RemovedStayOut

\* The cap deletes nothing a reader or an event holds, and the compaction takes no body
\* that somebody wants or that is not mined; the deletion of a whole feed is apart.
THEOREM ReadersLoseNothing == Spec => ReadersKeepTheirs
<1> DEFINE Kind == \A i \in Item :
       /\ art[i] # None /\ art'[i] = None /\ i \notin tomb' /\ feed'[i[1]] # None =>
            ~art[i].staged /\ i \notin Held({"bookmark", "fact"})
       /\ art[i] # None /\ art'[i] # None /\ art[i].full /\ ~art'[i].full =>
            art[i].mined /\ i[1] \notin subs /\ i \notin Held({"bookmark", "read"})
<1>1. ASSUME RefreshInv, [Next]_vars PROVE Kind
  <2>1. TablesOK
    BY <1>1 DEF RefreshInv
  <2>2. SUFFICES ASSUME NEW i \in Item, art'[i] # art[i]
                 PROVE
       /\ art[i] # None /\ art'[i] = None /\ i \notin tomb' /\ feed'[i[1]] # None =>
            ~art[i].staged /\ i \notin Held({"bookmark", "fact"})
       /\ art[i] # None /\ art'[i] # None /\ art[i].full /\ ~art'[i].full =>
            art[i].mined /\ i[1] \notin subs /\ i \notin Held({"bookmark", "read"})
    OBVIOUS
  <2>3. CASE Ingested
    <3>1. PICK e \in EntryRow(i[1]) :
            art'[i] = Row(i, e.date, e.rev) /\ Row(i, e.date, e.rev) \in ArticleRow
      BY <1>1, <2>2, <2>3, IngestedArticle
    <3>2. art'[i] # None
      BY <3>1, Fields
    <3>3. ASSUME art[i] # None, art[i].full PROVE art'[i].full
      <4> DEFINE same == art[i].rev.hash = e.rev.hash
      <4> DEFINE mined == art[i].mined /\ same
      <4> DEFINE full == art[i].full \/ ~same
      <4> DEFINE w == [art[i] EXCEPT !.rev = e.rev, !.date = e.date, !.mined = mined, !.full = full]
      <4>1. art[i] \in ArticleRow
        BY <2>1, <3>3 DEF TablesOK
      <4>2. art'[i] = w
        BY <2>2, <3>1, <3>3 DEF Row
      <4>3. full
        BY <3>3
      <4> HIDE DEF mined, full
      <4>4. w.full = full
        BY <4>1 DEF ArticleRow
      <4> QED BY <4>2, <4>3, <4>4
    <3> QED BY <3>2, <3>3
  <2>4. CASE CapDelete
    BY <1>1, <2>2, <2>4, EvictedArticle
  <2>5. CASE CompactApply \/ \E j \in Item : Mine(j) \/ \E staged \in BOOLEAN : Stage(j, staged)
    BY <1>1, <2>2, <2>5, MarkedArticle
  <2>6. ASSUME NEW j \in Item, DeleteArticle(j) PROVE i \in tomb' /\ art'[i] = None
    BY <2>1, <2>2, <2>6 DEF DeleteArticle, TablesOK
  <2>7. ASSUME NEW f \in Feed, Cleanup(f) PROVE art'[i] = None /\ feed'[i[1]] = None
    BY <1>1, <2>2, <2>7, CleanupKeeps DEF Deleted
  <2> QED BY <1>1, <2>2, <2>3, <2>4, <2>5, <2>6, <2>7, ArticleSteps
<1>2. RefreshInv /\ [Next]_vars => [Kind]_art
  BY <1>1
<1> QED BY <1>2, RefreshInvariant, PTL DEF Spec, ReadersKeepTheirs

\* Whatever the cap deletes, the feed keeps Cap newer articles.
THEOREM NewestAreKept == Spec => NewestKept
<1> DEFINE Keeps == \A i \in Item : art[i] # None /\ art'[i] = None /\ i \notin tomb' /\ feed'[i[1]] # None =>
                      Cardinality(Newer(i, {j \in Stored(i[1]) : art'[j] # None})) >= Cap
<1>1. ASSUME RefreshInv, [Next]_vars PROVE Keeps
  <2>1. SUFFICES ASSUME NEW i \in Item, art[i] # None, art'[i] = None, i \notin tomb', feed'[i[1]] # None
                 PROVE  Cardinality(Newer(i, {j \in Stored(i[1]) : art'[j] # None})) >= Cap
    OBVIOUS
  <2>2. TablesOK /\ LocksRanked
    BY <1>1 DEF RefreshInv
  <2>3. CapDelete
    <3>1. ~Ingested
      <4>1. ASSUME Ingested PROVE FALSE
        <5>1. PICK e \in EntryRow(i[1]) :
                art'[i] = Row(i, e.date, e.rev) /\ Row(i, e.date, e.rev) \in ArticleRow
          BY <1>1, <2>1, <4>1, IngestedArticle
        <5> QED BY <2>1, <5>1, Fields
      <4> QED BY <4>1
    <3>2. ~CompactApply /\ \A j \in Item : ~Mine(j) /\ \A staged \in BOOLEAN : ~Stage(j, staged)
      BY <1>1, <2>1, MarkedArticle
    <3>3. \A j \in Item : ~DeleteArticle(j)
      BY <2>1, <2>2 DEF DeleteArticle, TablesOK
    <3>4. \A f \in Feed : ~Cleanup(f)
      BY <1>1, <2>1, CleanupKeeps DEF Deleted
    <3> QED BY <1>1, <2>1, <3>1, <3>2, <3>3, <3>4, ArticleSteps
  <2>4. /\ cap # None /\ cap.step = "locked" /\ i \in cap.ids
        /\ \A j \in Item : j \notin cap.ids => art'[j] = art[j]
    BY <1>1, <2>1, <2>3, EvictedArticle
  <2> DEFINE K == Newer(i, Kept(cap.feed, cap.ids))
  <2> DEFINE N == Newer(i, {j \in Stored(i[1]) : art'[j] # None})
  <2>5. i[1] = cap.feed /\ Cardinality(K) >= Cap
    BY <2>2, <2>4 DEF LocksRanked, Stored, ItemsOf
  <2>6. K \in SUBSET N /\ N \in SUBSET Item /\ K \in SUBSET Item
    BY <2>4, <2>5 DEF Newer, Kept, Stored, ItemsOf
  <2> HIDE DEF K, N
  <2>7. Cardinality(K) <= Cardinality(N) /\ Cardinality(K) \in Nat /\ Cardinality(N) \in Nat
    BY <2>6, ItemsFinite, FS_Subset
  <2>8. Cardinality(N) >= Cap
    BY <2>5, <2>7, ArticleAssumption DEF ArticleAssumption
  <2> QED BY <2>8 DEF N
<1>2. RefreshInv /\ [Next]_vars => [Keeps]_art
  BY <1>1
<1> QED BY <1>2, RefreshInvariant, PTL DEF Spec, NewestKept

-----------------------------------------------------------------------------
(* Two addresses of one site.  Where addresses keep their dates, documents   *)
(* are chronological and the cap holds what a version lists, nothing that is *)
(* still listed is ever evicted, so the gate finds in the first address all  *)
(* that the second one serves.                                               *)

Shared(f)  == \E g \in Feed \ {f} : Site[g] = Site[f]
Chronicles == \A f \in Feed : Shared(f) => Chronicle(f)

Served(f)         == server[Site[f]]
Items(f, ver)     == {parse_feed(f, ver)[n].item : n \in DOMAIN parse_feed(f, ver)}
Judgeable(f, ver) == Cardinality(canonical_item_urls(f, ver)) >= MinItems

\* Some version served so far lists this item with this date.
Listed(f, item, date) ==
  \E u \in 1..Served(f) : \E n \in DOMAIN parse_feed(f, u) :
    parse_feed(f, u)[n].item = item /\ parse_feed(f, u)[n].date = date

\* What is stored, was removed or is still to be ingested was listed.
Sourced ==
  /\ \A i \in Item : art[i] # None => Listed(i[1], i, art[i].date)
  /\ \A g \in gone : Listed(g.item[1], g.item, g.date)
  /\ \A r \in refreshes : \A k \in DOMAIN r.left : Listed(r.feed, r.left[k].item, r.left[k].date)
  /\ \A m \in imports : \A k \in DOMAIN m.left : Listed(m.feed, m.left[k].item, m.left[k].date)

\* All that is listed now or later is above the watermark.
MarksBelow ==
  \A f \in Feed : Chronicle(f) /\ feed[f] # None =>
    \A ver \in Version(f) : ver >= Served(f) =>
      \A n \in DOMAIN parse_feed(f, ver) : parse_feed(f, ver)[n].date > feed[f].mark

\* An admission was judged by a version that is vouched for; a refresh admits in the
\* name of its own process, after its gate.
AdmittedWell(f) ==
  feed[f] # None /\ feed[f].admitted # None /\ feed[f].admitted.by \in Process =>
    /\ Vouched(f, feed[f].admitted.ver) /\ Judgeable(f, feed[f].admitted.ver)
    /\ feed[f].admitted.ver <= Served(f)
GatedWell(r) ==
  /\ r.step \in {"gate", "rejected", "exclude"} => r.gated
  /\ r.ver # None => r.ver <= Served(r.feed)
  /\ r.by \in Process => r.by = r.proc /\ r.gated /\ r.step \in {"ingest", "complete"}
Verdicts == (\A f \in Feed : AdmittedWell(f)) /\ \A r \in refreshes : GatedWell(r)

\* A process let the feed in by what is served now, or is about to.
LetIn(f, p) ==
  \/ feed[f].admitted # None /\ feed[f].admitted = [by |-> p, ver |-> Served(f)]
  \/ \E r \in refreshes : r.feed = f /\ r.by = p /\ r.ver = Served(f) /\ Judgeable(f, r.ver)
Promised(f) == Active(f) /\ ~feed[f].restored /\ \A i \in tomb : i[1] # f
OneLetIn ==
  \A f, g \in Feed : f # g /\ Site[f] = Site[g] /\ Chronicle(f) /\ Chronicle(g) /\ Promised(f) /\ Promised(g) =>
    \A p \in Process : ~(LetIn(f, p) /\ LetIn(g, p))

TwinInv == RefreshInv /\ Sourced /\ MarksBelow /\ Verdicts /\ OneLetIn

\* Addresses of one site list the same, each item under its own address.
LEMMA SameSite ==
  ASSUME NEW f, NEW g, Site[f] = Site[g], NEW ver
  PROVE  /\ canonical_item_urls(f, ver) = canonical_item_urls(g, ver)
         /\ \A n \in DOMAIN parse_feed(f, ver) :
              parse_feed(f, ver)[n].item = <<f, parse_feed(f, ver)[n].item[2]>>
<1> DEFINE e == SelectSeq(Document[Site[f]][ver].entries, LAMBDA x : x.url # None)
<1> DEFINE last == {n \in DOMAIN e : \A m \in DOMAIN e : e[m].url = e[n].url => m <= n}
<1> DEFINE K(n) == CHOOSE k \in last : Cardinality({m \in last : m <= k}) = n
<1>1. parse_feed(f, ver) = [n \in 1..Cardinality(last) |->
        [item |-> <<f, e[K(n)].url>>, date |-> e[K(n)].date, rev |-> e[K(n)].rev]]
  BY DEF parse_feed
<1>2. parse_feed(g, ver) = [n \in 1..Cardinality(last) |->
        [item |-> <<g, e[K(n)].url>>, date |-> e[K(n)].date, rev |-> e[K(n)].rev]]
  BY DEF parse_feed
<1> HIDE DEF e, last, K
<1>3. canonical_item_urls(f, ver) = {e[K(n)].url : n \in 1..Cardinality(last)}
  BY <1>1 DEF canonical_item_urls
<1>4. canonical_item_urls(g, ver) = {e[K(n)].url : n \in 1..Cardinality(last)}
  BY <1>2 DEF canonical_item_urls
<1> QED BY <1>1, <1>3, <1>4

\* A version has as many addresses as items.
LEMMA ItemsCounted ==
  ASSUME NEW f \in Feed, NEW ver \in Version(f)
  PROVE  /\ Items(f, ver) \in SUBSET ItemsOf(f)
         /\ \A i \in Items(f, ver) : i = <<f, i[2]>> /\ i[2] \in canonical_item_urls(f, ver)
         /\ IsFiniteSet(Items(f, ver)) /\ IsFiniteSet(canonical_item_urls(f, ver))
         /\ Cardinality(canonical_item_urls(f, ver)) = Cardinality(Items(f, ver))
<1> DEFINE I == Items(f, ver)
<1> DEFINE U == canonical_item_urls(f, ver)
<1>1. I \in SUBSET ItemsOf(f)
  BY EntriesTyped DEF Items, EntryRow
<1>2. \A i \in I : i = <<f, i[2]>> /\ i[2] \in U
  <2>1. SUFFICES ASSUME NEW n \in DOMAIN parse_feed(f, ver)
                 PROVE  LET i == parse_feed(f, ver)[n].item IN i = <<f, i[2]>> /\ i[2] \in U
    BY DEF Items
  <2>2. parse_feed(f, ver)[n].item = <<f, parse_feed(f, ver)[n].item[2]>>
    BY SameSite
  <2>3. parse_feed(f, ver)[n].item[2] \in U
    BY DEF canonical_item_urls
  <2> QED BY <2>2, <2>3
<1>3. IsFiniteSet(I)
  BY <1>1, ItemsFinite DEF ItemsOf
<1>4. \A u \in U : \E i \in I : i[2] = u
  BY DEF Items, canonical_item_urls
<1> DEFINE h == [i \in I |-> i[2]]
<1> HIDE DEF I, U
<1>5. h \in Bijection(I, U)
  <2>1. h \in [I -> U]
    BY <1>2
  <2>2. \A i, j \in I : h[i] = h[j] => i = j
    BY <1>2
  <2>3. \A u \in U : \E i \in I : h[i] = u
    BY <1>4
  <2> HIDE DEF h
  <2> QED BY <2>1, <2>2, <2>3 DEF Bijection, Injection, Surjection, IsInjective
<1>6. ExistsBijection(I, U)
  BY <1>5 DEF ExistsBijection
<1>7. IsFiniteSet(U) /\ Cardinality(U) = Cardinality(I)
  BY <1>3, <1>6, FS_Bijection
<1> QED BY <1>1, <1>2, <1>3, <1>7 DEF I, U

\* The version that is served is one of its site's.
LEMMA ServedVersion ==
  ASSUME ServerOK, NEW f \in Feed
  PROVE  Served(f) \in Version(f) /\ Served(f) \in Nat /\ \A u \in 1..Served(f) : u \in Version(f) /\ u \in Nat
<1>1. Site[f] \in DOMAIN Document /\ Len(Document[Site[f]]) \in Nat
  BY RefreshAssumption DEF RefreshAssumption
<1> QED BY <1>1 DEF ServerOK, Served, Version

\* A version lists an entry.
Lists(f, ver, e) == \E n \in DOMAIN parse_feed(f, ver) : parse_feed(f, ver)[n] = e

\* What was listed is an entry of a version served so far.
LEMMA WasListed ==
  ASSUME ServerOK, NEW f \in Feed, NEW i, NEW date, Listed(f, i, date)
  PROVE  \E u \in Version(f) : \E x \in EntryRow(f) :
           u <= Served(f) /\ Lists(f, u, x) /\ x.item = i /\ x.date = date
<1>1. PICK u \in 1..Served(f) :
        \E m \in DOMAIN parse_feed(f, u) : parse_feed(f, u)[m].item = i /\ parse_feed(f, u)[m].date = date
  BY DEF Listed
<1>2. PICK m \in DOMAIN parse_feed(f, u) : parse_feed(f, u)[m].item = i /\ parse_feed(f, u)[m].date = date
  BY <1>1
<1>3. u \in Version(f) /\ u <= Served(f)
  BY ServedVersion
<1>4. parse_feed(f, u)[m] \in EntryRow(f)
  BY <1>3, EntriesTyped
<1> QED BY <1>2, <1>3, <1>4 DEF Lists

\* Of two entries of a feed, one item has one date, and what is newer than a later entry
\* is still listed beside it.
LEMMA Chronological ==
  ASSUME NEW f \in Feed, Chronicle(f), NEW u \in Version(f), NEW ver \in Version(f),
         NEW d, Lists(f, u, d), NEW e, Lists(f, ver, e)
  PROVE  /\ d.item = e.item => d.date = e.date
         /\ u <= ver /\ d.date > e.date => d.item \in Items(f, ver)
<1>1. PICK m \in DOMAIN parse_feed(f, u) : parse_feed(f, u)[m] = d
  BY DEF Lists
<1>2. PICK n \in DOMAIN parse_feed(f, ver) : parse_feed(f, ver)[n] = e
  BY DEF Lists
<1>3. /\ d.item = e.item => d.date = e.date
      /\ u <= ver /\ d.date > e.date => d.item[2] \in canonical_item_urls(f, ver)
  BY <1>1, <1>2, Zenon DEF Chronicle, Version
<1>4. ASSUME d.item[2] \in canonical_item_urls(f, ver) PROVE d.item \in Items(f, ver)
  <2>1. d.item = <<f, d.item[2]>>
    BY <1>1, SameSite
  <2>2. PICK k \in DOMAIN parse_feed(f, ver) : d.item[2] = parse_feed(f, ver)[k].item[2]
    BY <1>4 DEF canonical_item_urls
  <2>3. parse_feed(f, ver)[k].item = <<f, parse_feed(f, ver)[k].item[2]>>
    BY SameSite
  <2>4. parse_feed(f, ver)[k].item = d.item
    BY <2>1, <2>2, <2>3
  <2> QED BY <2>4 DEF Items
<1> QED BY <1>3, <1>4

\* So one item has one date.
LEMMA OneDate ==
  ASSUME NEW f \in Feed, Chronicle(f), NEW u \in Version(f), NEW ver \in Version(f),
         NEW d, Lists(f, u, d), NEW e, Lists(f, ver, e), d.item = e.item
  PROVE  d.date = e.date
BY Chronological

\* What is stored and newer than something still listed is itself still listed: there is
\* less of it than the version has addresses.
LEMMA FewNewer ==
  ASSUME RefreshInv, Sourced, NEW f \in Feed, Chronicle(f), feed[f] # None,
         NEW ver \in Version(f), ver >= Served(f), NEW e \in EntryRow(f), Lists(f, ver, e),
         NEW K \in SUBSET Stored(f), \A j \in K : art[j].date > e.date
  PROVE  Cardinality(K) < Cardinality(canonical_item_urls(f, ver)) /\ Cardinality(K) \in Nat
<1>1. ServerOK /\ TablesOK
  BY DEF RefreshInv
<1>2. e.item \in Items(f, ver) /\ e.date \in Nat
  BY DEF Items, EntryRow, Lists
<1>3. ASSUME NEW j \in K PROVE j \in Items(f, ver) /\ j # e.item
  <2>1. j \in Item /\ j[1] = f /\ art[j] # None
    BY DEF Stored, ItemsOf
  <2>2. Listed(f, j, art[j].date)
    BY <2>1 DEF Sourced
  <2>3. PICK u \in Version(f) : \E d \in EntryRow(f) :
          u <= Served(f) /\ Lists(f, u, d) /\ d.item = j /\ d.date = art[j].date
    BY <1>1, <2>2, WasListed
  <2>4. PICK d \in EntryRow(f) : u <= Served(f) /\ Lists(f, u, d) /\ d.item = j /\ d.date = art[j].date
    BY <2>3
  <2>5. u <= ver
    BY <1>1, <2>4, ServedVersion DEF Version
  <2>6. d.date > e.date /\ d.date \in Nat
    BY <2>4 DEF EntryRow
  <2> QED BY <1>2, <2>4, <2>5, <2>6, Chronological
<1> DEFINE Others == Items(f, ver) \ {e.item}
<1>4. /\ IsFiniteSet(Items(f, ver)) /\ Cardinality(Items(f, ver)) \in Nat
      /\ Cardinality(canonical_item_urls(f, ver)) = Cardinality(Items(f, ver))
  BY ItemsCounted, FS_CardinalityType
<1>5. IsFiniteSet(Others) /\ Cardinality(Others) = Cardinality(Items(f, ver)) - 1
  BY <1>2, <1>4, FS_RemoveElement
<1>6. K \in SUBSET Others
  BY <1>3
<1> HIDE DEF Others
<1>7. Cardinality(K) <= Cardinality(Others) /\ Cardinality(K) \in Nat
  BY <1>5, <1>6, FS_Subset, FS_CardinalityType
<1> QED BY <1>4, <1>5, <1>7

\* Where one address has all that is served, is active and nothing of it was deleted, the
\* gate of the other finds it.
LEMMA MirrorFound ==
  ASSUME RefreshInv, Sourced, MarksBelow, NEW f \in Feed, NEW g \in Feed, f # g, Site[f] = Site[g],
         Chronicle(f), Promised(f), Vouched(f, Served(f)), Judgeable(f, Served(f))
  PROVE  f \in find_mirror_source(g, Served(f))
<1> DEFINE ver == Served(f)
<1> DEFINE I == Items(f, ver)
<1> DEFINE sample == canonical_item_urls(g, ver)
<1> DEFINE In(S) == Cardinality({i \in S : i[2] \in sample})
<1> DEFINE Recent == {i \in Stored(f) : Cardinality(Newer(i, Stored(f))) < Cardinality(sample)}
<1>1. TablesOK /\ RemovalsMarked /\ ServerOK /\ feed[f] # None /\ Active(f)
  BY DEF RefreshInv, Promised, Active
<1>2. ver \in Version(f) /\ ver \in Nat /\ ver >= Served(f)
  BY <1>1, ServedVersion
<1>3. sample = canonical_item_urls(f, ver)
  BY SameSite
<1>4. /\ I \in SUBSET ItemsOf(f) /\ IsFiniteSet(I) /\ Cardinality(sample) = Cardinality(I)
      /\ Cardinality(I) \in Nat /\ \A i \in I : i[2] \in sample
  BY <1>2, <1>3, ItemsCounted, FS_CardinalityType
<1>5. ASSUME NEW n \in DOMAIN parse_feed(f, ver) PROVE art[parse_feed(f, ver)[n].item] # None
  <2> DEFINE e == parse_feed(f, ver)[n]
  <2>1. e \in EntryRow(f) /\ e.item \in Item /\ e.item[1] = f /\ e.date \in Nat
    BY <1>2, EntriesTyped DEF EntryRow, ItemsOf
  <2>2. Covered(f, e) /\ e.date > feed[f].mark /\ feed[f].mark \in Nat
    BY <1>1, <1>2, Fields DEF Vouched, MarksBelow, TablesOK
  <2>3. ASSUME NEW x \in gone, x.item = e.item PROVE FALSE
    <3>1. x.date \in Nat /\ x.date <= feed[f].mark
      BY <1>1, <2>1, <2>3 DEF RemovalsMarked, TablesOK, Promised
    <3>2. Listed(f, e.item, x.date)
      BY <2>1, <2>3 DEF Sourced
    <3>3. PICK u \in Version(f) : \E d \in EntryRow(f) : Lists(f, u, d) /\ d.item = e.item /\ d.date = x.date
      BY <1>1, <3>2, WasListed
    <3>4. PICK d \in EntryRow(f) : Lists(f, u, d) /\ d.item = e.item /\ d.date = x.date
      BY <3>3
    <3>5. Lists(f, ver, e)
      BY DEF Lists
    <3> HIDE DEF e, ver
    <3>6. x.date = e.date
      <4>1. u \in Version(f) /\ ver \in Version(f)
        BY <1>2
      <4>2. Lists(f, u, d) /\ Lists(f, ver, e) /\ d.item = e.item
        BY <3>4, <3>5
      <4>3. d.date = e.date
        BY <4>1, <4>2, OneDate
      <4> QED BY <3>4, <4>3
    <3> QED BY <2>1, <2>2, <3>1, <3>6
  <2> QED BY <2>1, <2>2, <2>3 DEF Covered
<1>6. I \in SUBSET Stored(f)
  BY <1>4, <1>5 DEF Items, Stored
<1>7. I \in SUBSET Recent
  <2>1. SUFFICES ASSUME NEW n \in DOMAIN parse_feed(f, ver)
                 PROVE  parse_feed(f, ver)[n].item \in Recent
    BY DEF Items
  <2> DEFINE e == parse_feed(f, ver)[n]
  <2>2. e \in EntryRow(f) /\ e.item \in Stored(f) /\ e.item \in Item /\ e.date \in Nat
    BY <1>2, <1>6, EntriesTyped DEF Items, EntryRow, ItemsOf
  <2>3. art[e.item].date = e.date
    <3>1. Listed(f, e.item, art[e.item].date)
      BY <2>2 DEF Sourced, Stored, ItemsOf
    <3>2. PICK u \in Version(f) :
            \E d \in EntryRow(f) : Lists(f, u, d) /\ d.item = e.item /\ d.date = art[e.item].date
      BY <1>1, <3>1, WasListed
    <3>3. PICK d \in EntryRow(f) : Lists(f, u, d) /\ d.item = e.item /\ d.date = art[e.item].date
      BY <3>2
    <3>4. Lists(f, ver, e)
      BY DEF Lists
    <3>5. d.date = e.date
      <4> HIDE DEF e, ver
      <4>1. u \in Version(f) /\ ver \in Version(f)
        BY <1>2
      <4>2. Lists(f, u, d) /\ Lists(f, ver, e) /\ d.item = e.item
        BY <3>3, <3>4
      <4> QED BY <4>1, <4>2, OneDate
    <3> QED BY <3>3, <3>5
  <2> DEFINE K == Newer(e.item, Stored(f))
  <2>4. K \in SUBSET Stored(f) /\ \A j \in K : art[j].date > e.date
    BY <2>3 DEF Newer
  <2>5. Lists(f, ver, e)
    BY DEF Lists
  <2> HIDE DEF K, e, ver
  <2>6. Cardinality(K) < Cardinality(canonical_item_urls(f, ver))
    BY <1>1, <1>2, <2>2, <2>4, <2>5, FewNewer
  <2> QED BY <1>3, <2>2, <2>6 DEF K, e
<1>8. ASSUME NEW S \in SUBSET Item, I \subseteq S PROVE Enough(In(S), Cardinality(sample))
  <2> DEFINE T == {i \in S : i[2] \in sample}
  <2>1. T \in SUBSET Item /\ I \in SUBSET T
    BY <1>4, <1>8
  <2> HIDE DEF T, I
  <2>2. IsFiniteSet(T) /\ Cardinality(T) \in Nat
    BY <2>1, ItemsFinite
  <2>3. Cardinality(I) <= Cardinality(T)
    BY <2>1, <2>2, FS_Subset
  <2>4. 10 * Cardinality(T) >= 8 * Cardinality(sample)
    <3> HIDE DEF sample
    <3> QED BY <1>4, <2>2, <2>3
  <2> QED BY <2>4 DEF Enough, T
<1>9. Enough(In(Stored(f)), Cardinality(sample)) /\ Enough(In(Recent), Cardinality(sample))
  <2>1. Stored(f) \in SUBSET Item /\ Recent \in SUBSET Item
    BY DEF Stored, ItemsOf
  <2> HIDE DEF I, In, Recent
  <2> QED BY <1>6, <1>7, <1>8, <2>1
<1>10. Cardinality(sample) >= MinItems
  BY <1>3 DEF Judgeable
<1> QED BY <1>1, <1>9, <1>10 DEF find_mirror_source

\* Which steps move the sites, remove articles, and change refreshes and imports.
LEMMA StepFrame ==
  ASSUME [Next]_vars
  PROVE  /\ server' = server \/ \E s \in DOMAIN Document : Publish(s)
         /\ UNCHANGED <<tomb, gone>> \/ CapDelete \/ (\E i \in Item : DeleteArticle(i)) \/ \E f \in Feed : Cleanup(f)
         /\ \/ refreshes' \subseteq refreshes
            \/ \E p \in Process, f \in Feed : Begin(p, f)
            \/ \E r \in refreshes : \/ Fetch(r) \/ Ingest(r) \/ CountSubscribers(r)
                                   \/ \E found \in BOOLEAN : Judge(r, found)
         /\ \/ imports' \subseteq imports
            \/ \E f \in Feed, kind \in {"discover", "opml", "admin"}, found \in BOOLEAN : Import(f, kind, found)
            \/ \E m \in imports : ImportMirror(m) \/ ImportInsert(m) \/ ImportSubscribe(m) \/ ImportIngest(m)
<1> DEFINE Site1 == server' = server \/ \E s \in DOMAIN Document : Publish(s)
<1> DEFINE Gone1 == \/ UNCHANGED <<tomb, gone>> \/ CapDelete \/ \E i \in Item : DeleteArticle(i)
                    \/ \E f \in Feed : Cleanup(f)
<1> DEFINE Refresh1 == \/ refreshes' \subseteq refreshes
                       \/ \E p \in Process, f \in Feed : Begin(p, f)
                       \/ \E r \in refreshes : \/ Fetch(r) \/ Ingest(r) \/ CountSubscribers(r)
                                              \/ \E found \in BOOLEAN : Judge(r, found)
<1> DEFINE Import1 ==
       \/ imports' \subseteq imports
       \/ \E f \in Feed, kind \in {"discover", "opml", "admin"}, found \in BOOLEAN : Import(f, kind, found)
       \/ \E m \in imports : ImportMirror(m) \/ ImportInsert(m) \/ ImportSubscribe(m) \/ ImportIngest(m)
<1> DEFINE Goal == Site1 /\ Gone1 /\ Refresh1 /\ Import1
<1>1. ASSUME TablesNext, UNCHANGED <<server, refreshes, imports>> PROVE Goal
  <2>1. Gone1
    <3>1. ASSUME CapLock \/ CompactApply PROVE UNCHANGED <<tomb, gone>>
      BY <3>1 DEF CapLock, CompactApply
    <3>2. ASSUME NEW f \in Feed, Subscribe(f) \/ Archive(f) \/ Unarchive(f) PROVE UNCHANGED <<tomb, gone>>
      BY <3>2 DEF Subscribe, Archive, Unarchive
    <3>3. ASSUME NEW f \in Feed, NEW running \in BOOLEAN, CapRank(f, running) PROVE UNCHANGED <<tomb, gone>>
      BY <3>3 DEF CapRank
    <3>4. ASSUME NEW f \in subs, Unsubscribe(f) PROVE UNCHANGED <<tomb, gone>>
      BY <3>4 DEF Unsubscribe
    <3>5. ASSUME NEW i \in Item, Mine(i) \/ CompactPick(i) PROVE UNCHANGED <<tomb, gone>>
      BY <3>5 DEF Mine, CompactPick
    <3>6. ASSUME NEW i \in Item, NEW kind \in {"bookmark", "read", "fact"}, Refer(i, kind)
          PROVE  UNCHANGED <<tomb, gone>>
      BY <3>6 DEF Refer
    <3>7. ASSUME NEW i \in Item, NEW staged \in BOOLEAN, Stage(i, staged) PROVE UNCHANGED <<tomb, gone>>
      BY <3>7 DEF Stage
    <3>8. ASSUME NEW r \in refs, Unrefer(r) PROVE UNCHANGED <<tomb, gone>>
      BY <3>8 DEF Unrefer
    <3> QED BY <1>1, <3>1, <3>2, <3>3, <3>4, <3>5, <3>6, <3>7, <3>8 DEF TablesNext
  <2> QED BY <1>1, <2>1
<1>2. ASSUME NEW s \in DOMAIN Document, Publish(s) PROVE Goal
  BY <1>2 DEF Publish
<1>3. ASSUME NEW p \in Process, Crash(p) PROVE Goal
  BY <1>3 DEF Crash, Unread
<1>4. ASSUME NEW p \in Process, NEW f \in Feed, Begin(p, f) PROVE Goal
  BY <1>4 DEF Begin, Unread
<1>5. ASSUME NEW r \in refreshes, FetchFails(r) \/ StoreFails(r) \/ Unmodified(r) \/ Complete(r) \/ Exclude(r)
      PROVE  Goal
  <2>1. refreshes' \subseteq refreshes
    BY <1>5 DEF FetchFails, StoreFails, RecordFailure, Unmodified, Complete, Exclude
  <2>2. UNCHANGED <<tomb, gone, server, imports>>
    BY <1>5 DEF FetchFails, StoreFails, Unmodified, Complete, Exclude, Unread
  <2> QED BY <2>1, <2>2
<1>6. ASSUME NEW r \in refreshes,
             Fetch(r) \/ Ingest(r) \/ CountSubscribers(r) \/ \E found \in BOOLEAN : Judge(r, found)
      PROVE  Goal
  <2>1. UNCHANGED <<tomb, gone, server, imports>>
    BY <1>6 DEF Fetch, Ingest, CountSubscribers, Judge, Unread
  <2> QED BY <1>6, <2>1
<1>7. ASSUME NEW f \in Feed, NewFeed(f) PROVE Goal
  BY <1>7 DEF NewFeed, Unread
<1>8. ASSUME NEW f \in Feed, NEW kind \in {"discover", "opml", "admin"}, NEW found \in BOOLEAN,
             Import(f, kind, found)
      PROVE  Goal
  BY <1>8 DEF Import, Rest
<1>9. ASSUME NEW m \in imports, ImportMirror(m) \/ ImportInsert(m) \/ ImportSubscribe(m) \/ ImportIngest(m)
      PROVE  Goal
  <2>1. UNCHANGED <<tomb, gone, server, refreshes>>
    BY <1>9 DEF ImportMirror, ImportInsert, ImportSubscribe, ImportIngest, Rest
  <2> QED BY <1>9, <2>1
<1>10. ASSUME NEW m \in imports, ImportEnds(m) PROVE Goal
  BY <1>10 DEF ImportEnds, Rest
<1>11. ASSUME NEW f \in Feed, Cleanup(f) PROVE Goal
  <2>1. server' = server /\ refreshes' \subseteq refreshes /\ imports' \subseteq imports
    BY <1>11 DEF Cleanup
  <2> QED BY <1>11, <2>1
<1>12. ASSUME UNCHANGED vars PROVE Goal
  BY <1>12 DEF vars
<1> HIDE DEF Goal
<1>13. Goal
  BY <1>1, <1>2, <1>3, <1>4, <1>5, <1>6, <1>7, <1>8, <1>9, <1>10, <1>11, <1>12 DEF Next
<1> QED BY <1>13 DEF Goal

\* A site never serves an older version than before.
LEMMA ServedGrows ==
  ASSUME RefreshInv, [Next]_vars, NEW f \in Feed
  PROVE  /\ Served(f) \in Nat /\ Served(f)' \in Nat /\ Served(f) <= Served(f)'
         /\ Served(f)' \in Version(f)
<1>1. ServerOK /\ ServerOK'
  BY RefreshInductive DEF RefreshInv
<1>2. Served(f) \in Nat /\ Served(f) \in Version(f)
  BY <1>1, ServedVersion
<1>3. Served(f)' \in Nat /\ Served(f)' \in Version(f)
  BY <1>1, RefreshAssumption DEF RefreshAssumption, ServerOK, Served, Version
<1>4. CASE server' = server
  BY <1>2, <1>4 DEF Served
<1>5. ASSUME NEW s \in DOMAIN Document, Publish(s) PROVE Served(f) <= Served(f)'
  BY <1>1, <1>2, <1>5 DEF Publish, Served, ServerOK
<1> QED BY <1>2, <1>3, <1>4, <1>5, StepFrame

\* What was listed stays so.
LEMMA ListedStays ==
  ASSUME RefreshInv, [Next]_vars, NEW f \in Feed, NEW i, NEW date, Listed(f, i, date)
  PROVE  Listed(f, i, date)'
<1>1. Served(f) \in Nat /\ Served(f)' \in Nat /\ Served(f) <= Served(f)'
  BY ServedGrows
<1>2. 1..Served(f) \subseteq 1..(Served(f)')
  BY <1>1
<1> QED BY <1>2 DEF Listed

\* What a step may write to the row of a feed: it is taken back only by an administrator,
\* its watermark rises only to the date of what is evicted, and it is admitted by an
\* administrator or at the end of a refresh.
RowKept(f, w) ==
  /\ ~w.archived /\ ~w.restored => ~feed[f].archived /\ ~feed[f].restored
  /\ \/ w.mark = feed[f].mark
     \/ /\ cap # None /\ cap.step = "locked" /\ cap.feed = f
        /\ \E i \in cap.ids : w.mark = art[i].date
  /\ \/ w.admitted = feed[f].admitted
     \/ w.admitted = [by |-> "admin", ver |-> None]
     \/ \E r \in refreshes : /\ r.feed = f /\ r.step = "complete" /\ Judgeable(f, r.ver)
                             /\ w.admitted = [by |-> r.by, ver |-> r.ver]
RowStep(f) == \/ feed[f] = None /\ feed'[f] = NewRow
              \/ feed[f] # None /\ RowKept(f, feed'[f])
RowsStep   == \A f \in Feed : feed'[f] # None => RowStep(f)

\* Rows that are not written.
LEMMA RowsUnwritten ==
  ASSUME feed' = feed
  PROVE  RowsStep
BY DEF RowsStep, RowStep, RowKept

\* A row that is written.
LEMMA RowWritten ==
  ASSUME TablesOK, NEW f \in Feed, feed[f] # None, NEW w, RowKept(f, w), feed' = [feed EXCEPT ![f] = w]
  PROVE  RowsStep
<1>1. \A g \in Feed : IF g = f THEN feed'[g] = w ELSE feed'[g] = feed[g]
  BY DEF TablesOK
<1>2. ASSUME NEW g \in Feed, feed'[g] # None PROVE RowStep(g)
  BY <1>1, <1>2 DEF RowStep, RowKept
<1> QED BY <1>2 DEF RowsStep

\* A row that is added.
LEMMA RowAdded ==
  ASSUME TablesOK, NEW f \in Feed, feed[f] = None, feed' = [feed EXCEPT ![f] = NewRow]
  PROVE  RowsStep
<1>1. \A g \in Feed : IF g = f THEN feed'[g] = NewRow ELSE feed'[g] = feed[g]
  BY DEF TablesOK
<1>2. ASSUME NEW g \in Feed, feed'[g] # None PROVE RowStep(g)
  BY <1>1, <1>2 DEF RowStep, RowKept
<1> QED BY <1>2 DEF RowsStep

\* Counting the articles of a feed changes nothing else.
LEMMA CountRow ==
  ASSUME NEW w \in FeedRow, NEW n
  PROVE  LET v == [w EXCEPT !.count = n]
         IN v.archived = w.archived /\ v.restored = w.restored /\ v.mark = w.mark /\ v.admitted = w.admitted
BY DEF FeedRow

\* So an ingestion or a deletion does not.
LEMMA RowsCounted ==
  ASSUME TablesOK, NEW f \in Feed, feed[f] # None, NEW rows, feed' = Count(rows, f)
  PROVE  RowsStep
<1> DEFINE n == Cardinality({i \in ItemsOf(f) : rows[i] # None})
<1> DEFINE w == [feed[f] EXCEPT !.count = n]
<1>1. feed[f] \in FeedRow /\ feed' = [feed EXCEPT ![f] = w]
  BY DEF TablesOK, Count
<1>2. RowKept(f, w)
  <2> HIDE DEF n
  <2>1. w.archived = feed[f].archived /\ w.restored = feed[f].restored /\ w.mark = feed[f].mark
        /\ w.admitted = feed[f].admitted
    BY <1>1, CountRow
  <2> HIDE DEF w
  <2> QED BY <2>1 DEF RowKept
<1> HIDE DEF w
<1> QED BY <1>1, <1>2, RowWritten

\* The eviction also raises the watermark.
LEMMA RowsEvicted ==
  ASSUME RefreshInv, CapDelete
  PROVE  RowsStep
<1> DEFINE f == cap.feed
<1>1. TablesOK /\ LocksRanked /\ cap # None /\ cap.step = "locked"
  BY DEF RefreshInv, CapDelete
<1>2. f \in Feed /\ feed[f] # None /\ feed[f] \in FeedRow /\ feed[f].mark \in Nat
  BY <1>1, Fields DEF TablesOK, CapRow
<1>3. PICK free \in SUBSET cap.ids :
        LET out == Evicted(free)
            old == {art[i].date : i \in out} \cup {feed[cap.feed].mark}
        IN feed' = [Count(art', cap.feed) EXCEPT ![cap.feed].mark = Max(old)]
  BY DEF CapDelete
<1> DEFINE out == Evicted(free)
<1> DEFINE top == Max({art[i].date : i \in out} \cup {feed[f].mark})
<1> DEFINE n == Cardinality({i \in ItemsOf(f) : art'[i] # None})
<1> DEFINE counted == [feed[f] EXCEPT !.count = n]
<1> DEFINE w == [counted EXCEPT !.mark = top]
<1>4. \A i \in out : i \in Item /\ i \in cap.ids /\ art[i] # None /\ art[i].date \in Nat
  BY <1>1, Fields DEF Evicted, LocksRanked, Stored, ItemsOf, TablesOK
<1>5. top \in {art[i].date : i \in out} \cup {feed[f].mark}
  <2>1. IsFiniteSet(out)
    BY <1>4, ItemsFinite
  <2> HIDE DEF out, f
  <2> QED BY <2>1, <1>2, <1>4, MaxOfDates
<1>6. feed' = [feed EXCEPT ![f] = w]
  BY <1>1, <1>2, <1>3 DEF Count, TablesOK
<1>7. /\ w.archived = feed[f].archived /\ w.restored = feed[f].restored
      /\ w.admitted = feed[f].admitted /\ w.mark = top
  <2> HIDE DEF top, n
  <2> QED BY <1>2 DEF FeedRow
<1> HIDE DEF w, top, out
<1>8. RowKept(f, w)
  BY <1>1, <1>4, <1>5, <1>7 DEF RowKept
<1> HIDE DEF f
<1> QED BY <1>1, <1>2, <1>6, <1>8, RowWritten

\* Archiving a feed or taking it back.
LEMMA RowsArchived ==
  ASSUME RefreshInv, NEW f \in Feed, Archive(f) \/ Unarchive(f)
  PROVE  RowsStep
<1>1. TablesOK /\ feed[f] # None /\ feed[f] \in FeedRow
  BY DEF RefreshInv, TablesOK, Archive, Unarchive, Active
<1>2. CASE Archive(f)
  <2> DEFINE w == [feed[f] EXCEPT !.archived = TRUE]
  <2>1. feed' = [feed EXCEPT ![f] = w]
    BY <1>1, <1>2 DEF Archive, TablesOK
  <2>2. w.archived /\ w.mark = feed[f].mark /\ w.admitted = feed[f].admitted
    BY <1>1 DEF FeedRow
  <2> HIDE DEF w
  <2>3. RowKept(f, w)
    BY <2>2 DEF RowKept
  <2> QED BY <1>1, <2>1, <2>3, RowWritten
<1>3. CASE Unarchive(f)
  <2> DEFINE a == IF feed[f].reason = "excluded" \/ feed[f].admitted # None
                  THEN [by |-> "admin", ver |-> None] ELSE feed[f].admitted
  <2> DEFINE w == [feed[f] EXCEPT !.archived = FALSE, !.restored = TRUE, !.admitted = a]
  <2>1. feed' = [feed EXCEPT ![f] = w]
    BY <1>1, <1>3 DEF Unarchive, TablesOK
  <2>2. w.restored /\ w.mark = feed[f].mark /\ w.admitted = a
    BY <1>1 DEF FeedRow
  <2>3. a = [by |-> "admin", ver |-> None] \/ a = feed[f].admitted
    OBVIOUS
  <2> HIDE DEF w, a
  <2>4. RowKept(f, w)
    BY <2>2, <2>3 DEF RowKept
  <2> QED BY <1>1, <2>1, <2>4, RowWritten
<1> QED BY <1>2, <1>3

\* The end of a refresh.
LEMMA RowsRefreshed ==
  ASSUME RefreshInv, NEW r \in refreshes,
         FetchFails(r) \/ StoreFails(r) \/ Unmodified(r) \/ Complete(r) \/ Exclude(r)
  PROVE  RowsStep
<1> DEFINE f == r.feed
<1>1. TablesOK /\ f \in Feed /\ feed[f] # None /\ feed[f] \in FeedRow
  BY DEF RefreshInv, RefreshOK, RefreshRow, TablesOK
<1>2. CASE FetchFails(r) \/ StoreFails(r)
  <2>1. \E reason \in {"fetch_failed", "ingest_failed"} : RecordFailure(r, reason)
    BY <1>2 DEF FetchFails, StoreFails
  <2>2. PICK reason \in {"fetch_failed", "ingest_failed"} : RecordFailure(r, reason)
    BY <2>1
  <2> DEFINE n == r.failures + 1
  <2> DEFINE archived == feed[f].archived \/ n >= MaxFailures
  <2> DEFINE w == [feed[f] EXCEPT !.failures = n, !.reason = reason, !.archived = archived]
  <2>3. feed' = [feed EXCEPT ![f] = w]
    BY <1>1, <2>2 DEF RecordFailure, TablesOK
  <2>4. ~archived => ~feed[f].archived
    OBVIOUS
  <2> HIDE DEF n, archived
  <2>5. /\ w.archived = archived /\ w.restored = feed[f].restored
        /\ w.mark = feed[f].mark /\ w.admitted = feed[f].admitted
    BY <1>1 DEF FeedRow
  <2> HIDE DEF w
  <2>6. RowKept(f, w)
    BY <2>4, <2>5 DEF RowKept
  <2> HIDE DEF f
  <2> QED BY <1>1, <2>3, <2>6, RowWritten
<1>3. CASE Unmodified(r)
  <2> DEFINE w == Succeeded(r, r.ask)
  <2>1. feed' = [feed EXCEPT ![f] = w]
    BY <1>3 DEF Unmodified
  <2>2. /\ w.archived = feed[f].archived /\ w.restored = feed[f].restored
        /\ w.mark = feed[f].mark /\ w.admitted = feed[f].admitted
    BY <1>1 DEF FeedRow, Succeeded
  <2> HIDE DEF w
  <2>3. RowKept(f, w)
    BY <2>2 DEF RowKept
  <2> HIDE DEF f
  <2> QED BY <1>1, <2>1, <2>3, RowWritten
<1>4. CASE Complete(r)
  <2> DEFINE judged == r.gated /\ Cardinality(canonical_item_urls(f, r.ver)) >= MinItems
  <2> DEFINE row == Succeeded(r, r.ver)
  <2> DEFINE a == [by |-> r.by, ver |-> r.ver]
  <2> DEFINE w == IF judged THEN [row EXCEPT !.admitted = a] ELSE row
  <2>1. feed' = [feed EXCEPT ![f] = w] /\ r.step = "complete"
    BY <1>4 DEF Complete
  <2>2. judged => Judgeable(f, r.ver)
    BY DEF Judgeable
  <2>3. /\ row.archived = feed[f].archived /\ row.restored = feed[f].restored
        /\ row.mark = feed[f].mark /\ row.admitted = feed[f].admitted
    BY <1>1 DEF FeedRow, Succeeded
  <2>4. row \in FeedRow
    <3>1. r.ver \in Nat \cup {None}
      BY DEF RefreshInv, RefreshOK, RefreshRow
    <3> QED BY <1>1, <3>1, SucceededTyped DEF Succeeded
  <2> HIDE DEF judged, row, a
  <2>5. /\ w.archived = feed[f].archived /\ w.restored = feed[f].restored
        /\ w.mark = feed[f].mark /\ w.admitted = IF judged THEN a ELSE feed[f].admitted
    BY <1>1, <2>3, <2>4 DEF FeedRow
  <2> HIDE DEF w
  <2>6. RowKept(f, w)
    BY <2>1, <2>2, <2>5 DEF RowKept, a
  <2> HIDE DEF f
  <2> QED BY <1>1, <2>1, <2>6, RowWritten
<1>5. CASE Exclude(r)
  <2> DEFINE w == [feed[f] EXCEPT !.archived = TRUE, !.reason = "excluded"]
  <2>1. feed' = [feed EXCEPT ![f] = w]
    BY <1>1, <1>5 DEF Exclude, TablesOK
  <2>2. w.archived /\ w.mark = feed[f].mark /\ w.admitted = feed[f].admitted
    BY <1>1 DEF FeedRow
  <2> HIDE DEF w
  <2>3. RowKept(f, w)
    BY <2>2 DEF RowKept
  <2> HIDE DEF f
  <2> QED BY <1>1, <2>1, <2>3, RowWritten
<1> QED BY <1>2, <1>3, <1>4, <1>5

\* Every step writes rows only so.
LEMMA EveryRowStep ==
  ASSUME RefreshInv, [Next]_vars
  PROVE  RowsStep
<1>1. TablesOK
  BY DEF RefreshInv
<1>2. ASSUME TablesNext PROVE RowsStep
  <2>1. CASE CapLock \/ CompactApply
    BY <2>1, RowsUnwritten DEF CapLock, CompactApply
  <2>2. CASE CapDelete
    BY <2>2, RowsEvicted
  <2>3. ASSUME NEW f \in Feed, Archive(f) \/ Unarchive(f) PROVE RowsStep
    BY <2>3, RowsArchived
  <2>4. ASSUME NEW f \in Feed, Subscribe(f) \/ \E running \in BOOLEAN : CapRank(f, running) PROVE RowsStep
    BY <2>4, RowsUnwritten DEF Subscribe, CapRank
  <2>5. ASSUME NEW i \in Item, DeleteArticle(i) PROVE RowsStep
    <3>1. i[1] \in Feed /\ feed[i[1]] # None /\ feed' = Count(art', i[1])
      BY <1>1, <2>5, ArticleAssumption DEF ArticleAssumption, DeleteArticle, TablesOK
    <3> QED BY <1>1, <3>1, RowsCounted
  <2>6. ASSUME NEW i \in Item,
               \/ Mine(i) \/ CompactPick(i)
               \/ \E kind \in {"bookmark", "read", "fact"} : Refer(i, kind)
               \/ \E staged \in BOOLEAN : Stage(i, staged)
        PROVE  RowsStep
    BY <2>6, RowsUnwritten DEF Mine, CompactPick, Refer, Stage
  <2>7. ASSUME NEW f \in subs, Unsubscribe(f) PROVE RowsStep
    BY <2>7, RowsUnwritten DEF Unsubscribe
  <2>8. ASSUME NEW r \in refs, Unrefer(r) PROVE RowsStep
    BY <2>8, RowsUnwritten DEF Unrefer
  <2> QED BY <1>2, <2>1, <2>2, <2>3, <2>4, <2>5, <2>6, <2>7, <2>8 DEF TablesNext
<1>3. ASSUME NEW f, f \in Feed, feed[f] # None, NEW e, ingest_article_batch(f, e.item, e.date, e.rev) PROVE RowsStep
  BY <1>1, <1>3, RowsCounted DEF ingest_article_batch
<1>4. ASSUME NEW r \in refreshes, Ingest(r) PROVE RowsStep
  <2>1. r.feed \in Feed /\ feed[r.feed] # None
    BY DEF RefreshInv, RefreshOK, RefreshRow
  <2> QED BY <1>3, <1>4, <2>1, RowsUnwritten DEF Ingest
<1>5. ASSUME NEW m \in imports, ImportIngest(m) PROVE RowsStep
  <2>1. m.feed \in Feed /\ feed[m.feed] # None
    BY <1>5 DEF RefreshInv, ImportOK, ImportRow, ImportIngest
  <2> QED BY <1>3, <1>5, <2>1, RowsUnwritten DEF ImportIngest
<1>6. ASSUME NEW r \in refreshes,
             FetchFails(r) \/ StoreFails(r) \/ Unmodified(r) \/ Complete(r) \/ Exclude(r)
      PROVE  RowsStep
  BY <1>6, RowsRefreshed
<1>7. ASSUME NEW f \in Feed, NewFeed(f) PROVE RowsStep
  BY <1>1, <1>7, RowAdded DEF NewFeed
<1>8. ASSUME NEW m \in imports, ImportInsert(m) PROVE RowsStep
  <2>1. m.feed \in Feed
    BY DEF RefreshInv, ImportOK, ImportRow
  <2> QED BY <1>1, <1>8, <2>1, RowAdded, RowsUnwritten DEF ImportInsert
<1>9. ASSUME \/ \E s \in DOMAIN Document : Publish(s)
             \/ \E p \in Process : Crash(p) \/ \E f \in Feed : Begin(p, f)
             \/ \E r \in refreshes : Fetch(r) \/ CountSubscribers(r) \/ \E found \in BOOLEAN : Judge(r, found)
             \/ \E f \in Feed : \E kind \in {"discover", "opml", "admin"}, found \in BOOLEAN : Import(f, kind, found)
             \/ \E m \in imports : ImportMirror(m) \/ ImportSubscribe(m) \/ ImportEnds(m)
             \/ UNCHANGED vars
      PROVE  RowsStep
  BY <1>9, RowsUnwritten
  DEF Publish, Crash, Begin, Fetch, CountSubscribers, Judge, Import, ImportMirror, ImportSubscribe, ImportEnds, vars
<1>10. ASSUME NEW c \in Feed, Cleanup(c) PROVE RowsStep
  <2>1. ASSUME NEW f \in Feed, feed'[f] # None PROVE feed'[f] = feed[f]
    BY <1>10, <2>1, CleanupKeeps DEF Deleted
  <2> QED BY <2>1 DEF RowsStep, RowStep, RowKept
<1> QED BY <1>2, <1>4, <1>5, <1>6, <1>7, <1>8, <1>9, <1>10 DEF Next

\* The refreshes after a step are those before it, or come from one that begins, or from
\* one before it; one comes to act in the name of its process only at its gate.
Passes(r, p) ==
  r.proc = p /\ \E found \in BOOLEAN : Judge(r, found) /\ found /\ ~new_source_rejection(r.feed, r.ver, found)
Follows(q) ==
  /\ \A k \in DOMAIN q.left : Listed(q.feed, q.left[k].item, q.left[k].date)
  /\ GatedWell(q)
  /\ q.by \in Process =>
       \E r \in refreshes : r.feed = q.feed /\ r.ver = q.ver /\ (r.by = q.by \/ Passes(r, q.by))

\* A refresh that begins has no name and no version yet.
LEMMA BeginFollows ==
  ASSUME NEW p \in Process, NEW f \in Feed, Begin(p, f), NEW q \in refreshes'
  PROVE  q \in refreshes \/ Follows(q)
<1> DEFINE n == [proc |-> p, feed |-> f, ask |-> Ask(f, p = Api), failures |-> feed[f].failures,
                 gated |-> feed[f].admitted = None, step |-> "fetch", ver |-> None, left |-> <<>>, by |-> None]
<1>1. refreshes' = refreshes \cup {n}
  BY DEF Begin
<1>2. n.step = "fetch" /\ n.ver = None /\ n.left = <<>> /\ n.by = None
  OBVIOUS
<1> HIDE DEF n
<1>3. Follows(n)
  BY <1>2, RefreshAssumption DEF RefreshAssumption, Follows, GatedWell
<1> QED BY <1>1, <1>3

\* An answer lists what the site serves, and gives no name.
LEMMA FetchFollows ==
  ASSUME RefreshInv, Sourced, Verdicts, NEW r \in refreshes, Fetch(r), NEW q \in refreshes'
  PROVE  q \in refreshes \/ Follows(q)
<1> DEFINE now == Served(r.feed)
<1>1. r \in RefreshRow /\ r.feed \in Feed /\ GatedWell(r) /\ r.step = "fetch"
  BY DEF RefreshInv, RefreshOK, RefreshRow, Verdicts, Fetch
<1>2. now \in Nat /\ now \in Version(r.feed)
  BY <1>1, ServedVersion DEF RefreshInv
<1>3. CASE r.ask = now
  <2> DEFINE n == [r EXCEPT !.step = "unmodified"]
  <2>1. refreshes' = Swap(refreshes, r, n)
    BY <1>3 DEF Fetch, Served
  <2>2. /\ n.feed = r.feed /\ n.ver = r.ver /\ n.left = r.left /\ n.by = r.by /\ n.step = "unmodified"
    BY <1>1 DEF RefreshRow
  <2> HIDE DEF n
  <2>3. Follows(n)
    BY <1>1, <2>2 DEF Follows, GatedWell, Sourced
  <2> QED BY <2>1, <2>3 DEF Swap
<1>4. CASE r.ask # now
  <2> DEFINE left == parse_feed(r.feed, now)
  <2> DEFINE step == IF r.gated THEN "gate" ELSE "ingest"
  <2> DEFINE n == [r EXCEPT !.ver = now, !.left = left, !.step = step]
  <2>1. refreshes' = Swap(refreshes, r, n)
    BY <1>4 DEF Fetch, Served
  <2>2. step \in {"gate", "ingest"} /\ (step = "gate" => r.gated)
    OBVIOUS
  <2>3. \A k \in DOMAIN left : Listed(r.feed, left[k].item, left[k].date)
    <3>1. now \in 1..Served(r.feed)
      BY <1>2 DEF Version
    <3> QED BY <3>1 DEF Listed
  <2> HIDE DEF step, left
  <2>4. /\ n.feed = r.feed /\ n.ver = now /\ n.left = left /\ n.by = r.by /\ n.step = step /\ n.gated = r.gated
    <3> HIDE DEF now
    <3> QED BY <1>1 DEF RefreshRow
  <2> HIDE DEF n
  <2>5. Follows(n)
    BY <1>1, <1>2, <2>2, <2>3, <2>4 DEF Follows, GatedWell
  <2> QED BY <2>1, <2>5 DEF Swap
<1> QED BY <1>3, <1>4

\* A refresh that changes only its step, or comes to act in the name of its process.
LEMMA MovedFollows ==
  ASSUME RefreshInv, Sourced, Verdicts, NEW r \in refreshes, r.gated, r.step # "complete",
         NEW n \in RefreshRow, n.feed = r.feed, n.ver = r.ver, n.left = r.left,
         n.gated = r.gated, n.proc = r.proc, n.step \in {"rejected", "exclude", "ingest"},
         n.by \in Process => n.by = r.proc /\ n.step = "ingest" /\ (r.by = n.by \/ Passes(r, n.by))
  PROVE  Follows(n)
BY DEF Follows, GatedWell, Sourced, Verdicts

\* The gate names its process, if it judged by a look-up that found nothing.
LEMMA JudgeFollows ==
  ASSUME RefreshInv, Sourced, Verdicts, NEW r \in refreshes, NEW found \in BOOLEAN, Judge(r, found),
         NEW q \in refreshes'
  PROVE  q \in refreshes \/ Follows(q)
<1>1. r \in RefreshRow /\ r.feed \in Feed /\ GatedWell(r) /\ r.step = "gate" /\ r.gated /\ r.proc \in Process
  BY DEF RefreshInv, RefreshOK, RefreshRow, Verdicts, Judge, GatedWell
<1>2. CASE new_source_rejection(r.feed, r.ver, found)
  <2> DEFINE n == [r EXCEPT !.step = "rejected"]
  <2>1. refreshes' = Swap(refreshes, r, n)
    BY <1>2 DEF Judge
  <2>2. /\ n \in RefreshRow /\ n.feed = r.feed /\ n.ver = r.ver /\ n.left = r.left /\ n.by = r.by
        /\ n.step = "rejected" /\ n.gated = r.gated /\ n.proc = r.proc
    BY <1>1 DEF RefreshRow
  <2> HIDE DEF n
  <2>3. n.by \notin Process
    BY <1>1, <2>2 DEF GatedWell
  <2>4. Follows(n)
    BY <1>1, <2>2, <2>3, MovedFollows
  <2> QED BY <2>1, <2>4 DEF Swap
<1>3. CASE ~new_source_rejection(r.feed, r.ver, found)
  <2> DEFINE by == IF found THEN r.proc ELSE "kept"
  <2> DEFINE n == [r EXCEPT !.step = "ingest", !.by = by]
  <2>1. refreshes' = Swap(refreshes, r, n)
    BY <1>3 DEF Judge
  <2>2. by \in Process => by = r.proc /\ Passes(r, by)
    BY <1>3, RefreshAssumption DEF RefreshAssumption, Passes
  <2>3. by \in Process \cup {"kept", None}
    BY <1>1
  <2> HIDE DEF by
  <2>4. /\ n \in RefreshRow /\ n.feed = r.feed /\ n.ver = r.ver /\ n.left = r.left /\ n.by = by
        /\ n.step = "ingest" /\ n.gated = r.gated /\ n.proc = r.proc
    BY <1>1, <2>3 DEF RefreshRow
  <2> HIDE DEF n
  <2>5. Follows(n)
    BY <1>1, <2>2, <2>4, MovedFollows
  <2> QED BY <2>1, <2>5 DEF Swap
<1> QED BY <1>2, <1>3

\* A feed that is let in because of its subscribers is let in in nobody's name.
LEMMA CountSubscribersFollows ==
  ASSUME RefreshInv, Sourced, Verdicts, NEW r \in refreshes, CountSubscribers(r), NEW q \in refreshes'
  PROVE  q \in refreshes \/ Follows(q)
<1>1. r \in RefreshRow /\ r.feed \in Feed /\ GatedWell(r) /\ r.step = "rejected" /\ r.gated
  BY DEF RefreshInv, RefreshOK, RefreshRow, Verdicts, CountSubscribers, GatedWell
<1> DEFINE kept == [r EXCEPT !.step = "ingest", !.by = "kept"]
<1> DEFINE out == [r EXCEPT !.step = "exclude"]
<1>2. \E n \in {kept, out} : refreshes' = Swap(refreshes, r, n)
  BY DEF CountSubscribers
<1>3. ASSUME NEW n \in {kept, out}
      PROVE  /\ n \in RefreshRow /\ n.feed = r.feed /\ n.ver = r.ver /\ n.left = r.left
             /\ n.by \in {r.by, "kept"} /\ n.step \in {"exclude", "ingest"}
             /\ n.gated = r.gated /\ n.proc = r.proc
  BY <1>1 DEF RefreshRow
<1> HIDE DEF kept, out
<1>4. r.by \notin Process /\ "kept" \notin Process
  BY <1>1, RefreshAssumption DEF RefreshAssumption, GatedWell
<1>5. ASSUME NEW n \in {kept, out} PROVE Follows(n)
  BY <1>1, <1>3, <1>4, MovedFollows
<1> QED BY <1>2, <1>5 DEF Swap

\* An ingestion leaves fewer entries.
LEMMA IngestFollows ==
  ASSUME RefreshInv, Sourced, Verdicts, NEW r \in refreshes, Ingest(r), NEW q \in refreshes'
  PROVE  q \in refreshes \/ Follows(q)
<1>1. /\ r \in RefreshRow /\ r.feed \in Feed /\ GatedWell(r) /\ r.step = "ingest"
      /\ r.left \in Seq(EntryRow(r.feed))
  BY DEF RefreshInv, RefreshOK, RefreshRow, Verdicts, Ingest
<1> DEFINE left == IF r.left = <<>> THEN <<>> ELSE Tail(r.left)
<1> DEFINE step == IF Len(r.left) <= 1 THEN "complete" ELSE "ingest"
<1> DEFINE n == [r EXCEPT !.left = left, !.step = step]
<1>2. refreshes' = Swap(refreshes, r, n)
  BY <1>1 DEF Ingest, RefreshRow
<1>3. \A k \in DOMAIN left : \E m \in DOMAIN r.left : r.left[m] = left[k]
  <2>1. SUFFICES ASSUME r.left # <<>>, NEW k \in DOMAIN Tail(r.left)
                 PROVE  k + 1 \in DOMAIN r.left /\ r.left[k + 1] = Tail(r.left)[k]
    OBVIOUS
  <2> QED BY <1>1, <2>1
<1>4. step \in {"ingest", "complete"}
  OBVIOUS
<1> HIDE DEF left, step
<1>5. /\ n.feed = r.feed /\ n.ver = r.ver /\ n.left = left /\ n.by = r.by /\ n.step = step
      /\ n.gated = r.gated /\ n.proc = r.proc
  BY <1>1 DEF RefreshRow
<1> HIDE DEF n
<1>6. Follows(n)
  BY <1>1, <1>3, <1>4, <1>5 DEF Follows, GatedWell, Sourced
<1> QED BY <1>2, <1>6 DEF Swap

\* So for every step.
LEMMA EveryRefreshFollows ==
  ASSUME RefreshInv, Sourced, Verdicts, [Next]_vars, NEW q \in refreshes'
  PROVE  q \in refreshes \/ Follows(q)
BY StepFrame, BeginFollows, FetchFollows, JudgeFollows, CountSubscribersFollows, IngestFollows

\* An import still has to store what was listed.
LEMMA ImportsSourced ==
  ASSUME RefreshInv, Sourced, [Next]_vars, NEW q \in imports', NEW k \in DOMAIN q.left
  PROVE  Listed(q.feed, q.left[k].item, q.left[k].date)
<1>1. CASE q \in imports
  BY <1>1 DEF Sourced
<1>2. ASSUME NEW f \in Feed, NEW kind \in {"discover", "opml", "admin"}, NEW found \in BOOLEAN,
             Import(f, kind, found), q \notin imports
      PROVE  Listed(q.feed, q.left[k].item, q.left[k].date)
  <2>1. q.feed = f /\ q.left = parse_feed(f, Served(f))
    <3> DEFINE left == parse_feed(f, server[Site[f]])
    <3> DEFINE new == [feed |-> f, kind |-> kind, step |-> "insert", left |-> left, mirror |-> None]
    <3>1. \E m : /\ imports' = imports \cup {m}
                 /\ m = new \/ \E g : m = [new EXCEPT !.step = "mirror", !.mirror = g]
      BY <1>2 DEF Import
    <3>2. q = new \/ \E g : q = [new EXCEPT !.step = "mirror", !.mirror = g]
      BY <1>2, <3>1
    <3> HIDE DEF left
    <3>3. new.feed = f /\ new.left = left
      OBVIOUS
    <3>4. ASSUME NEW g, q = [new EXCEPT !.step = "mirror", !.mirror = g] PROVE q.feed = f /\ q.left = left
      BY <3>4
    <3>5. q.feed = f /\ q.left = left
      <4> HIDE DEF new
      <4> QED BY <3>2, <3>3, <3>4
    <3> QED BY <3>5 DEF left, Served
  <2>2. Served(f) \in 1..Served(f)
    BY ServedVersion DEF RefreshInv, Version
  <2> QED BY <2>1, <2>2 DEF Listed
<1>3. ASSUME NEW m \in imports, ImportInsert(m) \/ ImportSubscribe(m), q \notin imports
      PROVE  Listed(q.feed, q.left[k].item, q.left[k].date)
  <2>1. m \in ImportRow
    BY DEF RefreshInv, ImportOK
  <2>2. q.feed = m.feed /\ q.left = m.left
    BY <1>3, <2>1 DEF ImportInsert, ImportSubscribe, Swap, ImportRow
  <2> QED BY <2>2 DEF Sourced
<1>4. ASSUME NEW m \in imports, ImportIngest(m), q \notin imports
      PROVE  Listed(q.feed, q.left[k].item, q.left[k].date)
  <2>1. m \in ImportRow /\ m.left \in Seq(EntryRow(m.feed)) /\ m.left # <<>>
    BY <1>4 DEF RefreshInv, ImportOK, ImportIngest
  <2>2. q.feed = m.feed /\ q.left = Tail(m.left)
    BY <1>4, <2>1 DEF ImportIngest, Swap, ImportRow
  <2>3. k + 1 \in DOMAIN m.left /\ m.left[k + 1] = Tail(m.left)[k]
    BY <2>1, <2>2
  <2>4. Listed(m.feed, m.left[k + 1].item, m.left[k + 1].date)
    BY <2>3 DEF Sourced
  <2> QED BY <2>2, <2>3, <2>4
<1>5. ASSUME NEW m \in imports, ImportMirror(m), q \notin imports
      PROVE  Listed(q.feed, q.left[k].item, q.left[k].date)
  <2>1. m \in ImportRow
    BY DEF RefreshInv, ImportOK
  <2>2. q.left = <<>> \/ (q.feed = m.feed /\ q.left = m.left)
    BY <1>5, <2>1 DEF ImportMirror, Swap, ImportRow
  <2> QED BY <2>2 DEF Sourced
<1> QED BY <1>1, <1>2, <1>3, <1>4, <1>5, StepFrame

\* What is stored, was removed or waits stays what was listed.
LEMMA SourcedKept ==
  ASSUME RefreshInv, Sourced, Verdicts, [Next]_vars
  PROVE  Sourced'
<1>1. TablesOK /\ TablesOK'
  BY RefreshInductive DEF RefreshInv
<1>2. ASSUME NEW i \in Item, art'[i] # None PROVE Listed(i[1], i, art'[i].date)
  <2>1. CASE art'[i] = art[i]
    BY <1>2, <2>1 DEF Sourced
  <2>2. CASE Ingested /\ art'[i] # art[i]
    <3>1. PICK e \in EntryRow(i[1]) : i = e.item /\ art'[i] = Row(i, e.date, e.rev) /\ Pending(i[1], e)
      BY <2>2, IngestedArticle
    <3>2. Listed(i[1], i, e.date)
      BY <3>1 DEF Pending, Sourced
    <3>3. CASE art[i] = None
      BY <3>1, <3>2, <3>3 DEF Row
    <3>4. CASE art[i] # None
      <4>1. art[i] \in ArticleRow
        BY <1>1, <3>4 DEF TablesOK
      <4>2. art'[i].date = art[i].date \/ art'[i].date = e.date
        BY <3>1, <3>4, <4>1 DEF Row, ArticleRow
      <4> QED BY <3>2, <3>4, <4>2 DEF Sourced
    <3> QED BY <3>3, <3>4
  <2>3. CASE CapDelete
    BY <1>2, <2>1, <2>3, EvictedArticle
  <2>4. ASSUME NEW j \in Item, DeleteArticle(j) PROVE art'[i] = art[i]
    BY <1>1, <1>2, <2>4 DEF DeleteArticle, TablesOK
  <2>5. ASSUME art'[i] # art[i], CompactApply \/ \E j \in Item : Mine(j) \/ \E staged \in BOOLEAN : Stage(j, staged)
        PROVE  art[i] # None /\ art'[i].date = art[i].date
    <3>1. art[i] # None
      BY <2>5, MarkedArticle
    <3>2. art[i] \in ArticleRow
      BY <1>1, <3>1 DEF TablesOK
    <3>3. \/ art'[i] = [art[i] EXCEPT !.full = FALSE]
          \/ art'[i] = [art[i] EXCEPT !.mined = TRUE]
          \/ \E staged \in BOOLEAN : art'[i] = [art[i] EXCEPT !.staged = staged]
      BY <1>1, <2>5 DEF CompactApply, Mine, Stage, TablesOK
    <3> QED BY <3>1, <3>2, <3>3, MarkFields
  <2>6. ASSUME NEW c \in Feed, Cleanup(c) PROVE art'[i] = art[i]
    BY <1>2, <2>6, CleanupKeeps
  <2> QED BY <2>1, <2>2, <2>3, <2>4, <2>5, <2>6, ArticleSteps DEF Sourced
<1>3. ASSUME NEW g \in gone' PROVE Listed(g.item[1], g.item, g.date)
  <2>1. CASE g \in gone
    BY <2>1 DEF Sourced
  <2>2. ASSUME NEW i \in Item, art[i] # None, g = [item |-> i, date |-> art[i].date]
        PROVE  Listed(g.item[1], g.item, g.date)
    BY <2>2 DEF Sourced
  <2>3. ASSUME CapDelete, g \notin gone PROVE Listed(g.item[1], g.item, g.date)
    <3>1. PICK free \in SUBSET cap.ids : gone' = gone \cup {[item |-> i, date |-> art[i].date] : i \in Evicted(free)}
      BY <2>3 DEF CapDelete
    <3>2. PICK i \in Evicted(free) : g = [item |-> i, date |-> art[i].date]
      BY <2>3, <3>1
    <3>3. i \in Item /\ art[i] # None
      <4>1. cap.ids \subseteq Item
        BY <1>1, <2>3 DEF CapDelete, TablesOK, CapRow
      <4> QED BY <4>1 DEF Evicted
    <3> QED BY <2>2, <3>2, <3>3
  <2>4. ASSUME NEW i \in Item, DeleteArticle(i), g \notin gone PROVE Listed(g.item[1], g.item, g.date)
    BY <2>2, <2>4 DEF DeleteArticle
  <2>5. ASSUME NEW c \in Feed, Cleanup(c) PROVE g \in gone
    BY <2>5 DEF Cleanup, DeleteFeed
  <2> QED BY <2>1, <2>3, <2>4, <2>5, StepFrame
<1>4. ASSUME NEW r \in refreshes', NEW k \in DOMAIN r.left PROVE Listed(r.feed, r.left[k].item, r.left[k].date)
  BY EveryRefreshFollows DEF Follows, Sourced
<1>5. /\ \A i \in Item : i[1] \in Feed
      /\ \A g \in gone' : g.item[1] \in Feed
      /\ \A r \in refreshes' : r.feed \in Feed
      /\ \A m \in imports' : m.feed \in Feed
  <2>1. RefreshInv'
    BY RefreshInductive
  <2> QED BY <1>1, <2>1, ArticleAssumption
          DEF ArticleAssumption, TablesOK, RefreshInv, RefreshOK, RefreshRow, ImportOK, ImportRow
<1> DEFINE Then(f, i, date) ==
       \E u \in 1..server'[Site[f]] : \E n \in DOMAIN parse_feed(f, u) :
         parse_feed(f, u)[n].item = i /\ parse_feed(f, u)[n].date = date
<1>6. \A f \in Feed : \A i, date : Listed(f, i, date) => Then(f, i, date)
  BY ListedStays DEF Listed, Served
<1>7. /\ \A i \in Item : art'[i] # None => Then(i[1], i, art'[i].date)
      /\ \A g \in gone' : Then(g.item[1], g.item, g.date)
      /\ \A r \in refreshes' : \A k \in DOMAIN r.left : Then(r.feed, r.left[k].item, r.left[k].date)
      /\ \A m \in imports' : \A k \in DOMAIN m.left : Then(m.feed, m.left[k].item, m.left[k].date)
  <2> HIDE DEF Then
  <2> QED BY <1>2, <1>3, <1>4, <1>5, <1>6, ImportsSourced
<1> QED BY <1>7 DEF Sourced, Listed, Served

\* Nothing listed now or later falls below the watermark: what the cap evicts is older
\* than Cap others, and a version that lists it lists them too.
LEMMA MarksBelowKept ==
  ASSUME RefreshInv, Sourced, MarksBelow, [Next]_vars
  PROVE  MarksBelow'
<1>1. TablesOK /\ ServerOK /\ LocksRanked
  BY DEF RefreshInv
<1>2. SUFFICES ASSUME NEW f \in Feed, Chronicle(f), feed'[f] # None,
                      NEW ver \in Version(f), ver >= Served(f)', NEW n \in DOMAIN parse_feed(f, ver)
               PROVE  parse_feed(f, ver)[n].date > feed'[f].mark
  BY DEF MarksBelow, Version
<1> DEFINE e == parse_feed(f, ver)[n]
<1>3. e \in EntryRow(f) /\ e.date \in Nat /\ e.date > 0 /\ Lists(f, ver, e)
  <2>1. e \in EntryRow(f) /\ Lists(f, ver, e)
    BY EntriesTyped DEF Lists
  <2> HIDE DEF e
  <2> QED BY <2>1 DEF EntryRow
<1>4. ver >= Served(f)
  BY <1>2, ServedGrows DEF Version
<1>5. RowStep(f)
  BY <1>2, EveryRowStep DEF RowsStep
<1>6. CASE feed[f] = None /\ feed'[f] = NewRow
  BY <1>3, <1>6 DEF NewRow
<1>7. CASE feed[f] # None /\ feed'[f].mark = feed[f].mark
  BY <1>2, <1>4, <1>7 DEF MarksBelow
<1>8. ASSUME feed[f] # None, cap # None, cap.step = "locked", cap.feed = f,
             NEW i \in cap.ids, feed'[f].mark = art[i].date
      PROVE  e.date > art[i].date
  <2> DEFINE K == Newer(i, Kept(f, cap.ids))
  <2>1. i \in Stored(f) /\ Cardinality(K) >= Cap
    BY <1>1, <1>8 DEF LocksRanked
  <2>2. art[i].date \in Nat
    BY <1>1, <2>1, Fields DEF TablesOK, Stored, ItemsOf
  <2>3. SUFFICES ASSUME e.date <= art[i].date PROVE FALSE
    BY <1>3, <2>2
  <2>4. K \in SUBSET Stored(f) /\ \A j \in K : art[j].date > e.date
    <3>1. ASSUME NEW j \in K PROVE art[j].date > e.date
      <4>1. j \in Stored(f) /\ art[j].date > art[i].date
        BY DEF Newer, Kept
      <4>2. art[j].date \in Nat
        BY <1>1, <4>1, Fields DEF TablesOK, Stored, ItemsOf
      <4> QED BY <1>3, <2>2, <2>3, <4>1, <4>2
    <3> QED BY <3>1 DEF Newer, Kept
  <2> HIDE DEF K, e
  <2>5. Cardinality(K) < Cardinality(canonical_item_urls(f, ver)) /\ Cardinality(K) \in Nat
    BY <1>2, <1>3, <1>4, <1>8, <2>4, FewNewer
  <2>6. Cardinality(canonical_item_urls(f, ver)) <= Cap
    BY <1>2 DEF Chronicle, Version
  <2>7. Cardinality(canonical_item_urls(f, ver)) \in Nat
    BY ItemsCounted, FS_CardinalityType
  <2> QED BY <2>1, <2>5, <2>6, <2>7, ArticleAssumption DEF ArticleAssumption
<1> QED BY <1>5, <1>6, <1>7, <1>8 DEF RowStep, RowKept

\* Admissions and refreshes under way keep what they were judged by.
LEMMA VerdictsKept ==
  ASSUME RefreshInv, Sourced, Verdicts, [Next]_vars
  PROVE  Verdicts'
<1>1. RefreshInv' /\ TablesOK
  BY RefreshInductive DEF RefreshInv
<1>2. ASSUME NEW f \in Feed PROVE AdmittedWell(f)'
  <2>1. SUFFICES ASSUME feed'[f] # None, NEW a, a = feed'[f].admitted, a # None, a.by \in Process
                 PROVE  Vouched(f, a.ver)' /\ Judgeable(f, a.ver) /\ a.ver <= Served(f)'
    BY DEF AdmittedWell, Vouched, Covered, Judgeable
  <2>2. RowStep(f)
    BY <2>1, EveryRowStep DEF RowsStep
  <2>3. feed[f] # None /\ RowKept(f, feed'[f])
    BY <2>1, <2>2 DEF RowStep, NewRow
  <2>4. a # [by |-> "admin", ver |-> None]
    BY <2>1, RefreshAssumption DEF RefreshAssumption
  <2>5. Vouched(f, a.ver) /\ Judgeable(f, a.ver) /\ a.ver <= Served(f)
    <3>1. CASE a = feed[f].admitted
      BY <2>1, <2>3, <3>1 DEF Verdicts, AdmittedWell
    <3>2. ASSUME NEW r \in refreshes, r.feed = f, r.step = "complete", Judgeable(f, r.ver),
                 a = [by |-> r.by, ver |-> r.ver]
          PROVE  Vouched(f, a.ver) /\ Judgeable(f, a.ver) /\ a.ver <= Served(f)
      <4>1. RefreshOK(r) /\ GatedWell(r)
        BY DEF RefreshInv, Verdicts
      <4>2. Vouched(f, r.ver)
        BY <3>2, <4>1 DEF RefreshOK, Downloaded, Vouched
      <4>3. r.ver # None
        BY <4>2, RefreshAssumption DEF RefreshAssumption, Vouched, Version
      <4> QED BY <3>2, <4>1, <4>2, <4>3 DEF GatedWell
    <3> QED BY <2>1, <2>3, <2>4, <3>1, <3>2 DEF RowKept
  <2>6. Vouched(f, a.ver)'
    <3>1. GrowsAt(f)
      BY <2>1, <2>3, StepRecords DEF Recorded, Deleted
    <3> QED BY <1>1, <2>3, <2>5, <3>1, VouchedStays
  <2>7. a.ver \in Nat
    BY <2>5 DEF Vouched, Version
  <2> QED BY <2>5, <2>6, <2>7, ServedGrows
<1>3. ASSUME NEW q \in refreshes' PROVE GatedWell(q)'
  <2>1. GatedWell(q)
    BY EveryRefreshFollows DEF Follows, Verdicts
  <2>2. q.feed \in Feed /\ q.ver \in Nat \cup {None}
    BY <1>1 DEF RefreshInv, RefreshOK, RefreshRow
  <2>3. q.ver # None => q.ver <= Served(q.feed)'
    BY <2>1, <2>2, ServedGrows DEF GatedWell
  <2> QED BY <2>1, <2>3 DEF GatedWell
<1> QED BY <1>2, <1>3 DEF Verdicts

\* A feed that is let in by what is served after a step was let in by it before, or just
\* passed its gate.
LEMMA LetInBefore ==
  ASSUME RefreshInv, Sourced, Verdicts, [Next]_vars, NEW f \in Feed, NEW p \in Process,
         feed'[f] # None, LetIn(f, p)'
  PROVE  /\ feed[f] # None /\ Served(f)' = Served(f)
         /\ \/ LetIn(f, p)
            \/ \E r \in refreshes : r.feed = f /\ r.ver = Served(f) /\ Judgeable(f, r.ver) /\ Passes(r, p)
<1> DEFINE Goal == /\ feed[f] # None /\ Served(f)' = Served(f)
                   /\ \/ LetIn(f, p)
                      \/ \E r \in refreshes : r.feed = f /\ r.ver = Served(f) /\ Judgeable(f, r.ver) /\ Passes(r, p)
<1>1. Served(f) \in Nat /\ Served(f)' \in Nat /\ Served(f) <= Served(f)'
  BY ServedGrows
<1>2. p # None /\ p # "admin"
  BY RefreshAssumption DEF RefreshAssumption
<1>3. ASSUME NEW r \in refreshes, r.feed = f, r.ver = Served(f)', Judgeable(f, r.ver), r.by = p \/ Passes(r, p)
      PROVE  Goal
  <2>1. feed[f] # None /\ r.ver # None /\ r.ver <= Served(f)
    BY <1>1, <1>3, RefreshAssumption DEF RefreshAssumption, RefreshInv, RefreshOK, Verdicts, GatedWell
  <2>2. Served(f)' = Served(f)
    BY <1>1, <1>3, <2>1
  <2> QED BY <1>3, <2>1, <2>2 DEF LetIn
<1>4. ASSUME NEW a, a = feed'[f].admitted, a # None, a = [by |-> p, ver |-> Served(f)']
      PROVE  Goal
  <2>1. a.by = p /\ a.ver = Served(f)'
    BY <1>4
  <2>2. feed[f] # None /\ RowKept(f, feed'[f])
    <3>1. RowStep(f)
      BY EveryRowStep DEF RowsStep
    <3>2. NewRow.admitted = None
      BY DEF NewRow
    <3>3. feed'[f] # NewRow
      BY <1>4, <3>2
    <3> QED BY <3>1, <3>3 DEF RowStep
  <2>3. CASE a = feed[f].admitted
    <3>1. a.ver <= Served(f)
      BY <1>4, <2>1, <2>2, <2>3 DEF Verdicts, AdmittedWell
    <3>2. Served(f)' = Served(f)
      BY <1>1, <2>1, <3>1
    <3> QED BY <1>4, <2>2, <2>3, <3>2 DEF LetIn
  <2>4. a # [by |-> "admin", ver |-> None]
    BY <1>2, <2>1
  <2>5. ASSUME NEW r \in refreshes, r.feed = f, Judgeable(f, r.ver), a = [by |-> r.by, ver |-> r.ver]
        PROVE  Goal
    <3>1. r.by = p /\ r.ver = Served(f)'
      BY <2>1, <2>5
    <3> HIDE DEF Goal
    <3> QED BY <1>3, <2>5, <3>1
  <2> HIDE DEF Goal
  <2> QED BY <1>4, <2>2, <2>3, <2>4, <2>5 DEF RowKept
<1>5. ASSUME NEW q \in refreshes', q.feed = f, q.by = p, q.ver = Served(f)', Judgeable(f, q.ver)
      PROVE  Goal
  <2>1. CASE q \in refreshes
    <3> HIDE DEF Goal
    <3> QED BY <1>3, <1>5, <2>1
  <2>2. CASE q \notin refreshes
    <3>1. Follows(q)
      BY <2>2, EveryRefreshFollows
    <3>2. PICK r \in refreshes : r.feed = q.feed /\ r.ver = q.ver /\ (r.by = q.by \/ Passes(r, q.by))
      BY <1>5, <3>1 DEF Follows
    <3> HIDE DEF Goal
    <3> QED BY <1>3, <1>5, <3>2
  <2> QED BY <2>1, <2>2
<1>6. \/ feed'[f].admitted # None /\ feed'[f].admitted = [by |-> p, ver |-> Served(f)']
      \/ \E q \in refreshes' : q.feed = f /\ q.by = p /\ q.ver = Served(f)' /\ Judgeable(f, q.ver)
  BY DEF LetIn, Judgeable
<1> HIDE DEF Goal
<1>7. Goal
  BY <1>4, <1>5, <1>6
<1> QED BY <1>7 DEF Goal

\* One step is the gate of one refresh.
LEMMA OneGate ==
  ASSUME RefreshInv, NEW p, NEW r \in refreshes, Passes(r, p), NEW q \in refreshes, Passes(q, p), r.feed # q.feed
  PROVE  FALSE
<1>1. r \in RefreshRow /\ r.step = "gate" /\ r # q
  BY DEF RefreshInv, RefreshOK, Passes, Judge
<1>2. r \in refreshes'
  BY <1>1 DEF Passes, Judge, Swap
<1>3. r \notin refreshes'
  <2>1. \A by : [r EXCEPT !.step = "ingest", !.by = by].step = "ingest"
    BY <1>1 DEF RefreshRow
  <2> QED BY <1>1, <2>1 DEF Passes, Judge, Swap
<1> QED BY <1>2, <1>3

\* Where one address is let in, the other does not pass the gate: the lock of the process
\* makes its look-up wait for what the first one stores.
LEMMA TwinStopped ==
  ASSUME RefreshInv, Sourced, MarksBelow, Verdicts, NEW f \in Feed, NEW g \in Feed, f # g, Site[f] = Site[g],
         Chronicle(f), Promised(f), NEW p \in Process, LetIn(f, p),
         NEW r \in refreshes, r.feed = g, r.ver = Served(g), Passes(r, p)
  PROVE  FALSE
<1>1. Vouched(f, Served(f)) /\ Judgeable(f, Served(f))
  <2>1. CASE feed[f].admitted # None /\ feed[f].admitted = [by |-> p, ver |-> Served(f)]
    <3>1. feed[f].admitted.by = p /\ feed[f].admitted.ver = Served(f) /\ feed[f] # None
      BY <2>1 DEF Promised, Active
    <3> QED BY <2>1, <3>1 DEF Verdicts, AdmittedWell
  <2>2. ASSUME NEW q \in refreshes, q.feed = f, q.by = p, q.ver = Served(f), Judgeable(f, q.ver)
        PROVE  Vouched(f, Served(f)) /\ Judgeable(f, Served(f))
    <3>1. q.proc = p /\ q.gated /\ q.step \in {"ingest", "complete"} /\ RefreshOK(q)
      BY <2>2 DEF Verdicts, GatedWell, RefreshInv
    <3>2. ~Admitting(p)
      BY DEF Passes, Judge
    <3>3. q.step = "complete"
      BY <3>1, <3>2 DEF Admitting
    <3> QED BY <2>2, <3>1, <3>3 DEF RefreshOK, Downloaded, Vouched
  <2> QED BY <2>1, <2>2 DEF LetIn
<1>2. Served(g) = Served(f)
  BY DEF Served
<1>3. f \in find_mirror_source(g, Served(f))
  BY <1>1, MirrorFound
<1>4. new_source_rejection(r.feed, r.ver, TRUE)
  BY <1>2, <1>3 DEF new_source_rejection
<1> QED BY <1>4 DEF Passes

\* So of two addresses of one site a process lets in one.
LEMMA OneLetInKept ==
  ASSUME TwinInv, [Next]_vars
  PROVE  OneLetIn'
<1>1. RefreshInv /\ Sourced /\ MarksBelow /\ Verdicts /\ OneLetIn
  BY DEF TwinInv
<1>2. SUFFICES ASSUME NEW f \in Feed, NEW g \in Feed, f # g, Site[f] = Site[g], Chronicle(f), Chronicle(g),
                      Promised(f)', Promised(g)', NEW p \in Process, LetIn(f, p)', LetIn(g, p)'
               PROVE  FALSE
  BY DEF OneLetIn
<1>3. ASSUME NEW h \in Feed, Promised(h)', LetIn(h, p)'
      PROVE  /\ Promised(h)
             /\ \/ LetIn(h, p)
                \/ \E r \in refreshes : r.feed = h /\ r.ver = Served(h) /\ Passes(r, p)
  <2>1. feed'[h] # None /\ ~feed'[h].archived /\ ~feed'[h].restored
    BY <1>3 DEF Promised, Active
  <2>2. /\ feed[h] # None
        /\ \/ LetIn(h, p)
           \/ \E r \in refreshes : r.feed = h /\ r.ver = Served(h) /\ Passes(r, p)
    BY <1>1, <1>3, <2>1, LetInBefore
  <2>3. RowStep(h)
    BY <1>1, <2>1, EveryRowStep DEF RowsStep
  <2>4. Active(h) /\ ~feed[h].restored
    BY <2>1, <2>2, <2>3 DEF RowStep, RowKept, Active
  <2>5. \A i \in tomb : i[1] = h => i \in tomb'
    <3>1. CASE \E c \in Feed : Cleanup(c)
      BY <1>1, <2>1, <3>1, CleanupKeeps DEF Deleted
    <3>2. CASE ~\E c \in Feed : Cleanup(c)
      BY <3>2, StepFrame DEF CapDelete, DeleteArticle
    <3> QED BY <3>1, <3>2
  <2> QED BY <1>3, <2>2, <2>4, <2>5 DEF Promised
<1>4. Promised(f) /\ Promised(g)
  BY <1>2, <1>3
<1>5. CASE LetIn(f, p) /\ LetIn(g, p)
  BY <1>1, <1>2, <1>4, <1>5 DEF OneLetIn
<1>6. ASSUME LetIn(f, p), NEW r \in refreshes, r.feed = g, r.ver = Served(g), Passes(r, p) PROVE FALSE
  BY <1>1, <1>2, <1>4, <1>6, TwinStopped
<1>7. ASSUME LetIn(g, p), NEW r \in refreshes, r.feed = f, r.ver = Served(f), Passes(r, p) PROVE FALSE
  BY <1>1, <1>2, <1>4, <1>7, TwinStopped
<1>8. ASSUME NEW r \in refreshes, r.feed = f, Passes(r, p), NEW q \in refreshes, q.feed = g, Passes(q, p)
      PROVE  FALSE
  BY <1>1, <1>2, <1>8, OneGate
<1> QED BY <1>2, <1>3, <1>5, <1>6, <1>7, <1>8

\* The invariant holds at first, and every step keeps it.
LEMMA TwinInductive ==
  ASSUME TwinInv, [Next]_vars
  PROVE  TwinInv'
BY RefreshInductive, SourcedKept, MarksBelowKept, VerdictsKept, OneLetInKept DEF TwinInv

\* The catalog was stored from the first version, and admitted by no process.
LEMMA InitTwins ==
  ASSUME Init, RefreshInv
  PROVE  TwinInv
<1> USE ArticleAssumption, RefreshAssumption DEF ArticleAssumption, RefreshAssumption
<1>1. TablesOK /\ ServerOK /\ gone = {} /\ refreshes = {} /\ imports = {}
  BY DEF Init, RefreshInv
<1> DEFINE At(i) == {n \in DOMAIN parse_feed(i[1], 1) : parse_feed(i[1], 1)[n].item = i}
<1> DEFINE e(i) == parse_feed(i[1], 1)[CHOOSE n \in At(i) : TRUE]
<1>2. ASSUME NEW i \in Item, art[i] # None PROVE Listed(i[1], i, art[i].date)
  <2>1. At(i) # {} /\ art[i].date = e(i).date
    BY <1>2 DEF Init
  <2>2. (CHOOSE n \in At(i) : TRUE) \in At(i)
    BY <2>1
  <2>3. Served(i[1]) = 1 /\ 1 \in 1..Served(i[1])
    <3>1. Site[i[1]] \in DOMAIN Document /\ server = [s \in DOMAIN Document |-> 1]
      BY DEF Init
    <3>2. Served(i[1]) = 1
      BY <3>1 DEF Served
    <3> QED BY <3>2
  <2>4. \E k \in DOMAIN parse_feed(i[1], 1) :
          parse_feed(i[1], 1)[k].item = i /\ parse_feed(i[1], 1)[k].date = art[i].date
    BY <2>1, <2>2
  <2> QED BY <2>3, <2>4 DEF Listed
<1>3. ASSUME NEW f \in Feed, feed[f] # None
      PROVE  feed[f].mark = 0 /\ (feed[f].admitted = None \/ feed[f].admitted = [by |-> "catalog", ver |-> None])
  <2> DEFINE n == Len(parse_feed(f, 1))
  <2> DEFINE c == [by |-> "catalog", ver |-> None]
  <2> DEFINE w == [NewRow EXCEPT !.admitted = c, !.etag = 1, !.count = n]
  <2>1. feed[f] = w \/ feed[f] = NewRow
    BY <1>3 DEF Init
  <2> HIDE DEF n, c
  <2>2. w.mark = 0 /\ w.admitted = c /\ NewRow.mark = 0 /\ NewRow.admitted = None
    BY DEF NewRow
  <2> HIDE DEF w
  <2> QED BY <2>1, <2>2 DEF c
<1>4. Sourced
  BY <1>1, <1>2 DEF Sourced
<1>5. MarksBelow
  <2>1. SUFFICES ASSUME NEW f \in Feed, feed[f] # None, NEW ver \in Version(f), NEW n \in DOMAIN parse_feed(f, ver)
                 PROVE  parse_feed(f, ver)[n].date > feed[f].mark
    BY DEF MarksBelow
  <2> DEFINE d == parse_feed(f, ver)[n]
  <2>2. d \in EntryRow(f)
    BY EntriesTyped
  <2> HIDE DEF d
  <2>3. d.date \in Nat /\ d.date > 0
    BY <2>2 DEF EntryRow
  <2> QED BY <1>3, <2>1, <2>3 DEF d
<1>6. \A f \in Feed : feed[f] # None /\ feed[f].admitted # None => feed[f].admitted.by \notin Process
  BY <1>3
<1>7. Verdicts /\ OneLetIn
  <2>1. Verdicts
    BY <1>1, <1>6 DEF Verdicts, AdmittedWell
  <2>2. \A f \in Feed : \A p \in Process : Promised(f) => ~LetIn(f, p)
    <3>1. ASSUME NEW f \in Feed, NEW p \in Process, feed[f] # None PROVE ~LetIn(f, p)
      <4>1. ASSUME feed[f].admitted # None, feed[f].admitted = [by |-> p, ver |-> Served(f)] PROVE FALSE
        <5>1. feed[f].admitted.by = p
          BY <4>1
        <5> QED BY <1>6, <3>1, <4>1, <5>1
      <4> QED BY <1>1, <4>1 DEF LetIn
    <3> QED BY <3>1 DEF Promised, Active
  <2> QED BY <2>1, <2>2 DEF OneLetIn
<1> QED BY <1>4, <1>5, <1>7 DEF TwinInv

\* Of two addresses of a site whose documents are chronological and fit the cap, one
\* process admits one by what the site still serves, whatever the number of feeds,
\* processes and refreshes at a time, and however they interleave with publications,
\* evictions, failures and crashes; the promise leaves out what an administrator
\* restored or deleted.
THEOREM TwinsKeptApart == Spec => [](Chronicles => TwinsNotBothAdmitted)
<1>1. ASSUME TwinInv, Chronicles PROVE TwinsNotBothAdmitted
  <2>1. SUFFICES ASSUME NEW f \in Feed, NEW g \in Feed, f # g, Site[f] = Site[g], Active(f), Active(g),
                        feed[f].admitted # None, feed[g].admitted # None,
                        feed[f].admitted = feed[g].admitted, feed[f].admitted.by \in Process,
                        feed[f].admitted.ver = server[Site[f]],
                        ~feed[f].restored, ~feed[g].restored, \A i \in tomb : i[1] \notin {f, g}
                 PROVE  FALSE
    BY DEF TwinsNotBothAdmitted
  <2>2. Chronicle(f) /\ Chronicle(g)
    BY <1>1, <2>1 DEF Chronicles, Shared
  <2>3. Promised(f) /\ Promised(g)
    BY <2>1 DEF Promised
  <2> DEFINE a == feed[f].admitted
  <2>4. a = [by |-> a.by, ver |-> Served(f)] /\ Served(g) = Served(f)
    <3>1. feed[f] \in FeedRow
      BY <1>1, <2>1 DEF TwinInv, RefreshInv, TablesOK, Active
    <3>2. a \in [by : Process \cup {"catalog", "admin", "kept", None}, ver : Nat \cup {None}]
      BY <2>1, <3>1 DEF FeedRow
    <3> QED BY <2>1, <3>2 DEF Served
  <2>5. LetIn(f, a.by) /\ LetIn(g, a.by)
    BY <2>1, <2>4 DEF LetIn
  <2> QED BY <1>1, <2>1, <2>2, <2>3, <2>5 DEF TwinInv, OneLetIn
<1>2. Init /\ RefreshInv => TwinInv
  BY InitTwins
<1>3. TwinInv /\ [Next]_vars => TwinInv'
  BY TwinInductive
<1>4. TwinInv => (Chronicles => TwinsNotBothAdmitted)
  BY <1>1
<1> QED BY <1>2, <1>3, <1>4, RefreshInvariant, PTL DEF Spec
=============================================================================
