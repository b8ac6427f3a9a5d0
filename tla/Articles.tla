------------------------------ MODULE Articles ------------------------------
(***************************************************************************)
(* The tables of feeds and articles and the SQL functions that change them *)
(* (migrations article_revisions, ingest_write_amplification, article_cap, *)
(* crawler_lifecycle, admin_cleanup, atomic_feed_article_counts): the      *)
(* ingestion of a batch, the cap on the articles of a feed, the compaction *)
(* of bodies, and the administrator's staging and deletion, of articles    *)
(* and of feeds.                                                           *)
(*                                                                         *)
(* A function that locks what it reads is one step.  The cap and the       *)
(* compaction first choose without locks, then lock and look again: they   *)
(* take several.  A run of the cap treats one feed.  Dates are numbers,    *)
(* distinct within a feed; a body's age is not measured; an item without a *)
(* date, which is dated by its first fetch, is left out.                   *)
(***************************************************************************)
EXTENDS Integers, FiniteSets, FiniteSetsExt

CONSTANTS
  None,
  Feed,        \* the feeds of the catalog, by address
  Item,        \* the articles a feed may list, <<feed, url>>
  Cap,         \* article.cap: how many unprotected articles a feed keeps
  MaxEvents    \* bound on what happens from outside in a behaviour

VARIABLES
  feed,       \* feeds
  art,        \* articles, by <<feed, url>>
  refs,       \* user_bookmarks, user_article_reads and fact_articles, by kind
  subs,       \* the feeds that have subscribers (user_feeds)
  tomb,       \* article_cleanup_tombstones
  cap,        \* a run of enforce_article_cap, or None
  compact,    \* the article compact_article_content has chosen, or None
  gone,       \* history: what was evicted or deleted, with its date
  events

\* What an article says: content_hash, and the title, summary and author beside it.
Revision == [hash : Nat, meta : Nat]
\* A row of articles: what it says and its published date, whether discovery has mined
\* that content, whether the body is still there, and whether it is staged for deletion.
ArticleRow == [rev : Revision, date : Nat, mined : BOOLEAN, full : BOOLEAN, staged : BOOLEAN]

ASSUME ArticleAssumption ==
  /\ IsFiniteSet(Item) /\ \A i \in Item : i[1] \in Feed
  /\ Cap \in Nat /\ MaxEvents \in Nat
  /\ None \notin ArticleRow

tables == <<feed, art, refs, subs, tomb, cap, compact, gone, events>>

Event == events < MaxEvents /\ events' = events + 1

-----------------------------------------------------------------------------
(* Reading the tables.                                                       *)

ItemsOf(f)  == {i \in Item : i[1] = f}
Stored(f)   == {i \in ItemsOf(f) : art[i] # None}
Active(f)   == feed[f] # None /\ ~feed[f].archived
Held(kinds) == {i \in Item : \E k \in kinds : <<i, k>> \in refs}
Newer(i, S) == {j \in S : art[j].date > art[i].date}

\* The cap's transaction holds the row lock of its feed once it has ranked again.
Locked(f) == cap # None /\ cap.feed = f /\ cap.step = "locked"

\* reconcile_feed_article_count, in the transaction that changed the articles.
Count(rows, f) == [feed EXCEPT ![f].count = Cardinality({i \in ItemsOf(f) : rows[i] # None})]

-----------------------------------------------------------------------------
(* Ingestion.                                                                *)

DroppedOlder(i, date) ==   \* faulty variant: the newest article evicted comes back
  i \in tomb \/ (art[i] = None /\ date < feed[i[1]].mark)
\* guard_removed_article: what was deleted, or is no newer than what was evicted,
\* is not inserted; a row that exists is updated all the same.
Dropped(i, date) == i \in tomb \/ (art[i] = None /\ date <= feed[i[1]].mark)

\* ingest_article_batch: only what says something else rewrites a row, and its date with
\* it; the marks go only with the content.
Row(i, date, rev) ==
  IF art[i] = None THEN [rev |-> rev, date |-> date, mined |-> FALSE, full |-> TRUE, staged |-> FALSE]
  ELSE IF art[i].rev = rev THEN art[i]
  ELSE LET same == art[i].rev.hash = rev.hash
       IN [art[i] EXCEPT !.rev = rev, !.date = date, !.mined = @ /\ same, !.full = @ \/ ~same]
ingest_article_batch(f, i, date, rev) ==
  /\ ~Locked(f)
  /\ art' = IF Dropped(i, date) THEN art ELSE [art EXCEPT ![i] = Row(i, date, rev)]
  /\ feed' = Count(art', f)

\* Discovery marks the stored revision as mined (module Frontier).
Mine(i) ==
  /\ Event /\ art[i] # None /\ ~art[i].mined
  /\ art' = [art EXCEPT ![i].mined = TRUE]
  /\ UNCHANGED <<feed, refs, subs, tomb, cap, compact, gone>>

-----------------------------------------------------------------------------
(* Readers.                                                                  *)

Refer(i, kind) ==
  /\ Event /\ art[i] # None /\ refs' = refs \cup {<<i, kind>>}
  /\ UNCHANGED <<feed, art, subs, tomb, cap, compact, gone>>
Unrefer(r) ==
  /\ Event /\ refs' = refs \ {r}
  /\ UNCHANGED <<feed, art, subs, tomb, cap, compact, gone>>

\* The insert refers to the feed's row and waits for who locked it.
Subscribe(f) ==
  /\ Event /\ feed[f] # None /\ ~Locked(f) /\ subs' = subs \cup {f}
  /\ UNCHANGED <<feed, art, refs, tomb, cap, compact, gone>>
Unsubscribe(f) ==
  /\ Event /\ subs' = subs \ {f}
  /\ UNCHANGED <<feed, art, refs, tomb, cap, compact, gone>>

-----------------------------------------------------------------------------
(* The cap.                                                                  *)

\* What is beyond the newest Cap unprotected articles, but for what still waits
\* to be mined, up to half a cap more, while discovery runs.
Unprotected(f) == {i \in Stored(f) \ Held({"bookmark", "fact"}) : ~art[i].staged}
article_cap_candidates(f, keep) ==
  {i \in Unprotected(f) :
     LET n == Cardinality(Newer(i, Unprotected(f))) + 1
     IN n > Cap /\ (~keep \/ art[i].mined \/ n > Cap + Cap \div 2)}

\* The first pass takes no lock; "keep" was read by the caller before.
CapRank(f, running) ==
  LET keep == running /\ Active(f)
  IN /\ Event /\ cap = None /\ feed[f] # None /\ feed[f].count > Cap
     /\ article_cap_candidates(f, keep) # {}
     /\ cap' = [feed |-> f, keep |-> keep, ids |-> article_cap_candidates(f, keep), step |-> "ranked"]
     /\ UNCHANGED <<feed, art, refs, subs, tomb, compact, gone>>

\* A feed somebody else holds is skipped.
CapLockUnranked ==   \* faulty variant: the first ranking is trusted
  /\ cap # None /\ cap.step = "ranked"
  /\ cap' = [cap EXCEPT !.step = "locked"]
  /\ UNCHANGED <<feed, art, refs, subs, tomb, compact, gone, events>>
CapLock ==
  /\ cap # None /\ cap.step = "ranked"
  /\ LET ids == article_cap_candidates(cap.feed, cap.keep)
     IN \/ ids # {} /\ cap' = [cap EXCEPT !.ids = ids, !.step = "locked"]
        \/ cap' = None
  /\ UNCHANGED <<feed, art, refs, subs, tomb, compact, gone, events>>

EvictedUnchecked(ids) == ids   \* faulty variant: deleted as ranked
\* Rows somebody holds are skipped; a reference committed since keeps its article.
\* The newest date evicted stays behind as the feed's watermark.
Evicted(ids) == {i \in ids \ Held({"bookmark", "fact"}) : art[i] # None /\ ~art[i].staged}
CapDelete ==
  /\ cap # None /\ cap.step = "locked"
  /\ \E free \in SUBSET cap.ids :
       LET out == Evicted(free)
           old == {art[i].date : i \in out} \cup {feed[cap.feed].mark}
       IN /\ art' = [i \in Item |-> IF i \in out THEN None ELSE art[i]]
          /\ feed' = [Count(art', cap.feed) EXCEPT ![cap.feed].mark = Max(old)]
          /\ refs' = {r \in refs : r[1] \notin out}
          /\ gone' = gone \cup {[item |-> i, date |-> art[i].date] : i \in out}
  /\ cap' = None
  /\ UNCHANGED <<subs, tomb, compact, events>>

-----------------------------------------------------------------------------
(* Compaction.                                                               *)

\* A body nobody has an interest in, and whose links are already mined.
Compactable(i) == /\ art[i] # None /\ art[i].full /\ art[i].mined
                  /\ i \notin Held({"bookmark", "read"}) /\ i[1] \notin subs
CompactPick(i) ==
  /\ Event /\ compact = None /\ Compactable(i)
  /\ compact' = i
  /\ UNCHANGED <<feed, art, refs, subs, tomb, cap, gone>>

\* Looks again under the locks of the feed and the article, or skips it.
CompactApply ==
  /\ compact # None
  /\ art' = IF Compactable(compact) /\ ~Locked(compact[1]) THEN [art EXCEPT ![compact].full = FALSE] ELSE art
  /\ compact' = None
  /\ UNCHANGED <<feed, refs, subs, tomb, cap, gone, events>>

-----------------------------------------------------------------------------
(* The administrator: apply_cleanup_batch locks the feed first.              *)

Stage(i, staged) ==
  /\ Event /\ art[i] # None /\ ~Locked(i[1]) /\ art[i].staged # staged
  /\ art' = [art EXCEPT ![i].staged = staged]
  /\ UNCHANGED <<feed, refs, subs, tomb, cap, compact, gone>>

\* Only what was staged; the tombstone keeps the address out for good.
DeleteArticle(i) ==
  /\ Event /\ art[i] # None /\ art[i].staged /\ ~Locked(i[1])
  /\ art' = [art EXCEPT ![i] = None]
  /\ feed' = Count(art', i[1])
  /\ tomb' = tomb \cup {i}
  /\ refs' = {r \in refs : r[1] # i}
  /\ gone' = gone \cup {[item |-> i, date |-> art[i].date]}
  /\ UNCHANGED <<subs, cap, compact>>

\* archive_feed, unarchive_feed, and staging and restoring a feed: to take back
\* an exclusion is to admit.
Archive(f) ==
  /\ Event /\ Active(f) /\ ~Locked(f)
  /\ feed' = [feed EXCEPT ![f].archived = TRUE]
  /\ UNCHANGED <<art, refs, subs, tomb, cap, compact, gone>>
Unarchive(f) ==
  /\ Event /\ feed[f] # None /\ feed[f].archived /\ ~Locked(f)
  /\ feed' = [feed EXCEPT ![f].archived = FALSE, ![f].restored = TRUE,
                          ![f].admitted = IF feed[f].reason = "excluded" \/ @ # None
                                          THEN [by |-> "admin", ver |-> None] ELSE @]
  /\ UNCHANGED <<art, refs, subs, tomb, cap, compact, gone>>

\* The same batch, of a feed that is archived: all that belongs to its row goes with it,
\* the tombstones and the watermark too.
DeleteFeed(f) ==
  /\ Event /\ feed[f] # None /\ feed[f].archived /\ ~Locked(f)
  /\ feed' = [feed EXCEPT ![f] = None]
  /\ art' = [i \in Item |-> IF i[1] = f THEN None ELSE art[i]]
  /\ refs' = {r \in refs : r[1][1] # f}
  /\ subs' = subs \ {f}
  /\ tomb' = {i \in tomb : i[1] # f}
  /\ cap' = IF cap # None /\ cap.feed = f THEN None ELSE cap
  /\ compact' = IF compact # None /\ compact[1] = f THEN None ELSE compact
  /\ gone' = {g \in gone : g.item[1] # f}

TablesNext ==
  \/ CapLock \/ CapDelete \/ CompactApply
  \/ \E f \in Feed : \/ Subscribe(f) \/ Archive(f) \/ Unarchive(f)
                     \/ \E running \in BOOLEAN : CapRank(f, running)
  \/ \E f \in subs : Unsubscribe(f)
  \/ \E i \in Item : \/ Mine(i) \/ CompactPick(i) \/ DeleteArticle(i)
                     \/ \E kind \in {"bookmark", "read", "fact"} : Refer(i, kind)
                     \/ \E staged \in BOOLEAN : Stage(i, staged)
  \/ \E r \in refs : Unrefer(r)

-----------------------------------------------------------------------------
(* Properties.                                                               *)

\* While its feed stays, what the cap evicted or an administrator deleted is not stored
\* again: not the deleted address at all, and the evicted one only with a newer date,
\* however downloads, ingestions, evictions and deletions interleave.
RemovedStayOut ==
  [][\A i \in Item : art[i] = None /\ art'[i] # None =>
       /\ i \notin tomb
       /\ \A g \in gone : g.item = i => art'[i].date > g.date]_<<art, tomb, gone>>

\* The cap deletes no article that is bookmarked, cited by an event or staged, and
\* compaction takes no body that is bookmarked, read, subscribed to or not mined,
\* by what is committed when they write, not when they chose; only an administrator
\* who deletes the feed takes all it has.
ReadersKeepTheirs ==
  [][\A i \in Item :
       /\ art[i] # None /\ art'[i] = None /\ i \notin tomb' /\ feed'[i[1]] # None =>
            ~art[i].staged /\ i \notin Held({"bookmark", "fact"})
       /\ art[i] # None /\ art'[i] # None /\ art[i].full /\ ~art'[i].full =>
            art[i].mined /\ i[1] \notin subs /\ i \notin Held({"bookmark", "read"})]_art

\* The cap deletes an article only while the feed keeps Cap newer ones, whatever an
\* administrator deleted since the run began.
NewestKept ==
  [][\A i \in Item : art[i] # None /\ art'[i] = None /\ i \notin tomb' /\ feed'[i[1]] # None =>
       Cardinality(Newer(i, {j \in Stored(i[1]) : art'[j] # None})) >= Cap]_art
=============================================================================
