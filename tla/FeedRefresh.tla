----------------------------- MODULE FeedRefresh -----------------------------
(***************************************************************************)
(* How feeds come into the catalog and are fetched again                   *)
(* (services/feed_refresh.py, services/source_identity.py,                 *)
(* services/source_visibility.py, rss_parser.py and the routers admin,     *)
(* discover and opml): the conditional download, the gate a new feed       *)
(* passes, the ingestion in batches, and the record of how it went, on the *)
(* tables of module Articles.                                              *)
(*                                                                         *)
(* A refresh works on the row it read when it was selected, and every call *)
(* of the database in between may fail.  Addresses of one site serve the   *)
(* same documents, whose version is their validator.  Intervals, due dates *)
(* and languages are left out, and so is participation_mode; one entry is  *)
(* one batch.                                                              *)
(***************************************************************************)
EXTENDS Articles, Sequences, SequencesExt

CONSTANTS
  Process,       \* the processes that refresh feeds
  Api,           \* the one that does so on request, not by what is due
  Concurrency,   \* refreshes of one process at a time
  Site,          \* Site[f]: where f is served
  Document,      \* Document[s]: the versions of what s serves
  Catalog,       \* feeds admitted long ago, with the first version stored
  Promoted,      \* feeds added since and not fetched yet
  MinItems,      \* MIRROR_MIN_ITEMS
  SampleLimit,   \* MIRROR_SAMPLE_LIMIT: no document lists more
  MaxFailures    \* AUTO_ARCHIVE_FAILURE_THRESHOLD

VARIABLES
  server,        \* the version each site serves
  refreshes,     \* calls of refresh_one under way
  imports        \* imports of one address under way

vars == <<feed, art, refs, subs, tomb, cap, compact, gone, events, server, refreshes, imports>>

-----------------------------------------------------------------------------
(* What a document says.                                                     *)

\* parse_feed and upsert_articles: entries with an address, the last of each.
parse_feed(f, ver) ==
  LET e == SelectSeq(Document[Site[f]][ver].entries, LAMBDA x : x.url # None)
      last == {n \in DOMAIN e : \A m \in DOMAIN e : e[m].url = e[n].url => m <= n}
  IN [n \in 1..Cardinality(last) |->
        LET k == CHOOSE k \in last : Cardinality({m \in last : m <= k}) = n
        IN [item |-> <<f, e[k].url>>, date |-> e[k].date, rev |-> e[k].rev]]
canonical_item_urls(f, ver) == {parse_feed(f, ver)[n].item[2] : n \in DOMAIN parse_feed(f, ver)}
\* Stands for is_comment_feed of the address too: either way it is a feed of comments.
items_look_like_comments(f, ver) == Document[Site[f]][ver].comments

Enough(overlap, n) == 10 * overlap >= 8 * n

\* find_mirror_source: an active feed that has most of the sample, and whose newest
\* articles are mostly in it.
find_mirror_source(f, ver) ==
  LET sample == canonical_item_urls(f, ver)
      n      == Cardinality(sample)
      In(S)  == Cardinality({i \in S : i[2] \in sample})
      Recent(g) == {i \in Stored(g) : Cardinality(Newer(i, Stored(g))) < n}
  IN {g \in Feed \ {f} : n >= MinItems /\ Active(g) /\ Enough(In(Stored(g)), n) /\ Enough(In(Recent(g)), n)}

\* The look-up fails open: found is FALSE when it fails, and when it misses a mirror that
\* is not among the five active sources it ranks, or takes no part.
new_source_rejection(f, ver, found) ==
  items_look_like_comments(f, ver) \/ (found /\ find_mirror_source(f, ver) # {})

-----------------------------------------------------------------------------

\* A row of feeds: who admitted it by which version, the version its validator is of, the
\* watermark of what was evicted (0 for none), and, as history, whether it was taken back.
FeedRow == [archived : BOOLEAN, restored : BOOLEAN,
            admitted : [by : Process \cup {"catalog", "admin", "kept", None}, ver : Nat \cup {None}] \cup {None},
            etag : Nat \cup {None}, count : Nat, failures : Nat, mark : Nat,
            reason : {"none", "fetch_failed", "ingest_failed", "excluded"}]

ASSUME RefreshAssumption ==
  /\ None \notin Nat /\ None \notin FeedRow /\ Process \cap {"catalog", "admin", "kept", None} = {}
  /\ Site \in [Feed -> DOMAIN Document] /\ Catalog \subseteq Feed
  /\ \A s \in DOMAIN Document : Len(Document[s]) \in Nat \ {0}
  /\ \A f \in Feed : \A ver \in 1..Len(Document[Site[f]]) :
       /\ parse_feed(f, ver) \in Seq([item : ItemsOf(f), date : Nat \ {0}, rev : Revision])
       /\ Cardinality(canonical_item_urls(f, ver)) <= SampleLimit

NewRow == [archived |-> FALSE, restored |-> FALSE, admitted |-> None, etag |-> None, count |-> 0,
           failures |-> 0, reason |-> "none", mark |-> 0]

Init ==
  /\ feed = [f \in Feed |->
       IF f \in Catalog THEN [NewRow EXCEPT !.admitted = [by |-> "catalog", ver |-> None], !.etag = 1,
                                            !.count = Len(parse_feed(f, 1))]
       ELSE IF f \in Promoted THEN NewRow ELSE None]
  /\ art = [i \in Item |->
       LET at == {n \in DOMAIN parse_feed(i[1], 1) : parse_feed(i[1], 1)[n].item = i}
       IN IF i[1] \notin Catalog \/ at = {} THEN None
          ELSE LET e == parse_feed(i[1], 1)[CHOOSE n \in at : TRUE]
               IN [rev |-> e.rev, date |-> e.date, mined |-> TRUE, full |-> TRUE, staged |-> FALSE]]
  /\ refs = {} /\ subs = {} /\ tomb = {} /\ cap = None /\ compact = None /\ gone = {}
  /\ server = [s \in DOMAIN Document |-> 1]
  /\ refreshes = {} /\ imports = {} /\ events = 0

Publish(s) ==
  /\ Event /\ server[s] < Len(Document[s])
  /\ server' = [server EXCEPT ![s] = @ + 1]
  /\ UNCHANGED <<feed, art, refs, subs, tomb, cap, compact, gone, refreshes, imports>>

-----------------------------------------------------------------------------
(* refresh_one.                                                              *)

Swap(S, p, q) == (S \ {p}) \cup {q}
Unread == UNCHANGED <<refs, subs, tomb, cap, compact, gone, server, imports>>

\* The validator is sent unless the last ingestion failed or nothing is stored.
Ask(f, force) == IF force \/ feed[f].count = 0 \/ feed[f].reason = "ingest_failed" THEN None ELSE feed[f].etag

\* select_due_feeds and refresh_feed: the row is read here and used to the end.
Begin(p, f) ==
  LET mine == {r \in refreshes : r.proc = p}
  IN /\ Event /\ (IF p = Api THEN feed[f] # None ELSE Active(f))
     /\ Cardinality(mine) < Concurrency /\ \A r \in mine : r.feed # f
     /\ refreshes' = refreshes \cup
          {[proc |-> p, feed |-> f, ask |-> Ask(f, p = Api), failures |-> feed[f].failures,
            gated |-> feed[f].admitted = None, step |-> "fetch", ver |-> None, left |-> <<>>, by |-> None]}
     /\ UNCHANGED <<feed, art>> /\ Unread

RecordFailureCertifying(r, reason) ==   \* faulty variant: the validators of the answer are kept
  /\ feed' = [feed EXCEPT ![r.feed].failures = r.failures + 1, ![r.feed].reason = reason,
                          ![r.feed].archived = @ \/ r.failures + 1 >= MaxFailures, ![r.feed].etag = r.ver]
  /\ refreshes' = refreshes \ {r}
\* Ten failures in a row, by the row that was read, archive the feed.
RecordFailure(r, reason) ==
  /\ feed' = [feed EXCEPT ![r.feed].failures = r.failures + 1, ![r.feed].reason = reason,
                          ![r.feed].archived = @ \/ r.failures + 1 >= MaxFailures]
  /\ refreshes' = refreshes \ {r}
FetchFails(r) ==
  /\ r.step = "fetch" /\ ~Locked(r.feed)
  /\ RecordFailure(r, "fetch_failed")
  /\ UNCHANGED <<art, events>> /\ Unread
StoreFails(r) ==
  /\ r.step # "fetch" /\ ~Locked(r.feed)
  /\ RecordFailure(r, "ingest_failed")
  /\ UNCHANGED <<art, events>> /\ Unread

Succeeded(r, etag) == [feed[r.feed] EXCEPT !.failures = 0, !.reason = "none", !.etag = etag]

Fetch(r) ==
  LET now == server[Site[r.feed]]
  IN /\ r.step = "fetch"
     /\ refreshes' = Swap(refreshes, r, IF r.ask = now THEN [r EXCEPT !.step = "unmodified"]
          ELSE [r EXCEPT !.ver = now, !.left = parse_feed(r.feed, now),
                         !.step = IF r.gated THEN "gate" ELSE "ingest"])
     /\ UNCHANGED <<feed, art, events>> /\ Unread

Unmodified(r) ==
  /\ r.step = "unmodified" /\ ~Locked(r.feed)
  /\ feed' = [feed EXCEPT ![r.feed] = Succeeded(r, r.ask)]
  /\ refreshes' = refreshes \ {r}
  /\ UNCHANGED <<art, events>> /\ Unread

NotLocked(p) == FALSE   \* faulty variant: the lock covers the check only
\* _ADMISSION_LOCK is held from the check of the items to the end of their ingestion.
Admitting(p) ==
  \E r \in refreshes : r.proc = p /\ r.gated /\ r.step \in {"rejected", "exclude", "ingest"}
\* The look-up, the count of the subscribers and the exclusion are a call each.
Judge(r, found) ==
  /\ r.step = "gate" /\ ~Admitting(r.proc)
  /\ refreshes' = Swap(refreshes, r,
       IF new_source_rejection(r.feed, r.ver, found) THEN [r EXCEPT !.step = "rejected"]
       ELSE [r EXCEPT !.step = "ingest", !.by = IF found THEN r.proc ELSE "kept"])
  /\ UNCHANGED <<feed, art, events>> /\ Unread

\* A feed that somebody subscribed to is left alone.
CountSubscribers(r) ==
  /\ r.step = "rejected"
  /\ refreshes' = Swap(refreshes, r, IF r.feed \in subs THEN [r EXCEPT !.step = "ingest", !.by = "kept"]
                                     ELSE [r EXCEPT !.step = "exclude"])
  /\ UNCHANGED <<feed, art, events>> /\ Unread

Exclude(r) ==
  /\ r.step = "exclude" /\ ~Locked(r.feed)
  /\ feed' = [feed EXCEPT ![r.feed].archived = TRUE, ![r.feed].reason = "excluded"]
  /\ refreshes' = refreshes \ {r}
  /\ UNCHANGED <<art, events>> /\ Unread

Ingest(r) ==
  /\ r.step = "ingest"
  /\ IF r.left = <<>> THEN UNCHANGED <<feed, art>>
     ELSE ingest_article_batch(r.feed, Head(r.left).item, Head(r.left).date, Head(r.left).rev)
  /\ refreshes' = Swap(refreshes, r, [r EXCEPT !.left = IF @ = <<>> THEN @ ELSE Tail(@),
                                               !.step = IF Len(r.left) <= 1 THEN "complete" ELSE "ingest"])
  /\ UNCHANGED events /\ Unread

\* Only now the validators are stored, and a feed admitted whose own document had
\* enough items to judge it by.
Complete(r) ==
  /\ r.step = "complete" /\ ~Locked(r.feed)
  /\ LET judged == r.gated /\ Cardinality(canonical_item_urls(r.feed, r.ver)) >= MinItems
         row == Succeeded(r, r.ver)
     IN feed' = [feed EXCEPT ![r.feed] =
          IF judged THEN [row EXCEPT !.admitted = [by |-> r.by, ver |-> r.ver]] ELSE row]
  /\ refreshes' = refreshes \ {r}
  /\ UNCHANGED <<art, events>> /\ Unread

Crash(p) ==
  /\ Event /\ \E r \in refreshes : r.proc = p
  /\ refreshes' = {r \in refreshes : r.proc # p}
  /\ UNCHANGED <<feed, art>> /\ Unread

-----------------------------------------------------------------------------
(* New feeds.                                                                *)

\* The JSON import and the promotion of a candidate fetch nothing.
NewFeed(f) ==
  /\ Event /\ feed[f] = None
  /\ feed' = [feed EXCEPT ![f] = NewRow]
  /\ UNCHANGED <<art, refreshes>> /\ Unread

Rest == UNCHANGED <<refs, tomb, cap, compact, gone, server, refreshes>>

\* An address not in the catalog is judged by what it serves.
screen_new_source(f, ver, found) == feed[f] = None /\ new_source_rejection(f, ver, found)

Import(f, kind, found) ==
  LET ver == server[Site[f]]
      new == [feed |-> f, kind |-> kind, step |-> "insert", left |-> parse_feed(f, ver), mirror |-> None]
  IN /\ Event
     /\ IF ~screen_new_source(f, ver, found) THEN imports' = imports \cup {new}
        ELSE /\ ~items_look_like_comments(f, ver)
             /\ \E g \in find_mirror_source(f, ver) :
                  imports' = imports \cup {[new EXCEPT !.step = "mirror", !.mirror = g]}
     /\ UNCHANGED <<feed, art, subs>> /\ Rest

\* The mirror is read again: a reader is subscribed to it and nothing else, an administrator
\* is refused; if it vanished in between, or was archived, the new address comes in.
ImportMirror(m) ==
  /\ m.step = "mirror"
  /\ imports' =
       IF ~Active(m.mirror) THEN Swap(imports, m, [m EXCEPT !.step = "insert", !.mirror = None])
       ELSE IF m.kind = "admin" THEN imports \ {m}
       ELSE Swap(imports, m, [m EXCEPT !.feed = m.mirror, !.kind = "opml", !.step = "subscribe",
                                       !.left = <<>>, !.mirror = None])
  /\ UNCHANGED <<feed, art, subs, events>> /\ Rest

\* import_readable_source never overwrites a row that exists.
ImportInsert(m) ==
  /\ m.step = "insert"
  /\ feed' = IF feed[m.feed] = None THEN [feed EXCEPT ![m.feed] = NewRow] ELSE feed
  /\ imports' = IF m.kind = "admin" THEN imports \ {m} ELSE Swap(imports, m, [m EXCEPT !.step = "subscribe"])
  /\ UNCHANGED <<art, subs, events>> /\ Rest

ImportSubscribe(m) ==
  /\ m.step = "subscribe" /\ ~Locked(m.feed)
  /\ subs' = subs \cup {m.feed}
  /\ imports' = IF m.kind = "opml" THEN imports \ {m} ELSE Swap(imports, m, [m EXCEPT !.step = "ingest"])
  /\ UNCHANGED <<feed, art, events>> /\ Rest

\* Only the reader's own discovery stores articles at once.
ImportIngest(m) ==
  /\ m.step = "ingest" /\ m.left # <<>>
  /\ ingest_article_batch(m.feed, Head(m.left).item, Head(m.left).date, Head(m.left).rev)
  /\ imports' = Swap(imports, m, [m EXCEPT !.left = Tail(@)])
  /\ UNCHANGED <<subs, events>> /\ Rest

\* It ends, or a call of it fails half-way.
ImportEnds(m) ==
  /\ imports' = imports \ {m}
  /\ UNCHANGED <<feed, art, subs, events>> /\ Rest

-----------------------------------------------------------------------------

\* What is under way for a feed that is deleted finds no row, and changes nothing more.
Cleanup(f) ==
  /\ DeleteFeed(f)
  /\ refreshes' = {r \in refreshes : r.feed # f}
  /\ imports' = {m \in imports : m.feed # f \/ m.step \in {"mirror", "insert"}}
  /\ UNCHANGED server

Next ==
  \/ TablesNext /\ UNCHANGED <<server, refreshes, imports>>
  \/ \E s \in DOMAIN Document : Publish(s)
  \/ \E p \in Process : Crash(p) \/ \E f \in Feed : Begin(p, f)
  \/ \E r \in refreshes : \/ FetchFails(r) \/ StoreFails(r) \/ Fetch(r) \/ Unmodified(r)
                          \/ Ingest(r) \/ Complete(r)
                          \/ CountSubscribers(r) \/ Exclude(r)
                          \/ \E found \in BOOLEAN : Judge(r, found)
  \/ \E f \in Feed : \/ NewFeed(f) \/ Cleanup(f)
                     \/ \E kind \in {"discover", "opml", "admin"}, found \in BOOLEAN : Import(f, kind, found)
  \/ \E m \in imports : \/ ImportMirror(m) \/ ImportInsert(m) \/ ImportSubscribe(m)
                        \/ ImportIngest(m) \/ ImportEnds(m)

Spec == Init /\ [][Next]_vars

-----------------------------------------------------------------------------
(* Properties.                                                               *)

\* A stored validator never hides an item: every entry of the version it stands for
\* is stored, or was evicted, deleted or kept out by the watermark; refreshes that
\* fail half-way, race one another or are not modified leave none out.
ValidatorsCertify ==
  \A f \in Feed : feed[f] # None /\ feed[f].etag # None =>
    \A n \in DOMAIN parse_feed(f, feed[f].etag) :
      LET e == parse_feed(f, feed[f].etag)[n]
      IN \/ art[e.item] # None
         \/ \E g \in gone : g.item = e.item
         \/ e.date <= feed[f].mark

\* What the gate relies on: in the versions of a feed an address keeps its date, what is
\* listed no more is older than all that still is, and the cap holds what a version lists.
Chronicle(f) ==
  /\ \A u, v \in 1..Len(Document[Site[f]]) :
       \A m \in DOMAIN parse_feed(f, u), n \in DOMAIN parse_feed(f, v) :
         LET d == parse_feed(f, u)[m]  e == parse_feed(f, v)[n]
         IN /\ d.item = e.item => d.date = e.date
            /\ u <= v /\ d.date > e.date => d.item[2] \in canonical_item_urls(f, v)
  /\ \A v \in 1..Len(Document[Site[f]]) : Cardinality(canonical_item_urls(f, v)) <= Cap

\* Two addresses of one site that one process admitted by the document the site still
\* serves are not both active: the second one's check sees what the first stored.
\* What an administrator restored or deleted, and what was let in because somebody
\* subscribed or the look-up failed, is outside the promise.
TwinsNotBothAdmitted ==
  \A f, g \in Feed : f # g /\ Site[f] = Site[g] /\ Active(f) /\ Active(g)
                     /\ feed[f].admitted # None /\ feed[g].admitted # None =>
    LET a == feed[f].admitted  b == feed[g].admitted
    IN ~(/\ a = b /\ a.by \in Process /\ a.ver = server[Site[f]]
         /\ ~feed[f].restored /\ ~feed[g].restored /\ \A i \in tomb : i[1] \notin {f, g})
=============================================================================
