------------------------------ MODULE Frontier ------------------------------
(***************************************************************************)
(* Source discovery (services/discovery.py, link_harvest.py,               *)
(* directory_sources.py, discovery_probe.py, discovery_candidates.py and   *)
(* routers/admin_discovery.py): hosts linked from articles and directories *)
(* become targets, a probe searches each target for feeds, what it finds   *)
(* becomes a candidate, and a candidate with enough referring feeds is     *)
(* admitted without a human while discovery runs and model review is off.  *)
(*                                                                         *)
(* A step is one statement or SQL function.  A cycle keeps one index of    *)
(* what is known, read when it begins; an ingestion reads its own.  What   *)
(* runs in a thread (a harvest, a promotion) outlives the cycle a pause    *)
(* cancels; a crash of the worker ends everything it holds.  Time is not   *)
(* measured: whatever waits for a date may be due.                         *)
(***************************************************************************)
EXTENDS Fetching

CONSTANTS
  Url,           \* the addresses targets may have
  FeedUrl,       \* the addresses feeds may have
  Catalog,       \* the feeds carried from the start, whose articles are mined
  Version,       \* Version[f]: the revisions of f's article, [links, whole]
  Site,          \* Site[f]: the website a feed names, or None
  Source,        \* discovery_sources, each [url, kind]
  Webs,          \* the webs a request may meet
  PriorityHosts, \* hosts of the discovery profiles with a quota
  ProbeBatch, ProbeAttempts, MaxFrontier, MaxHosts, MinReferrers,  \* discovery_config
  MaxCycles,     \* bound on the cycles of a behaviour
  MaxEvents      \* bound on its requests, revisions, ingestions and crashes together

VARIABLES
  control,     \* app_settings: is discovery running, is model review on
  target,      \* discovery_targets, with the feeds that refer to each
  cand,        \* discovery_candidates
  feed,        \* feeds, by how each was admitted; "deleted" is carried no more
  art,         \* the article of each catalog feed: its version, the version mined
  cycle,       \* the stage and the host index of the running cycle, or None
  harvests,    \* articles being mined
  probes,      \* targets being probed
  promotions,  \* candidates read as due for automatic admission
  seeds,       \* seeding requests between their read and their write
  cycles, events

vars == <<control, target, cand, feed, art, cycle, harvests, probes, promotions, seeds, cycles, events>>

Addresses == Url \cup FeedUrl
Host      == [u \in Addresses |-> normalize_host(u)]
Aliases   == [f \in FeedUrl |-> feed_url_aliases(f) \cap FeedUrl]
\* The hosts of a feed: of its address, and of the website it names.
Hosts     == [f \in FeedUrl |-> {Host[f]} \cup IF Site[f] = None THEN {} ELSE {normalize_host(Site[f])}]

\* Rows of targets and of candidates, and how a feed was admitted.
TargetRow == [source : {"article_link", "directory", "opml", "seed"}, attempts : Nat, refs : SUBSET Catalog,
              status : {"pending", "done", "exhausted", "blocked", "rejected", "removed"}]
CandRow   == [status : {"pending", "held", "rejected", "imported"}, target : Url, refs : Nat]
Admission == {"catalog", "auto", "manual"}

Row(source) == [source |-> source, status |-> "pending", attempts |-> 0, refs |-> {}]

Init ==
  /\ control = [running |-> TRUE, review |-> FALSE]
  /\ target = [u \in Url |-> None]
  /\ cand = [f \in FeedUrl |-> None]
  /\ feed = [f \in FeedUrl |-> IF f \in Catalog THEN "catalog" ELSE None]
  /\ art = [f \in Catalog |-> [ver |-> 1, mark |-> 0]]
  /\ cycle = None
  /\ harvests = {} /\ probes = {} /\ promotions = {} /\ seeds = {}
  /\ cycles = 0 /\ events = 0

Event == events < MaxEvents /\ events' = events + 1 /\ UNCHANGED cycles

-----------------------------------------------------------------------------
(* The frontier table and its index.                                         *)

Known(u)    == target[u] # None
Statuses(h) == {target[u].status : u \in {v \in Url : Known(v) /\ Host[v] = h}}
Pending     == {u \in Url : Known(u) /\ target[u].status = "pending"}
Smaller(a, b) == IF a < b THEN a ELSE b

Findings(u) == {c \in FeedUrl : cand[c] # None /\ cand[c].target = u}

\* targets_removed_guard: a removed target only ever becomes rejected.
Update(u, row) == IF target[u].status = "removed" /\ row.status # "rejected" THEN target
                  ELSE [target EXCEPT ![u] = row]

build_host_index ==
  LET hosts == {Host[u] : u \in {v \in Url : Known(v)}}
      left  == IF Cardinality(Pending) < MaxFrontier THEN MaxFrontier - Cardinality(Pending) ELSE 0
  IN [feeds   |-> UNION {Hosts[f] : f \in {g \in FeedUrl : feed[g] \in Admission}},
      at      |-> [h \in hosts |-> CHOOSE u \in Url : Known(u) /\ Host[u] = h],
      urls    |-> {u \in Url : Known(u)},
      blocked |-> {h \in hosts : Statuses(h) \cap {"rejected", "blocked"} # {}},
      left    |-> left,
      full    |-> left = 0]

\* The address to probe for each host an ordered list of links may add.
Eligible(links, index, self) ==
  LET of    == [i \in DOMAIN links |-> normalize_host(links[i])]
      first == {i \in DOMAIN links : \A j \in 1..(i-1) : of[j] # of[i]}
      good  == {i \in first : ~is_denied_host(of[i]) /\ of[i] \notin index.feeds \cup self}
  IN [h \in {of[i] : i \in good} |-> origin_of(links[CHOOSE i \in good : of[i] = h])]

Fresh(found, index) == DOMAIN found \ DOMAIN index.at

\* The rows after "new" is inserted and feed f refers to the known hosts among
\* "found"; the trigger copies the count of referrers to a pending candidate.
WithTargets(new, found, at, f, source) ==
  LET cited == IF f = None THEN {} ELSE {at[h] : h \in DOMAIN found \cap DOMAIN at}
      made  == [u \in Url |-> IF u \in {found[h] : h \in new} THEN Row(source) ELSE target[u]]
  IN [u \in Url |-> IF u \in cited THEN [made[u] EXCEPT !.refs = @ \cup {f}] ELSE made[u]]
Counted(rows) ==
  [c \in FeedUrl |-> IF cand[c] = None \/ cand[c].status # "pending" THEN cand[c]
                     ELSE IF rows[cand[c].target].refs = target[cand[c].target].refs THEN cand[c]
                     ELSE [cand[c] EXCEPT !.refs = Cardinality(rows[cand[c].target].refs)]]

\* What record_targets may store: of the hosts allowed, as many new ones as the
\* index has room for; an address that is taken fails the statement.  A feed that
\* was deleted refers to nothing: its targets are stored, then the harvest fails.
record_targets(found, allowed, index, f, source) ==
  LET fresh == allowed \cap Fresh(found, index)
      Inserted(new) ==
        LET kept == [h \in new \cup (DOMAIN found \cap DOMAIN index.at) |-> found[h]]
            at   == [h \in DOMAIN index.at \cup new |-> IF h \in new THEN found[h] ELSE index.at[h]]
            gone == f # None /\ feed[f] # "catalog" /\ DOMAIN kept # {}
        IN [ok |-> ~gone, rows |-> WithTargets(new, kept, at, IF gone THEN None ELSE f, source),
            index |-> [index EXCEPT !.at = at, !.left = @ - Cardinality(new)]]
  IN {IF \E h \in new : Known(found[h]) THEN [ok |-> FALSE, rows |-> target, index |-> index]
      ELSE Inserted(new)
        : new \in {n \in SUBSET fresh : Cardinality(n) = Smaller(index.left, Cardinality(fresh))}}

Recorded(out) == target' = out.rows /\ cand' = Counted(out.rows)

-----------------------------------------------------------------------------
(* Mining an article: its links are read, recorded, and the version marked.  *)

Packet(f, by, index) ==
  [feed |-> f, by |-> by, ver |-> art[f].ver, index |-> index, room |-> MaxHosts, step |-> "record"]
LinksOf(p) == Eligible(Version[p.feed][p.ver].links, p.index, Hosts[p.feed])
Swap(S, p, q) == (S \ {p}) \cup {q}
Unmined(f) == art[f].mark # art[f].ver
\* A cycle and its harvests share one index.
Extended(p, index) == IF p.by = "cycle" /\ cycle # None THEN [cycle EXCEPT !.index = index] ELSE cycle

\* An ingestion mines what it stored, with an index of its own.
IngestHarvest(f) ==
  /\ control.running /\ feed[f] = "catalog" /\ Unmined(f) /\ Event
  /\ \A p \in harvests : p.by # "ingest"
  /\ harvests' = harvests \cup {Packet(f, "ingest", build_host_index)}
  /\ UNCHANGED <<control, target, cand, feed, art, cycle, probes, promotions, seeds>>

CycleHarvest(f) ==
  /\ cycle # None /\ cycle.stage = "harvest" /\ f \in cycle.due
  /\ \A p \in harvests : p.by # "cycle"
  /\ LET p == Packet(f, "cycle", cycle.index)
     IN harvests' = IF feed[f] # "catalog" THEN harvests   \* deleted since: nothing to read
                    ELSE harvests \cup {IF Unmined(f) THEN p ELSE [p EXCEPT !.step = "blogroll"]}
  /\ cycle' = [cycle EXCEPT !.due = @ \ {f}]
  /\ UNCHANGED <<control, target, cand, feed, art, probes, promotions, seeds, cycles, events>>

\* At most MaxHosts new hosts of one article; the rest waits for another harvest.
HarvestRecord(p) ==
  /\ p.step = "record"
  /\ \E allowed \in SUBSET Fresh(LinksOf(p), p.index) :
       /\ Cardinality(allowed) = Smaller(MaxHosts, Cardinality(Fresh(LinksOf(p), p.index)))
       /\ \E out \in record_targets(LinksOf(p), allowed, p.index, p.feed, "article_link") :
            /\ Recorded(out) /\ cycle' = Extended(p, out.index)
            /\ harvests' = IF out.ok
                           THEN Swap(harvests, p, [p EXCEPT !.index = out.index, !.step = "mark",
                                                            !.room = @ - (p.index.left - out.index.left)])
                           ELSE harvests \ {p}
  /\ UNCHANGED <<control, feed, art, probes, promotions, seeds, cycles, events>>

\* The version is done when it was read to its end and every host it may add is
\* known; it is marked only if it is still the article's version, and still there.
Mined(p) == Version[p.feed][p.ver].whole /\ Fresh(LinksOf(p), p.index) = {}
MarkAny(p) ==   \* faulty variant: whatever version the article has by now
  /\ p.step = "mark"
  /\ art' = IF Mined(p) THEN [art EXCEPT ![p.feed].mark = art[p.feed].ver] ELSE art
  /\ harvests' = harvests \ {p}
  /\ UNCHANGED <<control, target, cand, feed, cycle, probes, promotions, seeds, cycles, events>>
HarvestMark(p) ==
  /\ p.step = "mark"
  /\ art' = IF Mined(p) /\ art[p.feed].ver = p.ver /\ feed[p.feed] = "catalog"
            THEN [art EXCEPT ![p.feed].mark = p.ver] ELSE art
  /\ harvests' = IF p.by = "cycle" THEN Swap(harvests, p, [p EXCEPT !.step = "blogroll"])
                 ELSE harvests \ {p}
  /\ UNCHANGED <<control, target, cand, feed, cycle, probes, promotions, seeds, cycles, events>>

\* What a page we chose to read lists: no denylist for the page, only for its links.
Listed(w, url) ==
  LET got == fetch_with_cap(w, url, [u \in Hops(w, url) |-> make_gate(w, u, FALSE)], TRUE)
  IN IF got.kind = "ok" THEN got.reply.anchors ELSE <<>>
Pages == ({Site[f] : f \in Catalog} \ {None}) \cup {s.url : s \in Source}
MayList == [url \in Pages |-> {Listed(w, url) : w \in Webs}]
OwnPage(f) == {<<>>} \cup IF Site[f] = None THEN {} ELSE MayList[Site[f]]

\* harvest_one ends with the feed's own page, when it has one that is due and
\* answers; what a thread was about to record of it may outlive a pause.
Blogroll(p) ==
  /\ p.step = "blogroll"
  /\ \E links \in OwnPage(p.feed) :
       LET found == Eligible(links, p.index, Hosts[p.feed])
       IN \E allowed \in SUBSET Fresh(found, p.index) :
            /\ Cardinality(allowed) = Smaller(p.room, Cardinality(Fresh(found, p.index)))
            /\ \E out \in record_targets(found, allowed, p.index, p.feed, "article_link") :
                 Recorded(out) /\ cycle' = Extended(p, out.index)
  /\ harvests' = harvests \ {p}
  /\ UNCHANGED <<control, feed, art, probes, promotions, seeds, cycles, events>>

\* A refresh stores a new revision of the article, not mined yet.
Revise(f) ==
  /\ Event /\ feed[f] = "catalog" /\ art[f].ver < Len(Version[f])
  /\ art' = [art EXCEPT ![f].ver = @ + 1]
  /\ UNCHANGED <<control, target, cand, feed, cycle, harvests, probes, promotions, seeds>>

-----------------------------------------------------------------------------
(* The cycle: directories, articles, probes, promotion.                      *)

StartCycle ==
  /\ cycle = None /\ control.running
  /\ cycles < MaxCycles /\ cycles' = cycles + 1
  /\ cycle' = [stage |-> "directory", index |-> build_host_index, due |-> Source]
  /\ UNCHANGED <<control, target, cand, feed, art, harvests, probes, promotions, seeds, events>>

\* A stage ends with nothing due, at its limit, or on an exception: the next
\* stage starts all the same.
After == [directory |-> "harvest", harvest |-> "probe", probing |-> "promote"]
NextStage ==
  /\ cycle # None /\ cycle.stage \in DOMAIN After
  /\ cycle.stage = "harvest" => \A p \in harvests : p.by # "cycle"
  /\ cycle.stage = "probing" => probes = {}
  /\ cycle' = [stage |-> After[cycle.stage],
               due   |-> IF cycle.stage = "directory" THEN {f \in Catalog : feed[f] = "catalog"} ELSE {},
               index |-> IF cycle.stage = "directory" THEN cycle.index ELSE None]
  /\ UNCHANGED <<control, target, cand, feed, art, harvests, probes, promotions, seeds, cycles, events>>

EndCycle ==
  /\ cycle # None /\ cycle.stage = "promoting" /\ promotions = {}
  /\ cycle' = None
  /\ UNCHANGED <<control, target, cand, feed, art, harvests, probes, promotions, seeds, cycles, events>>

\* The poll of the switch cancels what awaits; a thread runs to its end.
Orphaned == {IF p.by = "cycle" THEN [p EXCEPT !.by = "thread"] ELSE p : p \in harvests}
PauseCancels ==
  /\ cycle # None /\ ~control.running
  /\ \A p \in probes : p.step \in {"selected", "begun"}
  /\ cycle' = None /\ probes' = {} /\ harvests' = Orphaned
  /\ UNCHANGED <<control, target, cand, feed, art, promotions, seeds, cycles, events>>

WorkerCrash ==
  /\ Event /\ cycle # None
  /\ cycle' = None /\ probes' = {} /\ promotions' = {}
  /\ harvests' = {p \in harvests : p.by = "ingest"}
  /\ UNCHANGED <<control, target, cand, feed, art, seeds>>

\* A links page adds hosts, like an article; an OPML file adds its addresses, all
\* or none, but for hosts that carry a feed or are blocked.
OpmlTargets(links, index) ==
  {u \in ToSet(links) \ index.urls :
     ~is_denied_host(normalize_host(u)) /\ normalize_host(u) \notin index.feeds \cup index.blocked}
record_feed_targets(new, index) ==
  LET at == [h \in DOMAIN index.at \cup {Host[u] : u \in new} |->
               IF h \in DOMAIN index.at THEN index.at[h] ELSE CHOOSE u \in new : Host[u] = h]
  IN IF index.full \/ \E u \in new : Known(u) THEN [rows |-> target, index |-> index]
     ELSE [rows  |-> [u \in Url |-> IF u \in new THEN Row("opml") ELSE target[u]],
           index |-> [index EXCEPT !.at = at]]

ReadSource(s) ==
  /\ cycle # None /\ cycle.stage = "directory" /\ s \in cycle.due
  /\ \E links \in MayList[s.url] :
       LET found == Eligible(links, cycle.index, {})
           outs  == IF s.kind = "opml" THEN {record_feed_targets(OpmlTargets(links, cycle.index), cycle.index)}
                    ELSE record_targets(found, DOMAIN found, cycle.index, None, "directory")
       IN \E out \in outs :
            Recorded(out) /\ cycle' = [cycle EXCEPT !.index = out.index, !.due = @ \ {s}]
  /\ UNCHANGED <<control, feed, art, harvests, probes, promotions, seeds, cycles, events>>

-----------------------------------------------------------------------------
(* The probe of a target.                                                    *)

Reserved(u) == target[u].source = "seed" /\ Host[u] \in PriorityHosts
Probe(u) == [url |-> u, attempts |-> target[u].attempts, refs |-> Cardinality(target[u].refs),
             step |-> "selected", verdict |-> None, feeds |-> {}, insert |-> None]

\* select_due_targets: seeds of a profile take at most half of the batch.
SelectProbes ==
  /\ cycle # None /\ cycle.stage = "probe"
  /\ \E S \in SUBSET Pending :
       /\ Cardinality(S) <= ProbeBatch
       /\ Cardinality({u \in S : Reserved(u)}) <= ProbeBatch \div 2
       /\ probes' = {Probe(u) : u \in S}
  /\ cycle' = [cycle EXCEPT !.stage = "probing"]
  /\ UNCHANGED <<control, target, cand, feed, art, harvests, promotions, seeds, cycles, events>>

\* A target that was cancelled after its selection is not contacted.
ProbeBegin(p) ==
  /\ p.step = "selected"
  /\ probes' = IF target[p.url].status = "pending" THEN Swap(probes, p, [p EXCEPT !.step = "begun"])
               ELSE probes \ {p}
  /\ UNCHANGED <<control, target, cand, feed, art, cycle, harvests, promotions, seeds, cycles, events>>

\* The gate of addresses, the denylist, robots.txt if asked, then the search for feeds.
Result(verdict, feeds, contacts) == [verdict |-> verdict, feeds |-> feeds, contacts |-> contacts]
Swept(sweep, contacts) ==
  IF sweep.kind = "error" THEN Result("failed", {}, contacts \cup sweep.contacts)
  ELSE Result("done", sweep.feeds, contacts \cup sweep.contacts)
Examined(w, u, robots) ==
  IF robots.allowed THEN Swept(discover_feeds(w, u), robots.contacts)
  ELSE Result(IF robots.transient THEN "failed" ELSE "blocked", {}, robots.contacts)
Answer(w, u) ==
  CASE ~Valid(w, u) -> Result("failed", {}, {})
    [] Valid(w, u) /\ is_denied_host(Host[u]) -> Result("blocked", {}, {})
    [] OTHER -> Examined(w, u, robots_decision(w, u))
Answers == [u \in Url |-> {Answer(w, u) : w \in Webs}]

\* Url holds the origin of every link that may become a target.
Origins(links) ==
  /\ links \in Seq(Address)
  /\ \A i \in DOMAIN links : is_denied_host(normalize_host(links[i])) \/ origin_of(links[i]) \in Url

ASSUME FrontierAssumption ==
  /\ Url \cup FeedUrl \subseteq Address
  /\ IsFiniteSet(Catalog) /\ Catalog \subseteq FeedUrl
  /\ None \notin TargetRow \cup CandRow \cup Admission \cup {"deleted"}
  /\ \A f \in Catalog :
       /\ Version[f] \in Seq([links : Seq(Address), whole : BOOLEAN]) /\ Version[f] # <<>>
       /\ \A ver \in DOMAIN Version[f] : Origins(Version[f][ver].links)
       /\ \A links \in OwnPage(f) : Origins(links)
  /\ \A s \in Source : \A links \in MayList[s.url] :
       IF s.kind # "opml" THEN Origins(links)
       ELSE links \in Seq(Address)
            /\ \A i \in DOMAIN links : is_denied_host(normalize_host(links[i])) \/ links[i] \in Url
  /\ \A u \in Url : \A a \in Answers[u] : a.feeds \subseteq FeedUrl

ProbeFetch(p) ==
  /\ p.step = "begun"
  /\ \E a \in Answers[p.url] :
       probes' = Swap(probes, p, [p EXCEPT !.step = "found", !.verdict = a.verdict, !.feeds = a.feeds])
  /\ UNCHANGED <<control, target, cand, feed, art, cycle, harvests, promotions, seeds, cycles, events>>

\* record_candidates: an address seen before, or an alias of one, is left alone;
\* a feed of the catalog is recorded as imported.
Seen(f) == \E g \in Aliases[f] : cand[g] # None
Carried(f) == \E g \in Aliases[f] : feed[g] \in Admission
LookUp(p, f) ==
  /\ p.step = "found" /\ f \in p.feeds /\ p.insert = None
  /\ LET row == [feed |-> f, status |-> IF Carried(f) THEN "imported" ELSE "pending"]
     IN probes' = Swap(probes, p, [p EXCEPT !.feeds = @ \ {f},
                                            !.insert = IF is_comment_feed(f) \/ Seen(f) THEN None ELSE row])
  /\ UNCHANGED <<control, target, cand, feed, art, cycle, harvests, promotions, seeds, cycles, events>>

\* candidates_removed_guard drops the row of a removed or rejected target; an
\* address taken since the look-up fails the probe, which then writes nothing.
InsertAnyway(p) ==   \* faulty variant: no guard on the target
  /\ p.insert # None
  /\ LET row == [status |-> p.insert.status, target |-> p.url, refs |-> p.refs]
     IN cand' = [cand EXCEPT ![p.insert.feed] = row]
  /\ probes' = Swap(probes, p, [p EXCEPT !.insert = None])
  /\ UNCHANGED <<control, target, feed, art, cycle, harvests, promotions, seeds, cycles, events>>
Insert(p) ==
  /\ p.insert # None
  /\ LET f == p.insert.feed
         row == [status |-> p.insert.status, target |-> p.url, refs |-> p.refs]
     IN IF cand[f] # None THEN probes' = probes \ {p} /\ UNCHANGED cand
        ELSE /\ cand' = IF target[p.url].status \in {"removed", "rejected"} THEN cand
                        ELSE [cand EXCEPT ![f] = row]
             /\ probes' = Swap(probes, p, [p EXCEPT !.insert = None])
  /\ UNCHANGED <<control, target, feed, art, cycle, harvests, promotions, seeds, cycles, events>>

\* _record_failure counts from the attempts read with the batch, _record_terminal
\* is an answer; both write to a target that is still pending only.
Ended(p) ==
  LET row == target[p.url]
      n   == p.attempts + 1
  IN IF p.verdict = "failed"
     THEN [row EXCEPT !.attempts = n, !.status = IF n >= ProbeAttempts THEN "exhausted" ELSE "pending"]
     ELSE [row EXCEPT !.status = p.verdict, !.attempts = IF p.verdict = "done" THEN 0 ELSE @]
EndAnyway(p) ==   \* faulty variant: the end is written whatever the target has become
  /\ p.step = "found" /\ p.feeds = {} /\ p.insert = None
  /\ target' = Update(p.url, Ended(p))
  /\ probes' = probes \ {p}
  /\ UNCHANGED <<control, cand, feed, art, cycle, harvests, promotions, seeds, cycles, events>>
ProbeEnd(p) ==
  /\ p.step = "found" /\ p.feeds = {} /\ p.insert = None
  /\ target' = IF target[p.url].status = "pending" THEN Update(p.url, Ended(p)) ELSE target
  /\ probes' = probes \ {p}
  /\ UNCHANGED <<control, cand, feed, art, cycle, harvests, promotions, seeds, cycles, events>>

-----------------------------------------------------------------------------
(* Admission.                                                                *)

BlockedAlias(c) == {g \in Aliases[c] \ {c} :
                      cand[g] # None /\ cand[g].status \in {"held", "rejected"}}

\* admit_source_review, called by promote_discovery_candidate.
Admit(c, method) ==
  /\ cand' = [cand EXCEPT ![c].status = "imported"]
  /\ feed' = IF Carried(c) THEN feed ELSE [feed EXCEPT ![c] = method]

\* Model review, while it is on, owns automatic admission.
AutoPromoteDue ==
  /\ cycle # None /\ cycle.stage = "promote"
  /\ promotions' = IF control.review THEN {}
                   ELSE {c \in FeedUrl : cand[c] # None /\ cand[c].status = "pending" /\ cand[c].refs >= MinReferrers}
  /\ cycle' = [cycle EXCEPT !.stage = "promoting"]
  /\ UNCHANGED <<control, target, cand, feed, art, harvests, probes, seeds, cycles, events>>

\* What was due may have been decided since: the function looks again.
MayAsRead(c) == cand[c].status \notin {"rejected", "held"}   \* faulty variant: no second look at the switches
MayPromote(c) == /\ cand[c].status \notin {"rejected", "held"}
                 /\ control.running /\ ~control.review
Promote(c) ==
  /\ c \in promotions
  /\ promotions' = promotions \ {c}
  /\ IF is_comment_feed(c) \/ BlockedAlias(c) # {}
     THEN /\ UNCHANGED feed
          /\ \E status \in IF is_comment_feed(c) THEN {"rejected"} ELSE {cand[g].status : g \in BlockedAlias(c)} :
               /\ cand' = IF cand[c].status = "pending" THEN [cand EXCEPT ![c].status = status] ELSE cand
     ELSE IF MayPromote(c) THEN Admit(c, "auto") ELSE UNCHANGED <<cand, feed>>
  /\ UNCHANGED <<control, target, art, cycle, harvests, probes, seeds, cycles, events>>

-----------------------------------------------------------------------------
(* The administrator.                                                        *)

\* seed_targets reads the row of the host, then inserts a target for the origin
\* or queues the one it found again; a rejected host is left alone.
SeedRead(url) ==
  LET host == normalize_host(url)
      rows == {u \in Url : Known(u) /\ Host[u] = host}
  IN /\ Event /\ seeds = {} /\ ~is_denied_host(host)
     /\ \E w \in Webs : Valid(w, url)
     /\ \/ rows = {} /\ seeds' = {[url |-> origin_of(url), insert |-> TRUE]}
        \/ \E u \in rows : /\ rows = {u} /\ target[u].status \in {"done", "exhausted", "blocked"}
                           /\ seeds' = {[url |-> u, insert |-> FALSE]}
     /\ UNCHANGED <<control, target, cand, feed, art, cycle, harvests, probes, promotions>>

SeedWrite(s) ==
  /\ target' = IF s.insert
               THEN IF Known(s.url) THEN target ELSE [target EXCEPT ![s.url] = Row("seed")]
               ELSE Update(s.url, [target[s.url] EXCEPT !.status = "pending", !.attempts = 0])
  /\ seeds' = seeds \ {s}
  /\ UNCHANGED <<control, cand, feed, art, cycle, harvests, probes, promotions, cycles, events>>

block_host(host) ==
  [u \in Url |-> IF Known(u) /\ Host[u] = host THEN [target[u] EXCEPT !.status = "rejected"]
                 ELSE target[u]]
BlockTarget(u) ==
  /\ Event /\ Known(u)
  /\ target' = block_host(Host[u])
  /\ UNCHANGED <<control, cand, feed, art, cycle, harvests, probes, promotions, seeds>>

\* remove_discovery_targets: only a pending target no finding came from.
RemoveTarget(u) ==
  /\ Event /\ u \in Pending /\ Findings(u) = {}
  /\ target' = [target EXCEPT ![u].status = "removed"]
  /\ UNCHANGED <<control, cand, feed, art, cycle, harvests, probes, promotions, seeds>>

Approve(c) ==
  /\ Event /\ cand[c] # None /\ cand[c].status # "rejected"
  /\ ~is_comment_feed(c) /\ BlockedAlias(c) = {}
  /\ Admit(c, "manual")
  /\ UNCHANGED <<control, target, art, cycle, harvests, probes, promotions, seeds>>

\* Held or rejected before it was imported; a rejection may block the host too.
Decide(c, status, block) ==
  /\ Event /\ cand[c] # None /\ cand[c].status # "imported"
  /\ cand' = [cand EXCEPT ![c].status = status]
  /\ target' = IF block THEN block_host(Host[cand[c].target]) ELSE target
  /\ UNCHANGED <<control, feed, art, cycle, harvests, probes, promotions, seeds>>

\* apply_cleanup_batch deletes a feed that was staged for it: what it refers to
\* is counted again, the candidate it came from stays.
DeleteFeed(f) ==
  /\ Event /\ feed[f] \in Admission
  /\ feed' = [feed EXCEPT ![f] = "deleted"]
  /\ Recorded([rows |-> [u \in Url |-> IF Known(u) THEN [target[u] EXCEPT !.refs = @ \ {f}] ELSE None]])
  /\ UNCHANGED <<control, art, cycle, harvests, probes, promotions, seeds>>

SwitchControl ==
  /\ Event
  /\ control' \in {[control EXCEPT !.running = ~@], [control EXCEPT !.review = ~@]}
  /\ UNCHANGED <<target, cand, feed, art, cycle, harvests, probes, promotions, seeds>>

Mine == \/ \E f \in Catalog : Revise(f) \/ IngestHarvest(f) \/ CycleHarvest(f)
        \/ \E p \in harvests : HarvestRecord(p) \/ HarvestMark(p) \/ Blogroll(p)
Cycle == \/ StartCycle \/ NextStage \/ EndCycle \/ PauseCancels \/ WorkerCrash
         \/ SelectProbes \/ AutoPromoteDue
         \/ \E s \in Source : ReadSource(s)
         \/ \E c \in promotions : Promote(c)
         \/ \E p \in probes : \/ ProbeBegin(p) \/ ProbeFetch(p) \/ Insert(p) \/ ProbeEnd(p)
                              \/ \E f \in p.feeds : LookUp(p, f)
Administer == \/ \E u \in {v \in Url : origin_of(v) \in Url} : SeedRead(u)
              \/ \E u \in Url : BlockTarget(u) \/ RemoveTarget(u)
              \/ \E s \in seeds : SeedWrite(s)
              \/ \E c \in FeedUrl : \/ Approve(c) \/ DeleteFeed(c) \/ Decide(c, "held", FALSE)
                                   \/ \E block \in BOOLEAN : Decide(c, "rejected", block)
              \/ SwitchControl

Next == Mine \/ Cycle \/ Administer
Spec == Init /\ [][Next]_vars

-----------------------------------------------------------------------------
(* Properties.                                                               *)

\* An article version is marked as mined only when it was read to its end and
\* each host it links that could be a new source is a target, or is the host or
\* the website of a feed that is carried or was until an administrator deleted it,
\* however revisions, budgets and a full frontier interleave with the mining.
LinksNotLost ==
  \A f \in Catalog : feed[f] = "catalog" /\ art[f].mark = art[f].ver =>
    LET v == Version[f][art[f].ver]
    IN /\ v.whole
       /\ \A i \in DOMAIN v.links :
            LET h == normalize_host(v.links[i])
            IN \/ is_denied_host(h) \/ Statuses(h) # {}
               \/ \E g \in FeedUrl : feed[g] # None /\ h \in Hosts[g]

\* A target that was removed has no findings: a probe that was under way when it
\* was removed leaves no candidate behind.
RemovedHasNoFindings ==
  \A u \in Url : Known(u) /\ target[u].status = "removed" =>
    Findings(u) = {}

\* Every connection a probe can make goes to a public address, and every one that
\* is not for robots.txt, redirects included, to a host that is not denied, to an
\* address the robots.txt in force permits, unless robots.txt is switched off, and
\* never to a feed of comments.
OnlyAllowedContacted ==
  \A p \in probes : p.step = "begun" =>
    \A a \in Answers[p.url] : \A c \in a.contacts :
      /\ c.ip.public
      /\ c.main => /\ ~is_denied_host(normalize_host(c.url))
                   /\ c.permitted /\ ~is_comment_feed(c.url)

\* What an administrator blocked or removed stays so: no probe, harvest or
\* directory that was under way moves it, only a later block, or a seeding
\* request that had read the row before.
AdminDecisionStands ==
  [][\A u \in Url : Known(u) /\ target[u].status \in {"rejected", "removed"} =>
       \/ target'[u].status \in {target[u].status, "rejected"}
       \/ \E s \in seeds : s.url = u /\ seeds' = seeds \ {s}]_vars

\* A feed is admitted without a human only while discovery runs and model review
\* is off, and only from a candidate nobody held or rejected, whatever was read
\* when its promotion became due.
AutomaticAdmissionAllowed ==
  [][\A c \in FeedUrl : feed[c] # "auto" /\ feed'[c] = "auto" =>
       /\ control.running /\ ~control.review
       /\ \A g \in Aliases[c] :
            cand[g] # None => cand[g].status \notin {"held", "rejected"}]_vars
=============================================================================
