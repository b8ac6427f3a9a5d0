--------------------------- MODULE FrontierProofs ---------------------------
(***************************************************************************)
(* Safety of source discovery, for every number of addresses, feeds,       *)
(* revisions, harvests, probes and cycles, and whatever the web answers.   *)
(* Targets and candidates never disappear, and a feed that is deleted is   *)
(* remembered as such, so what an index knew when it was read stays true   *)
(* however old it is; the budgets and the guards of the tables do the rest. *)
(***************************************************************************)
EXTENDS Frontier, FetchingProofs, FiniteSetTheorems, TLAPS

-----------------------------------------------------------------------------
(* The invariant.                                                            *)

TablesOK ==
  /\ target \in [Url -> TargetRow \cup {None}]
  /\ cand \in [FeedUrl -> CandRow \cup {None}]
  /\ feed \in [FeedUrl -> Admission \cup {None, "deleted"}]

\* A version that was mined is the article's version, or an older one.
ArticlesOK ==
  /\ art \in [Catalog -> [ver : Nat, mark : Nat]]
  /\ \A f \in Catalog : art[f].ver \in DOMAIN Version[f] /\ art[f].mark <= art[f].ver

\* What an index knows is true: each host has a target of its own, or is a host of a
\* feed that is carried or was.
IndexOK(index) ==
  /\ DOMAIN index = {"feeds", "at", "urls", "blocked", "left", "full"}
  /\ \A h \in DOMAIN index.at : index.at[h] \in Url /\ Known(index.at[h]) /\ Host[index.at[h]] = h
  /\ \A h \in index.feeds : \E g \in FeedUrl : feed[g] # None /\ h \in Hosts[g]

CycleOK ==
  cycle # None =>
    /\ DOMAIN cycle = {"stage", "index", "due"}
    /\ cycle.stage \in {"directory", "harvest"} => IndexOK(cycle.index)
HarvestOK(p) ==
  /\ DOMAIN p = {"feed", "by", "ver", "index", "room", "step"}
  /\ p.feed \in Catalog /\ p.ver \in DOMAIN Version[p.feed] /\ IndexOK(p.index)

Verdict   == {"failed", "done", "blocked"}
InsertRow == [feed : FeedUrl, status : {"imported", "pending"}]
ProbeRow  == [url : Url, attempts : Nat, refs : Nat, step : {"selected", "begun", "found"},
              verdict : Verdict \cup {None}, feeds : SUBSET FeedUrl, insert : InsertRow \cup {None}]
ProbeOK(p) == p \in ProbeRow /\ Known(p.url) /\ (p.step = "found" => p.verdict \in Verdict)
SeedOK(s)  == s \in [url : Url, insert : BOOLEAN] /\ (~s.insert => Known(s.url))

\* A candidate was found at a target that is known.
CandidatesPlaced == \A c \in FeedUrl : cand[c] # None => Known(cand[c].target)

FrontierInv ==
  /\ TablesOK /\ ArticlesOK /\ CycleOK /\ CandidatesPlaced
  /\ \A p \in harvests : HarvestOK(p)
  /\ \A p \in probes : ProbeOK(p)
  /\ \A s \in seeds : SeedOK(s)
  /\ \A c \in promotions : c \in FeedUrl /\ cand[c] # None
  /\ RemovedHasNoFindings /\ LinksNotLost

-----------------------------------------------------------------------------
(* The addresses a list of links adds.                                       *)

\* An address and its origin have the same host.
LEMMA OriginHost ==
  ASSUME NEW url \in Address, normalize_host(url) # None
  PROVE  normalize_host(origin_of(url)) = normalize_host(url)
<1>1. Web(url)
  BY DEF normalize_host
<1>2. /\ origin_of(url) = [url EXCEPT !.path = <<>>, !.slash = TRUE, !.query = "none"]
      /\ origin_of(url).host = url.host /\ origin_of(url).scheme = url.scheme
  BY <1>1 DEF origin_of, Root, Address
<1> QED BY <1>2 DEF normalize_host, Web

\* What may be a target has a host.
LEMMA DeniedNone == is_denied_host(None)
BY DEF is_denied_host

\* Addresses of targets, each for its host.
Lists(found) == \A h \in DOMAIN found : found[h] \in Url /\ Host[found[h]] = h

\* The targets a list of links adds have addresses of their own, and no host is left out
\* but those that are denied, carry a feed or belong to the page itself.
LEMMA EligibleLists ==
  ASSUME NEW links, Origins(links), NEW index, NEW self
  PROVE  /\ Lists(Eligible(links, index, self))
         /\ \A i \in DOMAIN links :
              LET h == normalize_host(links[i])
              IN is_denied_host(h) \/ h \in index.feeds \cup self \/ h \in DOMAIN Eligible(links, index, self)
<1> DEFINE of == [i \in DOMAIN links |-> normalize_host(links[i])]
<1> DEFINE first == {i \in DOMAIN links : \A j \in 1..(i-1) : of[j] # of[i]}
<1> DEFINE good == {i \in first : ~is_denied_host(of[i]) /\ of[i] \notin index.feeds \cup self}
<1> DEFINE found == [h \in {of[i] : i \in good} |-> origin_of(links[CHOOSE i \in good : of[i] = h])]
<1>1. found = Eligible(links, index, self)
  BY DEF Eligible
<1>2. /\ links \in Seq(Address) /\ DOMAIN links = 1..Len(links) /\ Len(links) \in Nat
      /\ \A i \in DOMAIN links : links[i] \in Address
      /\ \A i \in DOMAIN links : is_denied_host(normalize_host(links[i])) \/ origin_of(links[i]) \in Url
  BY DEF Origins
<1>3. ASSUME NEW h \in DOMAIN found PROVE found[h] \in Url /\ Host[found[h]] = h
  <2> DEFINE i == CHOOSE k \in good : of[k] = h
  <2>1. i \in good /\ of[i] = h
    OBVIOUS
  <2>2. i \in DOMAIN links /\ normalize_host(links[i]) = h /\ ~is_denied_host(h)
    BY <2>1
  <2>3. found[h] = origin_of(links[i])
    OBVIOUS
  <2> HIDE DEF i, found, of, first, good
  <2>4. origin_of(links[i]) \in Url /\ links[i] \in Address /\ h # None
    BY <1>2, <2>2, DeniedNone
  <2>5. normalize_host(origin_of(links[i])) = h
    BY <2>2, <2>4, OriginHost
  <2> QED BY <2>3, <2>4, <2>5 DEF Host, Addresses
<1>4. ASSUME NEW i \in DOMAIN links, ~is_denied_host(of[i]), of[i] \notin index.feeds \cup self
      PROVE  of[i] \in DOMAIN found
  <2> DEFINE S == {k \in DOMAIN links : of[k] = of[i]}
  <2>1. S \in SUBSET Nat /\ S # {}
    BY <1>2
  <2>2. PICK m \in S : \A k \in S : m <= k
    <3> HIDE DEF S
    <3> QED BY <2>1, LeastOf
  <2>3. m \in DOMAIN links /\ of[m] = of[i] /\ \A k \in DOMAIN links : of[k] = of[i] => m <= k
    BY <2>2
  <2>4. m \in first
    BY <1>2, <2>3
  <2>5. m \in good
    BY <1>4, <2>3, <2>4
  <2> QED BY <2>3, <2>5
<1> HIDE DEF found
<1> QED BY <1>1, <1>3, <1>4 DEF Lists

-----------------------------------------------------------------------------
(* What a step keeps.                                                        *)

\* Targets and candidates stay in their tables, feeds were carried, and no feed joins
\* the catalog discovery started from.
Grows ==
  /\ TablesOK'
  /\ \A u \in Url : target[u] # None => target'[u] # None
  /\ \A c \in FeedUrl : cand[c] # None => cand'[c] # None
  /\ \A f \in FeedUrl : feed[f] # None => feed'[f] # None
  /\ \A f \in FeedUrl : feed'[f] = "catalog" => feed[f] = "catalog"

\* A target that becomes removed has no findings, and gets none.
NoneRemoved ==
  \A u \in Url : target'[u] # None /\ target'[u].status = "removed" =>
    \/ target[u] # None /\ target[u].status = "removed"
    \/ Findings(u) = {} /\ cand' = cand
\* What a human decided about a target stands.
DecisionsStand ==
  \A u \in Url : Known(u) /\ target[u].status \in {"rejected", "removed"} =>
    target'[u].status \in {target[u].status, "rejected"}
\* Candidates stay with their targets; a new one is found at a target that is not removed.
FindingsStay ==
  \A c \in FeedUrl : cand'[c] # None =>
    \/ cand[c] # None /\ cand'[c].target = cand[c].target
    \/ /\ cand'[c].target \in Url /\ Known(cand'[c].target)
       /\ target[cand'[c].target].status # "removed"

\* The fields of a row.
LEMMA RowFields ==
  /\ \A row \in TargetRow : /\ row # None /\ row.attempts \in Nat /\ row.refs \in SUBSET Catalog
                            /\ row.status \in {"pending", "done", "exhausted", "blocked", "rejected", "removed"}
                            /\ \A refs \in SUBSET Catalog : [row EXCEPT !.refs = refs] \in TargetRow
                                 /\ [row EXCEPT !.refs = refs].status = row.status
  /\ \A row \in CandRow : /\ row # None /\ row.refs \in Nat /\ row.target \in Url
                          /\ \A n \in Nat : [row EXCEPT !.refs = n] \in CandRow
                               /\ [row EXCEPT !.refs = n].target = row.target
                               /\ [row EXCEPT !.refs = n].status = row.status
<1>1. ASSUME NEW row \in TargetRow
      PROVE /\ row # None /\ row.attempts \in Nat /\ row.refs \in SUBSET Catalog
            /\ row.status \in {"pending", "done", "exhausted", "blocked", "rejected", "removed"}
            /\ \A refs \in SUBSET Catalog : [row EXCEPT !.refs = refs] \in TargetRow
                 /\ [row EXCEPT !.refs = refs].status = row.status
  BY FrontierAssumption DEF FrontierAssumption, TargetRow
<1>2. ASSUME NEW row \in CandRow
      PROVE /\ row # None /\ row.refs \in Nat /\ row.target \in Url
            /\ \A n \in Nat : [row EXCEPT !.refs = n] \in CandRow
                 /\ [row EXCEPT !.refs = n].target = row.target
                 /\ [row EXCEPT !.refs = n].status = row.status
  BY FrontierAssumption DEF FrontierAssumption, CandRow
<1> QED BY <1>1, <1>2

\* A new row of targets waits to be probed.
LEMMA NewTarget ==
  ASSUME NEW source \in {"article_link", "directory", "opml", "seed"}
  PROVE  Row(source) \in TargetRow /\ Row(source).status = "pending" /\ Row(source) # None
<1>1. Row(source) \in TargetRow /\ Row(source).status = "pending"
  BY DEF Row, TargetRow
<1> QED BY <1>1, RowFields

\* Referring feeds can be counted.
LEMMA RefsCounted ==
  ASSUME NEW refs \in SUBSET Catalog
  PROVE  Cardinality(refs) \in Nat
BY FrontierAssumption, FS_Subset, FS_CardinalityType DEF FrontierAssumption

\* What an index knows stays true.
LEMMA IndexStays ==
  ASSUME Grows, NEW index, IndexOK(index)
  PROVE  IndexOK(index)'
BY DEF IndexOK, Grows, Known

\* So does what the rest of a cycle works on.
LEMMA HarvestStays ==
  ASSUME Grows, NEW p, HarvestOK(p)
  PROVE  HarvestOK(p)'
BY IndexStays DEF HarvestOK
\* A probe and a seeding request keep their targets.
LEMMA ProbeStays ==
  ASSUME Grows, NEW p, ProbeOK(p)
  PROVE  ProbeOK(p)'
BY DEF ProbeOK, ProbeRow, Grows, Known
\* The same of a seeding request.
LEMMA SeedStays ==
  ASSUME Grows, NEW s, SeedOK(s)
  PROVE  SeedOK(s)'
BY DEF SeedOK, Grows, Known

\* A version all of whose hosts are accounted for.
Accounted(f, ver) ==
  LET v == Version[f][ver]
  IN /\ v.whole
     /\ \A i \in DOMAIN v.links :
          LET h == normalize_host(v.links[i])
          IN \/ is_denied_host(h) \/ Statuses(h) # {}
             \/ \E g \in FeedUrl : feed[g] # None /\ h \in Hosts[g]

\* A host that has a target has one.
LEMMA StatusesOf ==
  ASSUME NEW h
  PROVE  Statuses(h) # {} <=> \E u \in Url : target[u] # None /\ Host[u] = h
BY DEF Statuses, Known

\* What is accounted for stays so.
LEMMA AccountedStays ==
  ASSUME Grows, NEW f \in Catalog, NEW ver, Accounted(f, ver)
  PROVE  Accounted(f, ver)'
<1>1. ASSUME NEW h, Statuses(h) # {} PROVE Statuses(h)' # {}
  BY <1>1 DEF Grows, Statuses, Known
<1>2. ASSUME NEW h, \E g \in FeedUrl : feed[g] # None /\ h \in Hosts[g]
      PROVE  \E g \in FeedUrl : feed'[g] # None /\ h \in Hosts[g]
  BY <1>2 DEF Grows
<1> QED BY <1>1, <1>2 DEF Accounted

-----------------------------------------------------------------------------
(* Recording what links add.                                                 *)

\* The counts that follow the referrers leave candidates where they are.
LEMMA CountedKeeps ==
  ASSUME TablesOK, CandidatesPlaced, NEW rows \in [Url -> TargetRow \cup {None}],
         \A u \in Url : Known(u) => rows[u] # None
  PROVE  /\ Counted(rows) \in [FeedUrl -> CandRow \cup {None}]
         /\ \A c \in FeedUrl : /\ (Counted(rows)[c] = None) <=> (cand[c] = None)
                               /\ cand[c] # None => Counted(rows)[c].target = cand[c].target
<1>1. ASSUME NEW c \in FeedUrl, cand[c] = None
      PROVE  Counted(rows)[c] = None
  BY <1>1 DEF Counted
<1>2. ASSUME NEW c \in FeedUrl, cand[c] # None
      PROVE  Counted(rows)[c] \in CandRow /\ Counted(rows)[c].target = cand[c].target
  <2> DEFINE n == Cardinality(rows[cand[c].target].refs)
  <2>1. cand[c] \in CandRow
    BY <1>2 DEF TablesOK
  <2>2. cand[c].target \in Url
    BY <2>1, RowFields
  <2>3. rows[cand[c].target] \in TargetRow
    BY <1>2, <2>2 DEF CandidatesPlaced
  <2>4. rows[cand[c].target].refs \in SUBSET Catalog
    BY <2>3, RowFields
  <2>5. n \in Nat
    BY <2>4, RefsCounted
  <2>6. Counted(rows)[c] = cand[c] \/ Counted(rows)[c] = [cand[c] EXCEPT !.refs = n]
    BY <1>2 DEF Counted
  <2>7. [cand[c] EXCEPT !.refs = n] \in CandRow /\ [cand[c] EXCEPT !.refs = n].target = cand[c].target
    <3> HIDE DEF n
    <3> QED BY <2>1, <2>5, RowFields
  <2> QED BY <2>1, <2>6, <2>7
<1>3. \A c \in FeedUrl : Counted(rows)[c] \in CandRow \cup {None}
  BY <1>1, <1>2
<1>4. Counted(rows) = [c \in FeedUrl |-> Counted(rows)[c]]
  BY DEF Counted
<1>5. Counted(rows) \in [FeedUrl -> CandRow \cup {None}]
  BY <1>3, <1>4
<1> QED BY <1>1, <1>2, <1>5, RowFields

\* New targets are pending, and those that were known keep their status.
LEMMA WithTargetsKeeps ==
  ASSUME TablesOK, NEW new, NEW found, NEW at, NEW f \in Catalog \cup {None},
         NEW source \in {"article_link", "directory", "opml", "seed"},
         \A h \in new : h \in DOMAIN found /\ ~Known(found[h]),
         Lists(found),
         \A h \in DOMAIN at : at[h] \in Url /\ (Known(at[h]) \/ (h \in new /\ at[h] = found[h]))
  PROVE  LET rows == WithTargets(new, found, at, f, source)
         IN /\ rows \in [Url -> TargetRow \cup {None}]
            /\ \A u \in Url : Known(u) => rows[u] # None /\ rows[u].status = target[u].status
            /\ \A u \in Url : ~Known(u) /\ rows[u] # None => rows[u].status = "pending"
            /\ \A h \in new : rows[found[h]] # None
<1> DEFINE cited == IF f = None THEN {} ELSE {at[h] : h \in DOMAIN found \cap DOMAIN at}
<1> DEFINE added == {found[h] : h \in new}
<1> DEFINE made == [u \in Url |-> IF u \in added THEN Row(source) ELSE target[u]]
<1> DEFINE rows == [u \in Url |-> IF u \in cited THEN [made[u] EXCEPT !.refs = @ \cup {f}] ELSE made[u]]
<1>1. rows = WithTargets(new, found, at, f, source)
  BY DEF WithTargets
<1>2. added \subseteq Url /\ \A u \in added : ~Known(u)
  BY DEF Lists
<1>3. \A u \in cited : u \in Url /\ (Known(u) \/ u \in added) /\ f \in Catalog
  OBVIOUS
<1>4. ASSUME NEW u \in Url
      PROVE /\ made[u] \in TargetRow \cup {None}
            /\ made[u] # None <=> Known(u) \/ u \in added
            /\ Known(u) => made[u] = target[u]
            /\ ~Known(u) /\ made[u] # None => made[u].status = "pending"
  <2> HIDE DEF added
  <2> QED BY <1>2, NewTarget DEF TablesOK, Known
<1> HIDE DEF made, cited
<1>5. ASSUME NEW u \in Url
      PROVE /\ rows[u] \in TargetRow \cup {None}
            /\ rows[u] # None <=> made[u] # None
            /\ made[u] # None => rows[u].status = made[u].status
  <2>1. CASE u \in cited
    <3>1. made[u] \in TargetRow /\ f \in Catalog
      BY <1>3, <1>4, <2>1
    <3>2. made[u].refs \cup {f} \in SUBSET Catalog
      BY <3>1, RowFields
    <3>3. rows[u] = [made[u] EXCEPT !.refs = made[u].refs \cup {f}]
      BY <2>1, <3>1 DEF TargetRow
    <3> QED BY <3>1, <3>2, <3>3, RowFields
  <2>2. CASE u \notin cited
    BY <2>2, <1>4
  <2> QED BY <2>1, <2>2
<1>6. rows \in [Url -> TargetRow \cup {None}]
  BY <1>5
<1> HIDE DEF rows
<1>7. \A h \in new : rows[found[h]] # None
  BY <1>2, <1>4, <1>5
<1>8. \A u \in Url : Known(u) => rows[u] # None /\ rows[u].status = target[u].status
  BY <1>4, <1>5
<1>9. \A u \in Url : ~Known(u) /\ rows[u] # None => rows[u].status = "pending"
  BY <1>4, <1>5
<1> QED BY <1>1, <1>6, <1>7, <1>8, <1>9

\* What the rows stored by record_targets and its index agree on.
Stores(out, index) ==
  /\ out.rows \in [Url -> TargetRow \cup {None}]
  /\ \A u \in Url : Known(u) => out.rows[u] # None /\ out.rows[u].status = target[u].status
  /\ \A u \in Url : ~Known(u) /\ out.rows[u] # None => out.rows[u].status = "pending"
  /\ out.index.feeds = index.feeds /\ DOMAIN out.index = DOMAIN index
  /\ \A h \in DOMAIN out.index.at : LET u == out.index.at[h]
                                    IN u \in Url /\ out.rows[u] # None /\ Host[u] = h

\* An index changes in its hosts and its room.
LEMMA IndexFields ==
  ASSUME NEW index, IndexOK(index), NEW at, NEW left
  PROVE  LET new == [index EXCEPT !.at = at, !.left = left]
         IN new.at = at /\ new.left = left /\ new.feeds = index.feeds /\ DOMAIN new = DOMAIN index
BY DEF IndexOK

\* record_targets stores targets for hosts that had none, or nothing.
LEMMA RecordStores ==
  ASSUME TablesOK, NEW index, IndexOK(index), NEW found, Lists(found),
         NEW allowed, NEW f \in Catalog \cup {None},
         NEW source \in {"article_link", "directory", "opml", "seed"},
         NEW out \in record_targets(found, allowed, index, f, source)
  PROVE  Stores(out, index)
<1>1. PICK new \in SUBSET (allowed \cap Fresh(found, index)) :
        out = IF \E h \in new : Known(found[h]) THEN [ok |-> FALSE, rows |-> target, index |-> index]
              ELSE LET kept == [h \in new \cup (DOMAIN found \cap DOMAIN index.at) |-> found[h]]
                       at   == [h \in DOMAIN index.at \cup new |-> IF h \in new THEN found[h] ELSE index.at[h]]
                       gone == f # None /\ feed[f] # "catalog" /\ DOMAIN kept # {}
                   IN [ok |-> ~gone, rows |-> WithTargets(new, kept, at, IF gone THEN None ELSE f, source),
                       index |-> [index EXCEPT !.at = at, !.left = @ - Cardinality(new)]]
  BY DEF record_targets
<1>2. CASE \E h \in new : Known(found[h])
  <2>1. out.rows = target /\ out.index = index
    BY <1>1, <1>2
  <2> QED BY <2>1 DEF Stores, TablesOK, IndexOK, Known
<1>3. CASE ~ \E h \in new : Known(found[h])
  <2> DEFINE kept == [h \in new \cup (DOMAIN found \cap DOMAIN index.at) |-> found[h]]
  <2> DEFINE at == [h \in DOMAIN index.at \cup new |-> IF h \in new THEN found[h] ELSE index.at[h]]
  <2> DEFINE by == IF f # None /\ feed[f] # "catalog" /\ DOMAIN kept # {} THEN None ELSE f
  <2> DEFINE rows == WithTargets(new, kept, at, by, source)
  <2> DEFINE left == index.left - Cardinality(new)
  <2>1. out.rows = rows /\ out.index = [index EXCEPT !.at = at, !.left = left]
    BY <1>1, <1>3
  <2>2. new \subseteq DOMAIN found /\ new \cap DOMAIN index.at = {}
    BY DEF Fresh
  <2>3. Lists(kept) /\ \A h \in new : h \in DOMAIN kept /\ ~Known(kept[h]) /\ kept[h] = found[h]
    BY <1>3, <2>2 DEF Lists
  <2>4. \A h \in DOMAIN at : /\ at[h] \in Url /\ Host[at[h]] = h
                             /\ Known(at[h]) \/ (h \in new /\ at[h] = kept[h])
    BY <2>2 DEF Lists, IndexOK
  <2> HIDE DEF at, kept, left, by
  <2>5. out.index.at = at /\ out.index.feeds = index.feeds /\ DOMAIN out.index = DOMAIN index
    BY <2>1, IndexFields
  <2>6. /\ rows \in [Url -> TargetRow \cup {None}]
        /\ \A u \in Url : Known(u) => rows[u] # None /\ rows[u].status = target[u].status
        /\ \A u \in Url : ~Known(u) /\ rows[u] # None => rows[u].status = "pending"
        /\ \A h \in new : rows[kept[h]] # None
    <3>1. by \in Catalog \cup {None}
      BY DEF by
    <3> QED BY <2>3, <2>4, <3>1, WithTargetsKeeps
  <2> HIDE DEF rows
  <2>7. \A h \in DOMAIN at : rows[at[h]] # None
    BY <2>4, <2>6
  <2> QED BY <2>1, <2>4, <2>5, <2>6, <2>7 DEF Stores
<1> QED BY <1>2, <1>3

\* Storing targets and counting referrers keeps every table and every decision.
LEMMA RecordKeeps ==
  ASSUME FrontierInv, NEW index, IndexOK(index), NEW out, Stores(out, index), Recorded(out), feed' = feed
  PROVE  Grows /\ NoneRemoved /\ DecisionsStand /\ FindingsStay /\ IndexOK(out.index)'
<1>1. /\ target' = out.rows /\ out.rows \in [Url -> TargetRow \cup {None}]
      /\ \A u \in Url : Known(u) => out.rows[u] # None /\ out.rows[u].status = target[u].status
      /\ \A u \in Url : ~Known(u) /\ out.rows[u] # None => out.rows[u].status = "pending"
  BY DEF Stores, Recorded
<1>2. /\ cand' = Counted(out.rows) /\ Counted(out.rows) \in [FeedUrl -> CandRow \cup {None}]
      /\ \A c \in FeedUrl : /\ (Counted(out.rows)[c] = None) <=> (cand[c] = None)
                            /\ cand[c] # None => Counted(out.rows)[c].target = cand[c].target
  BY <1>1, CountedKeeps DEF Recorded, FrontierInv
<1>3. Grows
  BY <1>1, <1>2 DEF Grows, FrontierInv, TablesOK, Known
<1>4. NoneRemoved /\ DecisionsStand
  BY <1>1 DEF NoneRemoved, DecisionsStand, Known
<1>5. FindingsStay
  BY <1>2 DEF FindingsStay
<1>6. IndexOK(out.index)'
  <2> DEFINE new == out.index
  <2>1. DOMAIN new = {"feeds", "at", "urls", "blocked", "left", "full"}
    BY DEF Stores, IndexOK
  <2>2. new.feeds = index.feeds
    BY DEF Stores
  <2>3. \A h \in index.feeds : \E g \in FeedUrl : feed'[g] # None /\ h \in Hosts[g]
    BY DEF IndexOK
  <2>4. \A h \in DOMAIN new.at : new.at[h] \in Url /\ target'[new.at[h]] # None /\ Host[new.at[h]] = h
    BY <1>1 DEF Stores
  <2> HIDE DEF new
  <2>5. IndexOK(new)'
    BY <2>1, <2>2, <2>3, <2>4 DEF IndexOK, Known
  <2> QED BY <2>5 DEF new
<1> QED BY <1>3, <1>4, <1>5, <1>6

\* An index that is read now is true.
LEMMA BuiltIndex == IndexOK(build_host_index)
<1> DEFINE hosts == {Host[u] : u \in {v \in Url : Known(v)}}
<1> DEFINE at == [h \in hosts |-> CHOOSE u \in Url : Known(u) /\ Host[u] = h]
<1> DEFINE feeds == UNION {Hosts[f] : f \in {g \in FeedUrl : feed[g] \in Admission}}
<1>1. /\ build_host_index.feeds = feeds /\ build_host_index.at = at
      /\ DOMAIN build_host_index = {"feeds", "at", "urls", "blocked", "left", "full"}
  BY DEF build_host_index
<1>2. \A h \in hosts : at[h] \in Url /\ Known(at[h]) /\ Host[at[h]] = h
  OBVIOUS
<1>3. \A h \in feeds : \E g \in FeedUrl : feed[g] # None /\ h \in Hosts[g]
  BY FrontierAssumption DEF FrontierAssumption
<1>4. DOMAIN at = hosts
  OBVIOUS
<1> HIDE DEF hosts, at, feeds
<1> QED BY <1>1, <1>2, <1>3, <1>4 DEF IndexOK

\* An OPML file stores targets for addresses that had none, or nothing.
LEMMA OpmlStores ==
  ASSUME TablesOK, NEW index, IndexOK(index), NEW new \in SUBSET Url
  PROVE  Stores(record_feed_targets(new, index), index)
<1> DEFINE out == record_feed_targets(new, index)
<1> DEFINE at == [h \in DOMAIN index.at \cup {Host[u] : u \in new} |->
                    IF h \in DOMAIN index.at THEN index.at[h] ELSE CHOOSE u \in new : Host[u] = h]
<1> DEFINE rows == [u \in Url |-> IF u \in new THEN Row("opml") ELSE target[u]]
<1>1. CASE index.full \/ \E u \in new : Known(u)
  <2>1. out.rows = target /\ out.index = index
    BY <1>1 DEF record_feed_targets
  <2> QED BY <2>1 DEF Stores, TablesOK, IndexOK, Known
<1>2. CASE ~(index.full \/ \E u \in new : Known(u))
  <2> SUFFICES Stores(out, index)
    OBVIOUS
  <2>1. out.rows = rows /\ out.index = [index EXCEPT !.at = at]
    BY <1>2 DEF record_feed_targets
  <2>2. ASSUME NEW u \in Url
        PROVE  /\ rows[u] \in TargetRow \cup {None}
               /\ Known(u) => rows[u] # None /\ rows[u].status = target[u].status
               /\ ~Known(u) /\ rows[u] # None => rows[u].status = "pending"
               /\ u \in new => rows[u] # None
    BY <1>2, NewTarget DEF TablesOK, Known
  <2>3. ASSUME NEW h \in DOMAIN at
        PROVE  at[h] \in Url /\ rows[at[h]] # None /\ Host[at[h]] = h
    <3>1. CASE h \in DOMAIN index.at
      BY <2>2, <3>1 DEF IndexOK
    <3>2. CASE h \notin DOMAIN index.at
      <4>1. at[h] \in new /\ Host[at[h]] = h
        BY <3>2
      <4> HIDE DEF at, rows
      <4> QED BY <2>2, <4>1
    <3> QED BY <3>1, <3>2
  <2>4. rows \in [Url -> TargetRow \cup {None}]
    BY <2>2
  <2> HIDE DEF rows, at, out
  <2>5. /\ out.index.at = at
        /\ out.index.feeds = index.feeds /\ DOMAIN out.index = DOMAIN index
    BY <2>1 DEF IndexOK
  <2> QED BY <2>1, <2>2, <2>3, <2>4, <2>5 DEF Stores
<1> QED BY <1>1, <1>2

-----------------------------------------------------------------------------
(* What a step of the tables keeps of the invariant.                         *)

\* When tables grow, no target becomes removed and findings stay where they are, the
\* rest of the invariant holds of what the step leaves alone.
LEMMA TablesStep ==
  ASSUME FrontierInv, Grows, NoneRemoved, FindingsStay
  PROVE  /\ TablesOK' /\ CandidatesPlaced' /\ RemovedHasNoFindings'
         /\ \A p \in harvests : HarvestOK(p)'
         /\ \A p \in probes : ProbeOK(p)'
         /\ \A s \in seeds : SeedOK(s)'
         /\ \A c \in promotions : c \in FeedUrl /\ cand'[c] # None
         /\ cycle' = cycle => CycleOK'
         /\ art' = art => ArticlesOK' /\ LinksNotLost'
<1>1. TablesOK'
  BY DEF Grows
<1>2. CandidatesPlaced'
  <2>1. \A c \in FeedUrl : cand[c] # None => cand[c].target \in Url
    BY RowFields DEF FrontierInv, TablesOK
  <2> QED BY <2>1 DEF FrontierInv, CandidatesPlaced, FindingsStay, Grows, Known
<1>3. RemovedHasNoFindings'
  BY DEF FrontierInv, RemovedHasNoFindings, Findings, FindingsStay, NoneRemoved, Known
<1>4. \A p \in harvests : HarvestOK(p)'
  BY HarvestStays DEF FrontierInv
<1>5. \A p \in probes : ProbeOK(p)'
  BY ProbeStays DEF FrontierInv
<1>6. \A s \in seeds : SeedOK(s)'
  BY SeedStays DEF FrontierInv
<1>7. \A c \in promotions : c \in FeedUrl /\ cand'[c] # None
  BY DEF FrontierInv, Grows
<1>8. ASSUME cycle' = cycle PROVE CycleOK'
  BY <1>8, IndexStays DEF FrontierInv, CycleOK
<1>9. ASSUME art' = art PROVE ArticlesOK' /\ LinksNotLost'
  <2>1. ArticlesOK'
    BY <1>9 DEF FrontierInv, ArticlesOK
  <2>2. \A f \in Catalog : feed[f] = "catalog" /\ art[f].mark = art[f].ver => Accounted(f, art[f].ver)
    BY DEF FrontierInv, LinksNotLost, Accounted
  <2>3. ASSUME NEW f \in Catalog, feed'[f] = "catalog", art'[f].mark = art'[f].ver PROVE Accounted(f, art[f].ver)'
    <3>1. PICK ver : ver = art[f].ver
      OBVIOUS
    <3>2. feed[f] = "catalog"
      BY <2>3, FrontierAssumption DEF Grows, FrontierAssumption
    <3>3. Accounted(f, ver)'
      BY <1>9, <2>2, <2>3, <3>1, <3>2, AccountedStays
    <3> QED BY <1>9, <3>1, <3>3
  <2>4. LinksNotLost'
    BY <2>3 DEF LinksNotLost, Accounted
  <2> QED BY <2>1, <2>4
<1> QED BY <1>1, <1>2, <1>3, <1>4, <1>5, <1>6, <1>7, <1>8, <1>9

\* A step that leaves the tables alone is such a step.
LEMMA SameTables ==
  ASSUME FrontierInv, UNCHANGED <<target, cand, feed>>
  PROVE  Grows /\ NoneRemoved /\ DecisionsStand /\ FindingsStay
BY DEF FrontierInv, TablesOK, Grows, NoneRemoved, DecisionsStand, FindingsStay, Known

\* The invariant, from what a step changes; articles are dealt with apart.
LEMMA StepKeeps ==
  ASSUME FrontierInv, Grows, NoneRemoved, FindingsStay,
         art' = art \/ (ArticlesOK' /\ LinksNotLost'),
         cycle' = cycle \/ CycleOK',
         \A p \in harvests' : p \in harvests \/ HarvestOK(p)',
         \A p \in probes' : p \in probes \/ ProbeOK(p)',
         \A s \in seeds' : s \in seeds \/ SeedOK(s)',
         \A c \in promotions' : c \in promotions \/ (c \in FeedUrl /\ cand'[c] # None)
  PROVE  FrontierInv'
<1>1. TablesOK' /\ CandidatesPlaced' /\ RemovedHasNoFindings'
  BY TablesStep
<1>2. ArticlesOK' /\ LinksNotLost'
  BY TablesStep
<1>3. CycleOK'
  BY TablesStep
<1>4. \A p \in harvests' : HarvestOK(p)'
  BY TablesStep
<1>5. \A p \in probes' : ProbeOK(p)'
  BY TablesStep
<1>6. \A s \in seeds' : SeedOK(s)'
  BY TablesStep
<1>7. \A c \in promotions' : c \in FeedUrl /\ cand'[c] # None
  BY TablesStep
<1> QED BY <1>1, <1>2, <1>3, <1>4, <1>5, <1>6, <1>7 DEF FrontierInv

\* A cycle goes on with an index that is true.
LEMMA CycleGoesOn ==
  ASSUME NEW index, IndexOK(index)', DOMAIN cycle' = {"stage", "index", "due"}, cycle'.index = index
  PROVE  CycleOK'
BY DEF CycleOK, IndexOK

\* A running cycle has its fields.
LEMMA CycleFields ==
  ASSUME FrontierInv, cycle # None
  PROVE  /\ DOMAIN cycle = {"stage", "index", "due"}
         /\ cycle.stage \in {"directory", "harvest"} => IndexOK(cycle.index)
BY DEF FrontierInv, CycleOK

\* What a harvest adds to the index the cycle shares is true.
LEMMA ExtendedOK ==
  ASSUME FrontierInv, NEW p, NEW index, IndexOK(index)', cycle' = Extended(p, index)
  PROVE  cycle' = cycle \/ CycleOK'
<1>1. CASE p.by = "cycle" /\ cycle # None
  <2>1. DOMAIN cycle = {"stage", "index", "due"} /\ cycle' = [cycle EXCEPT !.index = index]
    BY <1>1, CycleFields DEF Extended
  <2>2. DOMAIN cycle' = {"stage", "index", "due"} /\ cycle'.index = index
    BY <2>1
  <2> QED BY <2>2, CycleGoesOn
<1>2. CASE ~(p.by = "cycle" /\ cycle # None)
  BY <1>2 DEF Extended
<1> QED BY <1>1, <1>2

-----------------------------------------------------------------------------
(* Mining.                                                                   *)

\* A harvest reads the version the article has.
LEMMA PacketOK ==
  ASSUME FrontierInv, NEW f \in Catalog, NEW by, NEW index, IndexOK(index)
  PROVE  HarvestOK(Packet(f, by, index)) /\ HarvestOK([Packet(f, by, index) EXCEPT !.step = "blogroll"])
BY DEF FrontierInv, ArticlesOK, HarvestOK, Packet

\* The links of an article or of a feed's own page, as targets.
LEMMA CatalogLinks ==
  ASSUME NEW f \in Catalog
  PROVE  /\ \A ver \in DOMAIN Version[f] : Origins(Version[f][ver].links)
         /\ \A links \in OwnPage(f) : Origins(links)
BY FrontierAssumption DEF FrontierAssumption

\* An ingestion begins to mine.
LEMMA IngestHarvestKeeps ==
  ASSUME FrontierInv, NEW f \in Catalog, IngestHarvest(f)
  PROVE  FrontierInv' /\ DecisionsStand
<1>1. Grows /\ NoneRemoved /\ DecisionsStand /\ FindingsStay
  BY SameTables DEF IngestHarvest
<1>2. PICK p : p = Packet(f, "ingest", build_host_index)
  OBVIOUS
<1>3. PICK index : index = build_host_index
  OBVIOUS
<1>4. HarvestOK(p)
  BY <1>2, <1>3, BuiltIndex, PacketOK
<1>5. HarvestOK(p)'
  BY <1>1, <1>4, HarvestStays
<1>6. harvests' = harvests \cup {p}
  BY <1>2 DEF IngestHarvest
<1> QED BY <1>1, <1>5, <1>6, StepKeeps DEF IngestHarvest

\* A cycle begins to mine.
LEMMA CycleHarvestKeeps ==
  ASSUME FrontierInv, NEW f \in Catalog, CycleHarvest(f)
  PROVE  FrontierInv' /\ DecisionsStand
<1>1. Grows /\ NoneRemoved /\ DecisionsStand /\ FindingsStay
  BY SameTables DEF CycleHarvest
<1>2. PICK index : index = cycle.index
  OBVIOUS
<1>3. IndexOK(index) /\ DOMAIN cycle = {"stage", "index", "due"}
  BY <1>2, CycleFields DEF CycleHarvest
<1>4. PICK p : p = IF Unmined(f) THEN Packet(f, "cycle", index)
                   ELSE [Packet(f, "cycle", index) EXCEPT !.step = "blogroll"]
  OBVIOUS
<1>5. HarvestOK(p)
  BY <1>3, <1>4, PacketOK
<1>6. HarvestOK(p)'
  BY <1>1, <1>5, HarvestStays
<1>7. harvests' \in {harvests, harvests \cup {p}}
  BY <1>2, <1>4 DEF CycleHarvest
<1>8. CycleOK'
  <2>1. DOMAIN cycle' = {"stage", "index", "due"} /\ cycle'.index = index
    BY <1>2, <1>3 DEF CycleHarvest
  <2>2. IndexOK(index)'
    BY <1>1, <1>3, IndexStays
  <2> QED BY <2>1, <2>2, CycleGoesOn
<1> QED BY <1>1, <1>6, <1>7, <1>8, StepKeeps DEF CycleHarvest

\* What the links of an article add is recorded.
LEMMA HarvestRecordKeeps ==
  ASSUME FrontierInv, NEW p \in harvests, HarvestRecord(p)
  PROVE  FrontierInv' /\ DecisionsStand
<1> DEFINE found == LinksOf(p)
<1>1. HarvestOK(p) /\ p.feed \in Catalog /\ IndexOK(p.index)
  BY DEF FrontierInv, HarvestOK
<1>2. Lists(found)
  BY <1>1, CatalogLinks, EligibleLists DEF LinksOf, HarvestOK
<1> DEFINE Stored(out) ==
      /\ Recorded(out) /\ cycle' = Extended(p, out.index)
      /\ harvests' = IF out.ok
                     THEN Swap(harvests, p, [p EXCEPT !.index = out.index, !.step = "mark",
                                                      !.room = @ - (p.index.left - out.index.left)])
                     ELSE harvests \ {p}
<1>3. PICK allowed \in SUBSET Fresh(found, p.index) :
        \E out \in record_targets(found, allowed, p.index, p.feed, "article_link") : Stored(out)
  BY DEF HarvestRecord
<1>4. PICK out \in record_targets(found, allowed, p.index, p.feed, "article_link") : Stored(out)
  BY <1>3
<1>5. Stores(out, p.index)
  <2> HIDE DEF found
  <2> QED BY <1>1, <1>2, RecordStores DEF FrontierInv
<1>6. Grows /\ NoneRemoved /\ DecisionsStand /\ FindingsStay /\ IndexOK(out.index)'
  BY <1>1, <1>4, <1>5, RecordKeeps DEF HarvestRecord
<1>7. PICK q : q = [p EXCEPT !.index = out.index, !.step = "mark",
                             !.room = @ - (p.index.left - out.index.left)]
  OBVIOUS
<1>8. HarvestOK(q)'
  <2>1. /\ DOMAIN q = {"feed", "by", "ver", "index", "room", "step"}
        /\ q.feed = p.feed /\ q.ver = p.ver /\ q.index = out.index
    BY <1>1, <1>7 DEF HarvestOK
  <2> QED BY <1>1, <1>6, <2>1 DEF HarvestOK
<1>9. \A r \in harvests' : r \in harvests \/ r = q
  BY <1>4, <1>7 DEF Swap
<1>10. cycle' = cycle \/ CycleOK'
  BY <1>4, <1>6, ExtendedOK
<1> QED BY <1>6, <1>8, <1>9, <1>10, StepKeeps DEF HarvestRecord

\* What the feed's own page lists is recorded.
LEMMA BlogrollKeeps ==
  ASSUME FrontierInv, NEW p \in harvests, Blogroll(p)
  PROVE  FrontierInv' /\ DecisionsStand
<1>1. HarvestOK(p) /\ p.feed \in Catalog /\ IndexOK(p.index)
  BY DEF FrontierInv, HarvestOK
<1>2. PICK links \in OwnPage(p.feed) :
        LET found == Eligible(links, p.index, Hosts[p.feed])
        IN \E allowed \in SUBSET Fresh(found, p.index) :
             \E out \in record_targets(found, allowed, p.index, p.feed, "article_link") :
               Recorded(out) /\ cycle' = Extended(p, out.index)
  BY DEF Blogroll
<1> DEFINE found == Eligible(links, p.index, Hosts[p.feed])
<1>3. Lists(found)
  BY <1>1, <1>2, CatalogLinks, EligibleLists
<1>4. PICK allowed \in SUBSET Fresh(found, p.index) :
        \E out \in record_targets(found, allowed, p.index, p.feed, "article_link") :
          Recorded(out) /\ cycle' = Extended(p, out.index)
  BY <1>2
<1> HIDE DEF found
<1>5. PICK out \in record_targets(found, allowed, p.index, p.feed, "article_link") :
        Recorded(out) /\ cycle' = Extended(p, out.index)
  BY <1>4
<1>6. Stores(out, p.index)
  BY <1>1, <1>3, RecordStores DEF FrontierInv
<1>7. Grows /\ NoneRemoved /\ DecisionsStand /\ FindingsStay /\ IndexOK(out.index)'
  BY <1>1, <1>5, <1>6, RecordKeeps DEF Blogroll
<1>8. cycle' = cycle \/ CycleOK'
  BY <1>5, <1>7, ExtendedOK
<1> QED BY <1>7, <1>8, StepKeeps DEF Blogroll

\* A version is marked when all its hosts are accounted for.
LEMMA HarvestMarkKeeps ==
  ASSUME FrontierInv, NEW p \in harvests, HarvestMark(p)
  PROVE  FrontierInv' /\ DecisionsStand
<1>1. Grows /\ NoneRemoved /\ DecisionsStand /\ FindingsStay
  BY SameTables DEF HarvestMark
<1>2. HarvestOK(p) /\ p.feed \in Catalog /\ p.ver \in DOMAIN Version[p.feed] /\ IndexOK(p.index)
  BY DEF FrontierInv, HarvestOK
<1>3. PICK q : q = [p EXCEPT !.step = "blogroll"]
  OBVIOUS
<1>4. HarvestOK(q)
  BY <1>2, <1>3 DEF HarvestOK
<1>5. HarvestOK(q)'
  BY <1>1, <1>4, HarvestStays
<1>6. \A r \in harvests' : r \in harvests \/ r = q
  BY <1>3 DEF HarvestMark, Swap
<1>7. CASE Mined(p) /\ art[p.feed].ver = p.ver /\ feed[p.feed] = "catalog"
  <2>1. Accounted(p.feed, p.ver)
    <3> DEFINE v == Version[p.feed][p.ver]
    <3> DEFINE self == Hosts[p.feed]
    <3>1. v.whole /\ Fresh(LinksOf(p), p.index) = {}
      BY <1>7 DEF Mined
    <3>2. ASSUME NEW i \in DOMAIN v.links
          PROVE  LET h == normalize_host(v.links[i])
                 IN is_denied_host(h) \/ h \in p.index.feeds \cup self \/ h \in DOMAIN LinksOf(p)
      BY <1>2, CatalogLinks, EligibleLists DEF LinksOf
    <3>3. ASSUME NEW h \in DOMAIN LinksOf(p) PROVE Statuses(h) # {}
      <4>1. h \in DOMAIN p.index.at
        BY <3>1 DEF Fresh
      <4>2. \E u \in Url : Known(u) /\ Host[u] = h
        BY <1>2, <4>1 DEF IndexOK
      <4> QED BY <4>2, StatusesOf DEF Known
    <3>4. \A h \in p.index.feeds : \E g \in FeedUrl : feed[g] # None /\ h \in Hosts[g]
      BY <1>2 DEF IndexOK
    <3>5. ASSUME NEW i \in DOMAIN v.links
          PROVE  LET h == normalize_host(v.links[i])
                 IN \/ is_denied_host(h) \/ Statuses(h) # {}
                    \/ \E g \in FeedUrl : feed[g] # None /\ h \in Hosts[g]
      <4>1. p.feed \in FeedUrl /\ feed[p.feed] # None
        BY <1>2, <1>7, FrontierAssumption DEF FrontierAssumption, Admission
      <4>2. \A h \in self : \E g \in FeedUrl : feed[g] # None /\ h \in Hosts[g]
        BY <4>1
      <4> QED BY <3>2, <3>3, <3>4, <4>2
    <3> QED BY <3>1, <3>5 DEF Accounted
  <2>2. PICK ver : ver = p.ver
    OBVIOUS
  <2>3. Accounted(p.feed, ver)'
    BY <1>1, <1>2, <2>1, <2>2, AccountedStays
  <2>4. art' = [art EXCEPT ![p.feed].mark = ver]
    BY <1>7, <2>2 DEF HarvestMark
  <2>5. ver \in Nat /\ ver = art[p.feed].ver
    BY <1>2, <1>7, <2>2, FrontierAssumption DEF FrontierInv, ArticlesOK
  <2>6. /\ art' \in [Catalog -> [ver : Nat, mark : Nat]]
        /\ \A f \in Catalog : art'[f].ver = art[f].ver
        /\ art'[p.feed].mark = ver
        /\ \A f \in Catalog : f # p.feed => art'[f].mark = art[f].mark
    BY <1>2, <2>4, <2>5 DEF FrontierInv, ArticlesOK
  <2>7. ArticlesOK'
    BY <2>5, <2>6 DEF FrontierInv, ArticlesOK
  <2>8. ASSUME NEW f \in Catalog, feed'[f] = "catalog", art'[f].mark = art'[f].ver
        PROVE  \E n : n = art'[f].ver /\ Accounted(f, n)'
    <3>1. CASE f = p.feed
      BY <1>2, <2>3, <2>5, <2>6, <3>1
    <3>2. CASE f # p.feed
      <4>1. PICK n : n = art[f].ver
        OBVIOUS
      <4>2. Accounted(f, n)
        BY <2>6, <2>8, <3>2, <4>1 DEF FrontierInv, LinksNotLost, Accounted, HarvestMark
      <4> QED BY <1>1, <2>6, <4>1, <4>2, AccountedStays
    <3> QED BY <3>1, <3>2
  <2>9. LinksNotLost'
    <3>1. ASSUME NEW f \in Catalog, feed'[f] = "catalog", art'[f].mark = art'[f].ver
          PROVE  Accounted(f, art[f].ver)'
      BY <2>8, <3>1
    <3> QED BY <3>1 DEF LinksNotLost, Accounted
  <2> QED BY <1>1, <1>5, <1>6, <2>7, <2>9, StepKeeps DEF HarvestMark
<1>8. CASE ~(Mined(p) /\ art[p.feed].ver = p.ver /\ feed[p.feed] = "catalog")
  BY <1>1, <1>5, <1>6, <1>8, StepKeeps DEF HarvestMark
<1> QED BY <1>7, <1>8

\* A revision is not mined yet.
LEMMA ReviseKeeps ==
  ASSUME FrontierInv, NEW f \in Catalog, Revise(f)
  PROVE  FrontierInv' /\ DecisionsStand
<1>1. Grows /\ NoneRemoved /\ DecisionsStand /\ FindingsStay
  BY SameTables DEF Revise
<1>2. /\ art \in [Catalog -> [ver : Nat, mark : Nat]]
      /\ art[f].ver \in DOMAIN Version[f] /\ art[f].mark <= art[f].ver /\ art[f].ver < Len(Version[f])
      /\ art' = [art EXCEPT ![f].ver = art[f].ver + 1]
  BY DEF Revise, FrontierInv, ArticlesOK
<1>3. /\ art' \in [Catalog -> [ver : Nat, mark : Nat]]
      /\ art'[f].ver = art[f].ver + 1 /\ art'[f].mark = art[f].mark
      /\ \A g \in Catalog : g # f => art'[g] = art[g]
  BY <1>2
<1>4. DOMAIN Version[f] = 1..Len(Version[f]) /\ Len(Version[f]) \in Nat
  BY FrontierAssumption DEF FrontierAssumption
<1>5. art'[f].ver \in DOMAIN Version[f] /\ art'[f].mark < art'[f].ver
  BY <1>2, <1>3, <1>4
<1>6. ArticlesOK'
  <2>1. art'[f].mark <= art'[f].ver
    BY <1>3, <1>5
  <2> QED BY <1>3, <1>5, <2>1 DEF FrontierInv, ArticlesOK
<1>7. ASSUME NEW g \in Catalog, feed'[g] = "catalog", art'[g].mark = art'[g].ver
      PROVE  \E n : n = art'[g].ver /\ Accounted(g, n)'
  <2>1. g # f
    BY <1>3, <1>5, <1>7
  <2>2. PICK n : n = art[g].ver
    OBVIOUS
  <2>3. Accounted(g, n)
    BY <1>3, <1>7, <2>1, <2>2 DEF FrontierInv, LinksNotLost, Accounted, Revise
  <2>4. n = art'[g].ver
    BY <1>3, <2>1, <2>2
  <2>5. Accounted(g, n)'
    BY <1>1, <2>3, AccountedStays
  <2> QED BY <2>4, <2>5
<1>8. LinksNotLost'
  <2>1. ASSUME NEW g \in Catalog, feed'[g] = "catalog", art'[g].mark = art'[g].ver
        PROVE  Accounted(g, art[g].ver)'
    BY <1>7, <2>1
  <2> QED BY <2>1 DEF LinksNotLost, Accounted
<1> QED BY <1>1, <1>6, <1>8, StepKeeps DEF Revise

-----------------------------------------------------------------------------
(* The cycle.                                                                *)

\* A cycle begins with an index read now.
LEMMA StartCycleKeeps ==
  ASSUME FrontierInv, StartCycle
  PROVE  FrontierInv' /\ DecisionsStand
<1>1. Grows /\ NoneRemoved /\ DecisionsStand /\ FindingsStay
  BY SameTables DEF StartCycle
<1>2. PICK index : index = build_host_index
  OBVIOUS
<1>3. IndexOK(index)'
  BY <1>1, <1>2, BuiltIndex, IndexStays
<1>4. DOMAIN cycle' = {"stage", "index", "due"} /\ cycle'.index = index
  BY <1>2 DEF StartCycle
<1>5. CycleOK'
  BY <1>3, <1>4, CycleGoesOn
<1> QED BY <1>1, <1>5, StepKeeps DEF StartCycle

\* The index serves the directories and the harvest.
LEMMA NextStageKeeps ==
  ASSUME FrontierInv, NextStage
  PROVE  FrontierInv' /\ DecisionsStand
<1>1. Grows /\ NoneRemoved /\ DecisionsStand /\ FindingsStay
  BY SameTables DEF NextStage
<1>2. CASE cycle.stage = "directory"
  <2>1. PICK index : index = cycle.index
    OBVIOUS
  <2>2. IndexOK(index)'
    BY <1>1, <1>2, <2>1, CycleFields, IndexStays DEF NextStage
  <2>3. DOMAIN cycle' = {"stage", "index", "due"} /\ cycle'.index = index
    BY <1>2, <2>1 DEF NextStage
  <2>4. CycleOK'
    BY <2>2, <2>3, CycleGoesOn
  <2> QED BY <1>1, <2>4, StepKeeps DEF NextStage
<1>3. CASE cycle.stage # "directory"
  <2>1. cycle.stage \in {"harvest", "probing"}
    BY <1>3 DEF NextStage, After
  <2>2. /\ DOMAIN cycle' = {"stage", "index", "due"}
        /\ cycle'.stage = After[cycle.stage]
    BY DEF NextStage
  <2>3. cycle'.stage \in {"probe", "promote"}
    BY <2>1, <2>2 DEF After
  <2>4. CycleOK'
    BY <2>2, <2>3 DEF CycleOK
  <2> QED BY <1>1, <2>4, StepKeeps DEF NextStage
<1> QED BY <1>2, <1>3

\* A cycle ends.
LEMMA EndCycleKeeps ==
  ASSUME FrontierInv, EndCycle
  PROVE  FrontierInv' /\ DecisionsStand
<1>1. Grows /\ NoneRemoved /\ DecisionsStand /\ FindingsStay
  BY SameTables DEF EndCycle
<1>2. CycleOK'
  BY DEF EndCycle, CycleOK
<1> QED BY <1>1, <1>2, StepKeeps DEF EndCycle

\* What a pause leaves running goes on as it was.
LEMMA PauseCancelsKeeps ==
  ASSUME FrontierInv, PauseCancels
  PROVE  FrontierInv' /\ DecisionsStand
<1>1. Grows /\ NoneRemoved /\ DecisionsStand /\ FindingsStay
  BY SameTables DEF PauseCancels
<1>2. CycleOK'
  BY DEF PauseCancels, CycleOK
<1>3. ASSUME NEW p \in Orphaned PROVE p \in harvests \/ HarvestOK(p)'
  <2>1. PICK q \in harvests : p = IF q.by = "cycle" THEN [q EXCEPT !.by = "thread"] ELSE q
    BY DEF Orphaned
  <2>2. HarvestOK(q)
    BY DEF FrontierInv
  <2>3. HarvestOK(p)
    BY <2>1, <2>2 DEF HarvestOK
  <2> QED BY <1>1, <2>3, HarvestStays
<1> QED BY <1>1, <1>2, <1>3, StepKeeps DEF PauseCancels

\* What a crash leaves goes on as it was.
LEMMA WorkerCrashKeeps ==
  ASSUME FrontierInv, WorkerCrash
  PROVE  FrontierInv' /\ DecisionsStand
<1>1. Grows /\ NoneRemoved /\ DecisionsStand /\ FindingsStay
  BY SameTables DEF WorkerCrash
<1>2. CycleOK'
  BY DEF WorkerCrash, CycleOK
<1> QED BY <1>1, <1>2, StepKeeps DEF WorkerCrash

\* What a directory lists is recorded.
LEMMA ReadSourceKeeps ==
  ASSUME FrontierInv, NEW s \in Source, ReadSource(s)
  PROVE  FrontierInv' /\ DecisionsStand
<1>1. PICK index : index = cycle.index
  OBVIOUS
<1>2. IndexOK(index) /\ DOMAIN cycle = {"stage", "index", "due"}
  BY <1>1, CycleFields DEF ReadSource
<1>3. PICK links \in MayList[s.url] :
        LET found == Eligible(links, index, {})
            outs  == IF s.kind = "opml" THEN {record_feed_targets(OpmlTargets(links, index), index)}
                     ELSE record_targets(found, DOMAIN found, index, None, "directory")
        IN \E out \in outs : Recorded(out) /\ cycle' = [cycle EXCEPT !.index = out.index, !.due = @ \ {s}]
  BY <1>1 DEF ReadSource
<1> DEFINE found == Eligible(links, index, {})
<1> DEFINE outs == IF s.kind = "opml" THEN {record_feed_targets(OpmlTargets(links, index), index)}
                   ELSE record_targets(found, DOMAIN found, index, None, "directory")
<1>4. PICK out \in outs : Recorded(out) /\ cycle' = [cycle EXCEPT !.index = out.index, !.due = @ \ {s}]
  BY <1>3
<1>5. Stores(out, index)
  <2>1. CASE s.kind = "opml"
    <3>1. /\ links \in Seq(Address)
          /\ \A i \in DOMAIN links : is_denied_host(normalize_host(links[i])) \/ links[i] \in Url
      BY <2>1, FrontierAssumption DEF FrontierAssumption
    <3>2. OpmlTargets(links, index) \in SUBSET Url
      <4>1. ASSUME NEW u \in OpmlTargets(links, index) PROVE u \in Url
        <5>1. u \in ToSet(links) /\ ~is_denied_host(normalize_host(u))
          BY DEF OpmlTargets
        <5>2. PICK i \in DOMAIN links : u = links[i]
          BY <5>1 DEF ToSet
        <5> QED BY <3>1, <5>1, <5>2
      <4> QED BY <4>1
    <3>3. out = record_feed_targets(OpmlTargets(links, index), index)
      BY <1>4, <2>1
    <3> QED BY <1>2, <3>2, <3>3, OpmlStores DEF FrontierInv
  <2>2. CASE s.kind # "opml"
    <3>1. Lists(found)
      BY <2>2, FrontierAssumption, EligibleLists DEF FrontierAssumption
    <3>2. out \in record_targets(found, DOMAIN found, index, None, "directory")
      BY <1>4, <2>2
    <3> HIDE DEF found
    <3> QED BY <3>1, <1>2, <3>2, RecordStores DEF FrontierInv
  <2> QED BY <2>1, <2>2
<1>6. Grows /\ NoneRemoved /\ DecisionsStand /\ FindingsStay /\ IndexOK(out.index)'
  BY <1>2, <1>4, <1>5, RecordKeeps DEF ReadSource
<1>7. CycleOK'
  <2>1. PICK new : new = out.index
    OBVIOUS
  <2>2. DOMAIN cycle' = {"stage", "index", "due"} /\ cycle'.index = new
    BY <1>2, <1>4, <2>1
  <2>3. IndexOK(new)'
    BY <1>6, <2>1
  <2> QED BY <2>2, <2>3, CycleGoesOn
<1> QED BY <1>6, <1>7, StepKeeps DEF ReadSource

-----------------------------------------------------------------------------
(* The probe of a target.                                                    *)

\* A probe is answered with a verdict and with feeds.
LEMMA AnswersGiveVerdicts ==
  ASSUME NEW u \in Url, NEW a \in Answers[u]
  PROVE  a.verdict \in Verdict /\ a.feeds \in SUBSET FeedUrl
<1>1. ASSUME NEW verdict \in Verdict, NEW feeds, NEW contacts
      PROVE  Result(verdict, feeds, contacts).verdict \in Verdict
  BY DEF Result
<1>2. ASSUME NEW sweep, NEW contacts PROVE Swept(sweep, contacts).verdict \in Verdict
  BY <1>1 DEF Swept, Verdict
<1>3. ASSUME NEW w, NEW robots PROVE Examined(w, u, robots).verdict \in Verdict
  BY <1>1, <1>2 DEF Examined, Verdict
<1>4. ASSUME NEW w PROVE Answer(w, u).verdict \in Verdict
  BY <1>1, <1>3 DEF Answer, Verdict
<1>5. PICK w \in Webs : a = Answer(w, u)
  BY DEF Answers
<1>6. a.feeds \in SUBSET FeedUrl
  BY FrontierAssumption DEF FrontierAssumption
<1> QED BY <1>4, <1>5, <1>6

\* The fields of a probe, and what its steps write.
LEMMA ProbeFields ==
  ASSUME NEW p \in ProbeRow
  PROVE  /\ p.url \in Url /\ p.attempts \in Nat /\ p.refs \in Nat
         /\ p.verdict \in Verdict \cup {None} /\ p.feeds \in SUBSET FeedUrl
         /\ p.insert \in InsertRow \cup {None}
         /\ LET q == [p EXCEPT !.step = "begun"]
            IN q \in ProbeRow /\ q.url = p.url /\ q.step = "begun"
         /\ LET q == [p EXCEPT !.insert = None]
            IN q \in ProbeRow /\ q.url = p.url /\ q.verdict = p.verdict /\ q.step = p.step
<1>1. /\ p.url \in Url /\ p.attempts \in Nat /\ p.refs \in Nat
      /\ p.verdict \in Verdict \cup {None} /\ p.feeds \in SUBSET FeedUrl
      /\ p.insert \in InsertRow \cup {None}
  BY DEF ProbeRow
<1>2. LET q == [p EXCEPT !.step = "begun"]
      IN q \in ProbeRow /\ q.url = p.url /\ q.step = "begun"
  BY DEF ProbeRow
<1>3. LET q == [p EXCEPT !.insert = None]
      IN q \in ProbeRow /\ q.url = p.url /\ q.verdict = p.verdict /\ q.step = p.step
  BY DEF ProbeRow
<1> QED BY <1>1, <1>2, <1>3

\* A probe ends, or goes on with its target.
LEMMA ProbeGoesOn ==
  ASSUME FrontierInv, Grows, NEW p \in probes, NEW q \in ProbeRow, q.url = p.url,
         q.step = "found" => q.verdict \in Verdict
  PROVE  ProbeOK(q)'
<1>1. ProbeOK(q)
  BY DEF FrontierInv, ProbeOK
<1> QED BY <1>1, ProbeStays

\* Targets are selected while they are known.
LEMMA SelectProbesKeeps ==
  ASSUME FrontierInv, SelectProbes
  PROVE  FrontierInv' /\ DecisionsStand
<1>1. Grows /\ NoneRemoved /\ DecisionsStand /\ FindingsStay
  BY SameTables DEF SelectProbes
<1>2. PICK S \in SUBSET Pending : probes' = {Probe(u) : u \in S}
  BY DEF SelectProbes
<1>3. ASSUME NEW p \in probes' PROVE ProbeOK(p)'
  <2>1. PICK u \in S : p = Probe(u)
    BY <1>2
  <2>2. u \in Url /\ Known(u) /\ target[u] \in TargetRow
    BY <1>2 DEF Pending, FrontierInv, TablesOK, Known
  <2>3. target[u].attempts \in Nat /\ Cardinality(target[u].refs) \in Nat
    BY <2>2, RowFields, RefsCounted
  <2>4. p \in ProbeRow /\ p.url = u /\ p.step = "selected"
    BY <2>1, <2>2, <2>3 DEF Probe, ProbeRow
  <2>5. ProbeOK(p)
    BY <2>2, <2>4 DEF ProbeOK
  <2> QED BY <1>1, <2>5, ProbeStays
<1>4. CycleOK'
  <2>1. DOMAIN cycle' = {"stage", "index", "due"} /\ cycle'.stage = "probing"
    BY CycleFields DEF SelectProbes
  <2> QED BY <2>1 DEF CycleOK
<1> QED BY <1>1, <1>3, <1>4, StepKeeps DEF SelectProbes

\* A probe begins.
LEMMA ProbeBeginKeeps ==
  ASSUME FrontierInv, NEW p \in probes, ProbeBegin(p)
  PROVE  FrontierInv' /\ DecisionsStand
<1>1. Grows /\ NoneRemoved /\ DecisionsStand /\ FindingsStay
  BY SameTables DEF ProbeBegin
<1>2. PICK q : q = [p EXCEPT !.step = "begun"]
  OBVIOUS
<1>3. q \in ProbeRow /\ q.url = p.url /\ q.step = "begun"
  BY <1>2, ProbeFields DEF FrontierInv, ProbeOK
<1>4. ProbeOK(q)'
  BY <1>1, <1>3, ProbeGoesOn
<1>5. \A r \in probes' : r \in probes \/ r = q
  BY <1>2 DEF ProbeBegin, Swap
<1> QED BY <1>1, <1>4, <1>5, StepKeeps DEF ProbeBegin

\* A probe is answered.
LEMMA ProbeFetchKeeps ==
  ASSUME FrontierInv, NEW p \in probes, ProbeFetch(p)
  PROVE  FrontierInv' /\ DecisionsStand
<1>1. Grows /\ NoneRemoved /\ DecisionsStand /\ FindingsStay
  BY SameTables DEF ProbeFetch
<1>2. p \in ProbeRow
  BY DEF FrontierInv, ProbeOK
<1>3. PICK a \in Answers[p.url] :
        probes' = Swap(probes, p, [p EXCEPT !.step = "found", !.verdict = a.verdict, !.feeds = a.feeds])
  BY DEF ProbeFetch
<1>4. PICK q : q = [p EXCEPT !.step = "found", !.verdict = a.verdict, !.feeds = a.feeds]
  OBVIOUS
<1>5. a.verdict \in Verdict /\ a.feeds \in SUBSET FeedUrl
  BY <1>2, ProbeFields, AnswersGiveVerdicts
<1>6. q \in ProbeRow /\ q.url = p.url /\ q.verdict \in Verdict
  BY <1>2, <1>4, <1>5 DEF ProbeRow
<1>7. ProbeOK(q)'
  BY <1>1, <1>6, ProbeGoesOn
<1>8. \A r \in probes' : r \in probes \/ r = q
  BY <1>3, <1>4 DEF Swap
<1> QED BY <1>1, <1>7, <1>8, StepKeeps DEF ProbeFetch

\* A probe looks a feed up.
LEMMA LookUpKeeps ==
  ASSUME FrontierInv, NEW p \in probes, NEW f \in p.feeds, LookUp(p, f)
  PROVE  FrontierInv' /\ DecisionsStand
<1>1. Grows /\ NoneRemoved /\ DecisionsStand /\ FindingsStay
  BY SameTables DEF LookUp
<1>2. p \in ProbeRow /\ ProbeOK(p)
  BY DEF FrontierInv, ProbeOK
<1> DEFINE row == [feed |-> f, status |-> IF Carried(f) THEN "imported" ELSE "pending"]
<1> DEFINE insert == IF is_comment_feed(f) \/ Seen(f) THEN None ELSE row
<1>3. f \in FeedUrl /\ p.feeds \ {f} \in SUBSET FeedUrl
  BY <1>2, ProbeFields
<1>4. row \in InsertRow
  BY <1>3 DEF InsertRow
<1>5. insert \in InsertRow \cup {None}
  BY <1>4
<1>6. PICK q : q = [p EXCEPT !.feeds = p.feeds \ {f}, !.insert = insert]
  OBVIOUS
<1>7. probes' = Swap(probes, p, q)
  BY <1>2, <1>6 DEF LookUp, ProbeRow
<1> HIDE DEF insert
<1>8. q \in ProbeRow /\ q.url = p.url /\ q.verdict = p.verdict /\ q.step = p.step
  BY <1>2, <1>3, <1>5, <1>6 DEF ProbeRow
<1>9. ProbeOK(q)'
  BY <1>1, <1>2, <1>8, ProbeGoesOn DEF ProbeOK
<1>10. \A r \in probes' : r \in probes \/ r = q
  BY <1>7 DEF Swap
<1> QED BY <1>1, <1>9, <1>10, StepKeeps DEF LookUp

\* A finding is inserted, unless its target was removed or rejected.
LEMMA InsertKeeps ==
  ASSUME FrontierInv, NEW p \in probes, Insert(p)
  PROVE  FrontierInv' /\ DecisionsStand
<1>1. p \in ProbeRow /\ ProbeOK(p) /\ Known(p.url)
  BY DEF FrontierInv, ProbeOK
<1> DEFINE f == p.insert.feed
<1> DEFINE row == [status |-> p.insert.status, target |-> p.url, refs |-> p.refs]
<1>2. p.insert \in InsertRow
  BY <1>1, ProbeFields DEF Insert
<1>3. f \in FeedUrl /\ p.insert.status \in {"imported", "pending"}
  BY <1>2 DEF InsertRow
<1>4. row \in CandRow /\ row.target = p.url
  <2>1. p.url \in Url /\ p.refs \in Nat
    BY <1>1, ProbeFields
  <2> QED BY <1>3, <2>1 DEF CandRow
<1>5. \/ cand' = cand
      \/ target[p.url].status # "removed" /\ cand[f] = None /\ cand' = [cand EXCEPT ![f] = row]
  BY DEF Insert
<1>6. UNCHANGED <<target, feed>>
  BY DEF Insert
<1> HIDE DEF row, f
<1>7. cand' \in [FeedUrl -> CandRow \cup {None}]
  BY <1>3, <1>4, <1>5 DEF FrontierInv, TablesOK
<1>8. Grows
  BY <1>3, <1>4, <1>5, <1>6, <1>7, RowFields DEF FrontierInv, TablesOK, Grows
<1>9. NoneRemoved /\ DecisionsStand
  BY <1>6 DEF NoneRemoved, DecisionsStand, Known
<1>10. FindingsStay
  <2>1. ASSUME NEW c \in FeedUrl, cand'[c] # None
        PROVE  \/ cand[c] # None /\ cand'[c].target = cand[c].target
               \/ /\ cand'[c].target \in Url /\ Known(cand'[c].target)
                  /\ target[cand'[c].target].status # "removed"
    <3>1. CASE cand'[c] = cand[c]
      BY <2>1, <3>1
    <3>2. CASE cand'[c] # cand[c]
      <4>1. target[p.url].status # "removed" /\ cand'[c] = row
        BY <1>3, <1>5, <3>2 DEF FrontierInv, TablesOK
      <4> QED BY <1>1, <1>4, <4>1, ProbeFields
    <3> QED BY <3>1, <3>2
  <2> QED BY <2>1 DEF FindingsStay
<1>11. PICK q : q = [p EXCEPT !.insert = None]
  OBVIOUS
<1>12. q \in ProbeRow /\ q.url = p.url /\ q.verdict = p.verdict /\ q.step = p.step
  BY <1>1, <1>11, ProbeFields
<1>13. ProbeOK(q)'
  BY <1>1, <1>8, <1>12, ProbeGoesOn DEF ProbeOK
<1>14. \A r \in probes' : r \in probes \/ r = q
  BY <1>11 DEF Insert, Swap
<1> QED BY <1>8, <1>9, <1>10, <1>13, <1>14, StepKeeps DEF Insert

\* A target that is written keeps its place in the table.
LEMMA TargetWritten ==
  ASSUME FrontierInv, NEW u \in Url, NEW row \in TargetRow, row.status # "removed",
         target' \in {target, [target EXCEPT ![u] = row]}, UNCHANGED <<cand, feed>>
  PROVE  Grows /\ NoneRemoved /\ FindingsStay
BY RowFields DEF FrontierInv, TablesOK, Grows, NoneRemoved, FindingsStay, Known

\* The end of a probe is written to a target that still waits for it.
LEMMA ProbeEndKeeps ==
  ASSUME FrontierInv, NEW p \in probes, ProbeEnd(p)
  PROVE  FrontierInv' /\ DecisionsStand
<1> DEFINE row == target[p.url]
<1>1. p \in ProbeRow /\ ProbeOK(p) /\ Known(p.url) /\ p.verdict \in Verdict
  BY DEF FrontierInv, ProbeOK, ProbeEnd
<1>2. p.url \in Url /\ p.attempts \in Nat
  BY <1>1, ProbeFields
<1>3. row \in TargetRow
  BY <1>1, <1>2 DEF FrontierInv, TablesOK, Known
<1>4. Ended(p) \in TargetRow /\ Ended(p).status # "removed"
  <2>1. CASE p.verdict = "failed"
    <3>1. PICK status : status = IF p.attempts + 1 >= ProbeAttempts THEN "exhausted" ELSE "pending"
      OBVIOUS
    <3>2. status \in {"exhausted", "pending"} /\ p.attempts + 1 \in Nat
      BY <1>2, <3>1
    <3>3. Ended(p) = [row EXCEPT !.attempts = p.attempts + 1, !.status = status]
      BY <2>1, <3>1 DEF Ended
    <3> HIDE DEF row
    <3> QED BY <1>3, <3>2, <3>3 DEF TargetRow
  <2>2. CASE p.verdict # "failed"
    <3>1. PICK n : n = IF p.verdict = "done" THEN 0 ELSE row.attempts
      OBVIOUS
    <3>2. n \in Nat /\ p.verdict \in {"done", "blocked"}
      BY <1>1, <1>3, <2>2, <3>1, RowFields DEF Verdict
    <3>3. Ended(p) = [row EXCEPT !.status = p.verdict, !.attempts = n]
      BY <1>3, <2>2, <3>1 DEF Ended, TargetRow
    <3> HIDE DEF row
    <3> QED BY <1>3, <3>2, <3>3 DEF TargetRow
  <2> QED BY <2>1, <2>2
<1>5. target' \in {target, [target EXCEPT ![p.url] = Ended(p)]}
  BY DEF ProbeEnd, Update
<1>6. UNCHANGED <<cand, feed>>
  BY DEF ProbeEnd
<1>7. Grows /\ NoneRemoved /\ FindingsStay
  BY <1>2, <1>4, <1>5, <1>6, TargetWritten
<1>8. DecisionsStand
  BY <1>2 DEF ProbeEnd, Update, DecisionsStand, FrontierInv, TablesOK
<1> QED BY <1>7, <1>8, StepKeeps DEF ProbeEnd

-----------------------------------------------------------------------------
(* Admission and administration.                                             *)

\* Blocking a host rejects its targets, and no other changes.
LEMMA BlockHost ==
  ASSUME TablesOK, NEW h
  PROVE  /\ block_host(h) \in [Url -> TargetRow \cup {None}]
         /\ \A u \in Url : Known(u) => /\ block_host(h)[u] # None
                                       /\ block_host(h)[u].status \in {target[u].status, "rejected"}
         /\ \A u \in Url : ~Known(u) => block_host(h)[u] = None
<1>1. ASSUME NEW u \in Url, Known(u)
      PROVE  block_host(h)[u] \in TargetRow /\ block_host(h)[u].status \in {target[u].status, "rejected"}
  <2>1. target[u] \in TargetRow
    BY <1>1 DEF TablesOK, Known
  <2>2. block_host(h)[u] = target[u] \/ block_host(h)[u] = [target[u] EXCEPT !.status = "rejected"]
    BY DEF block_host
  <2>3. /\ [target[u] EXCEPT !.status = "rejected"] \in TargetRow
        /\ [target[u] EXCEPT !.status = "rejected"].status = "rejected"
    BY <2>1 DEF TargetRow
  <2> QED BY <2>1, <2>2, <2>3
<1>2. ASSUME NEW u \in Url, ~Known(u) PROVE block_host(h)[u] = None
  BY <1>2 DEF block_host, Known
<1>3. block_host(h) = [u \in Url |-> block_host(h)[u]]
  BY DEF block_host
<1>4. \A u \in Url : block_host(h)[u] \in TargetRow \cup {None}
  BY <1>1, <1>2
<1>5. block_host(h) \in [Url -> TargetRow \cup {None}]
  BY <1>3, <1>4
<1> QED BY <1>1, <1>2, <1>5, RowFields

\* A decision about a candidate, about a host and about a feed keeps the tables.
LEMMA DecisionKeeps ==
  ASSUME FrontierInv, target' = target \/ (\E h : target' = block_host(h)),
         \/ cand' = cand
         \/ \E c \in FeedUrl : \E status \in {"pending", "held", "rejected", "imported"} :
              cand[c] # None /\ cand' = [cand EXCEPT ![c].status = status],
         feed' = feed \/ (\E c \in FeedUrl : \E method \in {"auto", "manual"} : feed' = [feed EXCEPT ![c] = method])
  PROVE  Grows /\ NoneRemoved /\ DecisionsStand /\ FindingsStay
<1>1. /\ target' \in [Url -> TargetRow \cup {None}]
      /\ \A u \in Url : Known(u) => target'[u] # None /\ target'[u].status \in {target[u].status, "rejected"}
      /\ \A u \in Url : ~Known(u) => target'[u] = None
  <2>1. CASE target' = target
    BY <2>1 DEF FrontierInv, TablesOK, Known
  <2>2. CASE \E h : target' = block_host(h)
    BY <2>2, BlockHost DEF FrontierInv
  <2> QED BY <2>1, <2>2
<1>2. /\ cand' \in [FeedUrl -> CandRow \cup {None}]
      /\ \A c \in FeedUrl : cand[c] # None => cand'[c] # None /\ cand'[c].target = cand[c].target
      /\ \A c \in FeedUrl : cand[c] = None => cand'[c] = None
  <2>1. CASE cand' = cand
    BY <2>1 DEF FrontierInv, TablesOK
  <2>2. CASE cand' # cand
    <3>1. PICK c \in FeedUrl : \E status \in {"pending", "held", "rejected", "imported"} :
            cand[c] # None /\ cand' = [cand EXCEPT ![c].status = status]
      BY <2>2
    <3>2. PICK status \in {"pending", "held", "rejected", "imported"} :
            cand[c] # None /\ cand' = [cand EXCEPT ![c].status = status]
      BY <3>1
    <3>3. PICK row : row = [cand[c] EXCEPT !.status = status]
      OBVIOUS
    <3>4. cand[c] \in CandRow
      BY <3>1 DEF FrontierInv, TablesOK
    <3>5. row \in CandRow /\ row.target = cand[c].target
      BY <3>3, <3>4 DEF CandRow
    <3>6. cand' = [cand EXCEPT ![c] = row]
      BY <3>2, <3>3
    <3>7. cand \in [FeedUrl -> CandRow \cup {None}]
      BY DEF FrontierInv, TablesOK
    <3> QED BY <3>1, <3>5, <3>6, <3>7, RowFields
  <2> QED BY <2>1, <2>2
<1>3. /\ feed' \in [FeedUrl -> Admission \cup {None, "deleted"}]
      /\ \A f \in FeedUrl : feed[f] # None => feed'[f] # None
      /\ \A f \in FeedUrl : feed'[f] = "catalog" => feed[f] = "catalog"
  <2>1. feed \in [FeedUrl -> Admission \cup {None, "deleted"}] /\ None \notin Admission /\ {"auto", "manual"} \subseteq Admission
    BY FrontierAssumption DEF FrontierInv, TablesOK, FrontierAssumption, Admission
  <2> QED BY <2>1
<1>4. Grows
  BY <1>1, <1>2, <1>3 DEF Grows, TablesOK, Known
<1>5. NoneRemoved /\ DecisionsStand
  BY <1>1 DEF NoneRemoved, DecisionsStand, Known
<1>6. FindingsStay
  BY <1>2 DEF FindingsStay
<1> QED BY <1>4, <1>5, <1>6

\* The candidates that are due are candidates.
LEMMA AutoPromoteDueKeeps ==
  ASSUME FrontierInv, AutoPromoteDue
  PROVE  FrontierInv' /\ DecisionsStand
<1>1. Grows /\ NoneRemoved /\ DecisionsStand /\ FindingsStay
  BY SameTables DEF AutoPromoteDue
<1>2. \A c \in promotions' : c \in FeedUrl /\ cand'[c] # None
  BY DEF AutoPromoteDue
<1>3. CycleOK'
  <2>1. DOMAIN cycle' = {"stage", "index", "due"} /\ cycle'.stage = "promoting"
    BY CycleFields DEF AutoPromoteDue
  <2> QED BY <2>1 DEF CycleOK
<1> QED BY <1>1, <1>2, <1>3, StepKeeps DEF AutoPromoteDue

\* A candidate that was due is admitted, or decided.
LEMMA PromoteKeeps ==
  ASSUME FrontierInv, NEW c \in promotions, Promote(c)
  PROVE  FrontierInv' /\ DecisionsStand
<1>1. c \in FeedUrl /\ cand[c] # None
  BY DEF FrontierInv
<1>2. target' = target
  BY DEF Promote
<1>3. \/ cand' = cand
      \/ \E status \in {"pending", "held", "rejected", "imported"} : cand' = [cand EXCEPT ![c].status = status]
  <2>1. CASE is_comment_feed(c) \/ BlockedAlias(c) # {}
    <3>1. PICK status \in IF is_comment_feed(c) THEN {"rejected"} ELSE {cand[g].status : g \in BlockedAlias(c)} :
            cand' = IF cand[c].status = "pending" THEN [cand EXCEPT ![c].status = status] ELSE cand
      BY <2>1 DEF Promote
    <3>2. status \in {"held", "rejected"}
      BY <3>1 DEF BlockedAlias
    <3> QED BY <3>1, <3>2
  <2>2. CASE ~(is_comment_feed(c) \/ BlockedAlias(c) # {})
    BY <2>2 DEF Promote, Admit
  <2> QED BY <2>1, <2>2
<1>4. feed' = feed \/ feed' = [feed EXCEPT ![c] = "auto"]
  BY DEF Promote, Admit
<1>5. Grows /\ NoneRemoved /\ DecisionsStand /\ FindingsStay
  BY <1>1, <1>2, <1>3, <1>4, DecisionKeeps
<1> QED BY <1>5, StepKeeps DEF Promote

\* A seeding request finds a target, or will insert one.
LEMMA SeedReadKeeps ==
  ASSUME FrontierInv, NEW url, origin_of(url) \in Url, SeedRead(url)
  PROVE  FrontierInv' /\ DecisionsStand
<1>1. Grows /\ NoneRemoved /\ DecisionsStand /\ FindingsStay
  BY SameTables DEF SeedRead
<1>2. ASSUME NEW s \in seeds' PROVE SeedOK(s)'
  <2>1. \/ s = [url |-> origin_of(url), insert |-> TRUE]
        \/ \E u \in Url : Known(u) /\ s = [url |-> u, insert |-> FALSE]
    BY <1>2 DEF SeedRead
  <2>2. ASSUME s = [url |-> origin_of(url), insert |-> TRUE] PROVE SeedOK(s)
    BY <2>2 DEF SeedOK
  <2>3. ASSUME NEW u \in Url, Known(u), s = [url |-> u, insert |-> FALSE] PROVE SeedOK(s)
    BY <2>3 DEF SeedOK
  <2>4. SeedOK(s)
    BY <2>1, <2>2, <2>3
  <2> QED BY <1>1, <2>4, SeedStays
<1> QED BY <1>1, <1>2, StepKeeps DEF SeedRead

\* Seeding inserts a target or queues one again; what it had read before may have been
\* rejected since.
LEMMA SeedWriteKeeps ==
  ASSUME FrontierInv, NEW s \in seeds, SeedWrite(s)
  PROVE  /\ FrontierInv'
         /\ \A u \in Url : Known(u) /\ target[u].status \in {"rejected", "removed"} /\ u # s.url =>
              target'[u].status = target[u].status
<1>1. s.url \in Url /\ (~s.insert => Known(s.url))
  BY DEF FrontierInv, SeedOK
<1>2. PICK row \in TargetRow : /\ row.status = "pending"
                               /\ target' = target \/ target' = [target EXCEPT ![s.url] = row]
  <2>1. CASE s.insert
    BY <2>1, NewTarget DEF SeedWrite
  <2>2. CASE ~s.insert
    <3>1. target[s.url] \in TargetRow
      BY <1>1, <2>2 DEF FrontierInv, TablesOK, Known
    <3>2. PICK row : row = [target[s.url] EXCEPT !.status = "pending", !.attempts = 0]
      OBVIOUS
    <3>3. row \in TargetRow /\ row.status = "pending"
      BY <3>1, <3>2 DEF TargetRow
    <3>4. target' = target \/ target' = [target EXCEPT ![s.url] = row]
      BY <2>2, <3>2 DEF SeedWrite, Update
    <3> QED BY <3>3, <3>4
  <2> QED BY <2>1, <2>2
<1>3. UNCHANGED <<cand, feed>>
  BY DEF SeedWrite
<1>4. Grows /\ NoneRemoved /\ FindingsStay
  BY <1>1, <1>2, <1>3, TargetWritten
<1>5. FrontierInv'
  BY <1>4, StepKeeps DEF SeedWrite
<1> QED BY <1>1, <1>2, <1>5 DEF FrontierInv, TablesOK

\* A target is blocked with its host.
LEMMA BlockTargetKeeps ==
  ASSUME FrontierInv, NEW u \in Url, BlockTarget(u)
  PROVE  FrontierInv' /\ DecisionsStand
<1>1. Grows /\ NoneRemoved /\ DecisionsStand /\ FindingsStay
  BY DecisionKeeps DEF BlockTarget
<1> QED BY <1>1, StepKeeps DEF BlockTarget

\* A target without findings is removed.
LEMMA RemoveTargetKeeps ==
  ASSUME FrontierInv, NEW u \in Url, RemoveTarget(u)
  PROVE  FrontierInv' /\ DecisionsStand
<1>1. target[u] \in TargetRow /\ target[u].status = "pending" /\ Findings(u) = {}
  BY DEF RemoveTarget, Pending, FrontierInv, TablesOK, Known
<1>2. PICK row : row = [target[u] EXCEPT !.status = "removed"]
  OBVIOUS
<1>3. row \in TargetRow /\ row # None
  <2>1. row \in TargetRow
    BY <1>1, <1>2 DEF TargetRow
  <2> QED BY <2>1, RowFields
<1>4. target' = [target EXCEPT ![u] = row] /\ UNCHANGED <<cand, feed>>
  BY <1>2 DEF RemoveTarget
<1>5. target \in [Url -> TargetRow \cup {None}]
  BY DEF FrontierInv, TablesOK
<1>6. Grows
  BY <1>3, <1>4 DEF FrontierInv, TablesOK, Grows
<1>7. NoneRemoved /\ DecisionsStand
  BY <1>1, <1>4, <1>5 DEF NoneRemoved, DecisionsStand
<1>8. FindingsStay
  BY <1>4 DEF FindingsStay
<1> QED BY <1>6, <1>7, <1>8, StepKeeps DEF RemoveTarget

\* A candidate is approved.
LEMMA ApproveKeeps ==
  ASSUME FrontierInv, NEW c \in FeedUrl, Approve(c)
  PROVE  FrontierInv' /\ DecisionsStand
<1>1. Grows /\ NoneRemoved /\ DecisionsStand /\ FindingsStay
  <2>1. cand[c] # None /\ cand' = [cand EXCEPT ![c].status = "imported"] /\ target' = target
    BY DEF Approve, Admit
  <2>2. feed' = feed \/ feed' = [feed EXCEPT ![c] = "manual"]
    BY DEF Approve, Admit
  <2> QED BY <2>1, <2>2, DecisionKeeps
<1> QED BY <1>1, StepKeeps DEF Approve

\* A candidate is held or rejected.
LEMMA DecideKeeps ==
  ASSUME FrontierInv, NEW c \in FeedUrl, NEW status \in {"held", "rejected"}, NEW block \in BOOLEAN,
         Decide(c, status, block)
  PROVE  FrontierInv' /\ DecisionsStand
<1>1. Grows /\ NoneRemoved /\ DecisionsStand /\ FindingsStay
  <2>1. cand[c] # None /\ cand' = [cand EXCEPT ![c].status = status] /\ feed' = feed
    BY DEF Decide
  <2>2. target' = target \/ \E h : target' = block_host(h)
    BY DEF Decide
  <2> QED BY <2>1, <2>2, DecisionKeeps
<1> QED BY <1>1, StepKeeps DEF Decide

\* A feed is deleted: targets lose a referrer, and nothing else.
LEMMA DeleteFeedKeeps ==
  ASSUME FrontierInv, NEW f \in FeedUrl, DeleteFeed(f)
  PROVE  FrontierInv' /\ DecisionsStand
<1> DEFINE rows == [u \in Url |-> IF Known(u) THEN [target[u] EXCEPT !.refs = @ \ {f}] ELSE None]
<1>1. target' = rows /\ cand' = Counted(rows)
  BY DEF DeleteFeed, Recorded
<1>2. ASSUME NEW u \in Url, Known(u)
      PROVE  rows[u] \in TargetRow /\ rows[u].status = target[u].status
  <2>1. target[u] \in TargetRow
    BY <1>2 DEF FrontierInv, TablesOK, Known
  <2>2. target[u].refs \ {f} \in SUBSET Catalog
    BY <2>1, RowFields
  <2>3. rows[u] = [target[u] EXCEPT !.refs = target[u].refs \ {f}]
    BY <1>2, <2>1 DEF TargetRow
  <2> QED BY <2>1, <2>2, <2>3, RowFields
<1>3. /\ rows \in [Url -> TargetRow \cup {None}]
      /\ \A u \in Url : Known(u) => rows[u] # None /\ rows[u].status = target[u].status
      /\ \A u \in Url : ~Known(u) => rows[u] = None
  <2>1. \A u \in Url : ~Known(u) => rows[u] = None
    OBVIOUS
  <2>2. \A u \in Url : rows[u] \in TargetRow \cup {None}
    BY <1>2, <2>1
  <2>3. rows \in [Url -> TargetRow \cup {None}]
    BY <2>2
  <2> HIDE DEF rows
  <2> QED BY <1>2, <2>1, <2>3, RowFields
<1> HIDE DEF rows
<1>4. /\ cand' \in [FeedUrl -> CandRow \cup {None}]
      /\ \A c \in FeedUrl : /\ (cand'[c] = None) <=> (cand[c] = None)
                            /\ cand[c] # None => cand'[c].target = cand[c].target
  BY <1>1, <1>3, CountedKeeps DEF FrontierInv
<1>5. /\ feed' \in [FeedUrl -> Admission \cup {None, "deleted"}]
      /\ \A g \in FeedUrl : feed[g] # None => feed'[g] # None
      /\ \A g \in FeedUrl : feed'[g] = "catalog" => feed[g] = "catalog"
  BY FrontierAssumption DEF FrontierInv, TablesOK, FrontierAssumption, DeleteFeed
<1>6. Grows
  BY <1>1, <1>3, <1>4, <1>5 DEF Grows, TablesOK, Known
<1>7. NoneRemoved /\ DecisionsStand
  BY <1>1, <1>3 DEF NoneRemoved, DecisionsStand, Known
<1>8. FindingsStay
  BY <1>4 DEF FindingsStay
<1> QED BY <1>6, <1>7, <1>8, StepKeeps DEF DeleteFeed

\* A switch is turned.
LEMMA SwitchControlKeeps ==
  ASSUME FrontierInv, SwitchControl
  PROVE  FrontierInv' /\ DecisionsStand
<1>1. Grows /\ NoneRemoved /\ DecisionsStand /\ FindingsStay
  BY SameTables DEF SwitchControl
<1> QED BY <1>1, StepKeeps DEF SwitchControl

-----------------------------------------------------------------------------
(* Every step keeps the invariant, and only seeding moves what was decided.  *)

\* The step of a human's decision about targets.
DecisionStep ==
  \A u \in Url : Known(u) /\ target[u].status \in {"rejected", "removed"} =>
    \/ target'[u].status \in {target[u].status, "rejected"}
    \/ \E s \in seeds : s.url = u /\ seeds' = seeds \ {s}

\* Mining keeps the invariant.
LEMMA MineKeeps ==
  ASSUME FrontierInv, Mine
  PROVE  FrontierInv' /\ DecisionsStand
<1> DEFINE Goal == FrontierInv' /\ DecisionsStand
<1>1. ASSUME NEW f \in Catalog, Revise(f) PROVE Goal
  BY <1>1, ReviseKeeps
<1>2. ASSUME NEW f \in Catalog, IngestHarvest(f) PROVE Goal
  BY <1>2, IngestHarvestKeeps
<1>3. ASSUME NEW f \in Catalog, CycleHarvest(f) PROVE Goal
  BY <1>3, CycleHarvestKeeps
<1>4. ASSUME NEW p \in harvests, HarvestRecord(p) PROVE Goal
  BY <1>4, HarvestRecordKeeps
<1>5. ASSUME NEW p \in harvests, HarvestMark(p) PROVE Goal
  BY <1>5, HarvestMarkKeeps
<1>6. ASSUME NEW p \in harvests, Blogroll(p) PROVE Goal
  BY <1>6, BlogrollKeeps
<1>7. Goal
  <2> HIDE DEF Goal
  <2> QED BY <1>1, <1>2, <1>3, <1>4, <1>5, <1>6 DEF Mine
<1> QED BY <1>7

\* A step of the cycle keeps the invariant.
LEMMA CycleKeeps ==
  ASSUME FrontierInv, Cycle
  PROVE  FrontierInv' /\ DecisionsStand
<1> DEFINE Goal == FrontierInv' /\ DecisionsStand
<1>1. ASSUME StartCycle PROVE Goal
  BY <1>1, StartCycleKeeps
<1>2. ASSUME NextStage PROVE Goal
  BY <1>2, NextStageKeeps
<1>3. ASSUME EndCycle PROVE Goal
  BY <1>3, EndCycleKeeps
<1>4. ASSUME PauseCancels PROVE Goal
  BY <1>4, PauseCancelsKeeps
<1>5. ASSUME WorkerCrash PROVE Goal
  BY <1>5, WorkerCrashKeeps
<1>6. ASSUME SelectProbes PROVE Goal
  BY <1>6, SelectProbesKeeps
<1>7. ASSUME AutoPromoteDue PROVE Goal
  BY <1>7, AutoPromoteDueKeeps
<1>8. ASSUME NEW s \in Source, ReadSource(s) PROVE Goal
  BY <1>8, ReadSourceKeeps
<1>9. ASSUME NEW c \in promotions, Promote(c) PROVE Goal
  BY <1>9, PromoteKeeps
<1>10. ASSUME NEW p \in probes, ProbeBegin(p) PROVE Goal
  BY <1>10, ProbeBeginKeeps
<1>11. ASSUME NEW p \in probes, ProbeFetch(p) PROVE Goal
  BY <1>11, ProbeFetchKeeps
<1>12. ASSUME NEW p \in probes, Insert(p) PROVE Goal
  BY <1>12, InsertKeeps
<1>13. ASSUME NEW p \in probes, ProbeEnd(p) PROVE Goal
  BY <1>13, ProbeEndKeeps
<1>14. ASSUME NEW p \in probes, NEW f \in p.feeds, LookUp(p, f) PROVE Goal
  BY <1>14, LookUpKeeps
<1>15. Goal
  <2> HIDE DEF Goal
  <2> QED BY <1>1, <1>2, <1>3, <1>4, <1>5, <1>6, <1>7, <1>8, <1>9, <1>10, <1>11, <1>12, <1>13, <1>14 DEF Cycle
<1> QED BY <1>15

\* A request of the administrator keeps the invariant.
LEMMA AdministerKeeps ==
  ASSUME FrontierInv, Administer
  PROVE  FrontierInv' /\ DecisionStep
<1> DEFINE Goal == FrontierInv' /\ DecisionStep
<1>1. ASSUME FrontierInv', DecisionsStand PROVE Goal
  BY <1>1 DEF DecisionStep, DecisionsStand
<1>2. ASSUME NEW u, origin_of(u) \in Url, SeedRead(u) PROVE Goal
  BY <1>1, <1>2, SeedReadKeeps
<1>3. ASSUME NEW u \in Url, BlockTarget(u) PROVE Goal
  BY <1>1, <1>3, BlockTargetKeeps
<1>4. ASSUME NEW u \in Url, RemoveTarget(u) PROVE Goal
  BY <1>1, <1>4, RemoveTargetKeeps
<1>5. ASSUME NEW s \in seeds, SeedWrite(s) PROVE Goal
  <2>1. seeds' = seeds \ {s}
    BY <1>5 DEF SeedWrite
  <2>2. /\ FrontierInv'
        /\ \A u \in Url : Known(u) /\ target[u].status \in {"rejected", "removed"} /\ u # s.url =>
             target'[u].status = target[u].status
    BY <1>5, SeedWriteKeeps
  <2> QED BY <2>1, <2>2 DEF DecisionStep
<1>6. ASSUME NEW c \in FeedUrl, Approve(c) PROVE Goal
  BY <1>1, <1>6, ApproveKeeps
<1>7. ASSUME NEW c \in FeedUrl, NEW status \in {"held", "rejected"}, NEW block \in BOOLEAN, Decide(c, status, block)
      PROVE  Goal
  BY <1>1, <1>7, DecideKeeps
<1>8. ASSUME NEW f \in FeedUrl, DeleteFeed(f) PROVE Goal
  BY <1>1, <1>8, DeleteFeedKeeps
<1>9. ASSUME SwitchControl PROVE Goal
  BY <1>1, <1>9, SwitchControlKeeps
<1>10. Goal
  <2> HIDE DEF Goal
  <2> QED BY <1>2, <1>3, <1>4, <1>5, <1>6, <1>7, <1>8, <1>9 DEF Administer
<1> QED BY <1>10

\* Every step keeps the invariant.
LEMMA NextKeeps ==
  ASSUME FrontierInv, [Next]_vars
  PROVE  FrontierInv' /\ DecisionStep
<1>1. ASSUME FrontierInv', DecisionsStand PROVE FrontierInv' /\ DecisionStep
  BY <1>1 DEF DecisionStep, DecisionsStand
<1>2. CASE Mine
  BY <1>1, <1>2, MineKeeps
<1>3. CASE Cycle
  BY <1>1, <1>3, CycleKeeps
<1>4. CASE Administer
  BY <1>4, AdministerKeeps
<1>5. CASE UNCHANGED vars
  <2>1. Grows /\ NoneRemoved /\ DecisionsStand /\ FindingsStay
    BY <1>5, SameTables DEF vars
  <2> QED BY <1>1, <1>5, <2>1, StepKeeps DEF vars
<1> QED BY <1>2, <1>3, <1>4, <1>5 DEF Next

\* Nothing is known at the start but the catalog, whose articles are not mined.
LEMMA InitInv == Init => FrontierInv
<1> SUFFICES ASSUME Init PROVE FrontierInv
  OBVIOUS
<1>1. TablesOK
  <2>1. "catalog" \in Admission
    BY DEF Admission
  <2> QED BY <2>1 DEF Init, TablesOK
<1>2. ArticlesOK /\ LinksNotLost
  <2>1. \A f \in Catalog : art[f] = [ver |-> 1, mark |-> 0]
    BY DEF Init
  <2>2. \A f \in Catalog : 1 \in DOMAIN Version[f]
    BY FrontierAssumption DEF FrontierAssumption
  <2>3. ArticlesOK
    BY <2>1, <2>2 DEF Init, ArticlesOK
  <2> QED BY <2>1, <2>3 DEF LinksNotLost
<1>3. CycleOK /\ CandidatesPlaced /\ RemovedHasNoFindings
  BY DEF Init, CycleOK, CandidatesPlaced, RemovedHasNoFindings, Known
<1>4. harvests = {} /\ probes = {} /\ promotions = {} /\ seeds = {}
  BY DEF Init
<1> QED BY <1>1, <1>2, <1>3, <1>4 DEF FrontierInv

-----------------------------------------------------------------------------
(* The results.                                                              *)

\* The invariant of discovery: rows stay in their tables, a candidate hangs on a target
\* that is known and not removed, every index, harvest, probe and request under way is
\* about rows that are still there, and what is marked as mined is accounted for.
THEOREM FrontierInvariant == Spec => []FrontierInv
<1>1. FrontierInv /\ [Next]_vars => FrontierInv'
  BY NextKeeps
<1> QED BY InitInv, <1>1, PTL DEF Spec

\* An article version that is marked as mined loses none of its links: however revisions,
\* pauses, crashes, deletions of feeds, budgets and a full frontier interleave with its
\* harvests, each host it links that could be a new source is a target, or the host or the
\* website of a feed that is carried or was carried until an administrator deleted it.
THEOREM NoLinkIsLost == Spec => []LinksNotLost
<1>1. FrontierInv => LinksNotLost
  BY DEF FrontierInv
<1> QED BY FrontierInvariant, <1>1, PTL

\* A removed target never has findings, whatever probes were under way at its removal.
THEOREM RemovedStayEmpty == Spec => []RemovedHasNoFindings
<1>1. FrontierInv => RemovedHasNoFindings
  BY DEF FrontierInv
<1> QED BY FrontierInvariant, <1>1, PTL

\* What an administrator blocked or removed stays so, but for a later block or a seeding
\* request that had read the row before.
THEOREM DecisionsOfAdminStand == Spec => AdminDecisionStands
<1>1. FrontierInv /\ [Next]_vars =>
        [\A u \in Url : Known(u) /\ target[u].status \in {"rejected", "removed"} =>
           \/ target'[u].status \in {target[u].status, "rejected"}
           \/ \E s \in seeds : s.url = u /\ seeds' = seeds \ {s}]_vars
  BY NextKeeps DEF DecisionStep
<1> QED BY FrontierInvariant, <1>1, PTL DEF Spec, AdminDecisionStands

\* No feed is admitted without a human while discovery is paused or model review is on,
\* nor from an address of which an alias was held or rejected.
THEOREM AdmissionIsAllowed == Spec => AutomaticAdmissionAllowed
<1> DEFINE Admitted ==
      \A c \in FeedUrl : feed[c] # "auto" /\ feed'[c] = "auto" =>
        /\ control.running /\ ~control.review
        /\ \A g \in Aliases[c] : cand[g] # None => cand[g].status \notin {"held", "rejected"}
<1>1. ASSUME FrontierInv, feed' = feed PROVE Admitted
  <2>1. \A c \in FeedUrl : ~(feed[c] # "auto" /\ feed'[c] = "auto")
    BY <1>1
  <2> QED BY <2>1
<1>2. ASSUME FrontierInv, NEW c \in promotions, Promote(c) PROVE Admitted
  <2>1. CASE feed' = feed
    BY <1>1, <1>2, <2>1
  <2>2. CASE feed' # feed
    <3>1. /\ BlockedAlias(c) = {} /\ MayPromote(c)
          /\ feed' = [feed EXCEPT ![c] = "auto"]
      BY <1>2, <2>2 DEF Promote, Admit
    <3>2. \A d \in FeedUrl : d # c => feed'[d] = feed[d]
      BY <1>2, <3>1 DEF FrontierInv, TablesOK
    <3>3. \A d \in FeedUrl : feed[d] # "auto" /\ feed'[d] = "auto" => d = c
      BY <3>2
    <3>4. \A g \in Aliases[c] : cand[g] # None => cand[g].status \notin {"held", "rejected"}
      BY <3>1 DEF BlockedAlias, MayPromote
    <3> QED BY <3>1, <3>3, <3>4 DEF MayPromote
  <2> QED BY <2>1, <2>2
<1>3. ASSUME FrontierInv, NEW c \in FeedUrl, Approve(c) PROVE Admitted
  <2>1. CASE feed' = feed
    BY <1>1, <1>3, <2>1
  <2>2. CASE feed' # feed
    <3>1. feed' = [feed EXCEPT ![c] = "manual"]
      BY <1>3, <2>2 DEF Approve, Admit
    <3>2. \A d \in FeedUrl : feed'[d] \in {feed[d], "manual"}
      BY <1>3, <3>1 DEF FrontierInv, TablesOK
    <3>3. \A d \in FeedUrl : ~(feed[d] # "auto" /\ feed'[d] = "auto")
      BY <3>2
    <3> QED BY <3>3
  <2> QED BY <2>1, <2>2
<1>4. ASSUME FrontierInv, NEW c \in FeedUrl, DeleteFeed(c) PROVE Admitted
  <2>1. \A d \in FeedUrl : feed'[d] \in {feed[d], "deleted"}
    BY <1>4 DEF DeleteFeed, FrontierInv, TablesOK
  <2>2. \A d \in FeedUrl : ~(feed[d] # "auto" /\ feed'[d] = "auto")
    BY <2>1
  <2> QED BY <2>2
<1>5. ASSUME Next
      PROVE  \/ feed' = feed
             \/ \E c \in promotions : Promote(c)
             \/ \E c \in FeedUrl : Approve(c) \/ DeleteFeed(c)
  <2>1. Mine => feed' = feed
    BY DEF Mine, Revise, IngestHarvest, CycleHarvest, HarvestRecord, HarvestMark, Blogroll
  <2>2. Cycle => feed' = feed \/ \E c \in promotions : Promote(c)
    BY DEF Cycle, StartCycle, NextStage, EndCycle, PauseCancels, WorkerCrash, SelectProbes, AutoPromoteDue,
           ReadSource, ProbeBegin, ProbeFetch, Insert, ProbeEnd, LookUp
  <2>3. Administer => feed' = feed \/ \E c \in FeedUrl : Approve(c) \/ DeleteFeed(c)
    BY DEF Administer, SeedRead, BlockTarget, RemoveTarget, SeedWrite, Decide, SwitchControl
  <2> QED BY <1>5, <2>1, <2>2, <2>3 DEF Next
<1>6. FrontierInv /\ [Next]_vars => [Admitted]_vars
  <2>1. ASSUME FrontierInv, Next PROVE Admitted
    <3> HIDE DEF Admitted
    <3> QED BY <1>1, <1>2, <1>3, <1>4, <1>5, <2>1
  <2> QED BY <2>1
<1> QED BY FrontierInvariant, <1>6, PTL DEF Spec, AutomaticAdmissionAllowed

\* Every connection a probe can make goes to a public address, and what is not for
\* robots.txt to a host that is not denied and an address that the robots.txt in force
\* permits and that is no feed of comments, for every web and along every chain of redirects.
THEOREM ContactsAreAllowed == Spec => []OnlyAllowedContacted
<1>1. ASSUME NEW w, NEW u PROVE \A c \in Answer(w, u).contacts : Allowed(c)
  <2> DEFINE robots == robots_decision(w, u)
  <2>1. \A c \in robots.contacts : Allowed(c)
    BY DecisionChecked
  <2>2. \A c \in discover_feeds(w, u).contacts : Allowed(c)
    BY SearchesAreClean
  <2> HIDE DEF robots
  <2>3. \A c \in Examined(w, u, robots).contacts : Allowed(c)
    BY <2>1, <2>2 DEF Examined, Swept, Result
  <2> QED BY <2>3 DEF Answer, Result, robots
<1>2. FrontierInv => OnlyAllowedContacted
  <2> SUFFICES ASSUME FrontierInv, NEW p \in probes, NEW a \in Answers[p.url], NEW c \in a.contacts
               PROVE  /\ c.ip.public
                      /\ c.main => /\ ~is_denied_host(normalize_host(c.url))
                                   /\ c.permitted /\ ~is_comment_feed(c.url)
    BY DEF OnlyAllowedContacted
  <2>1. p.url \in Url
    BY ProbeFields DEF FrontierInv, ProbeOK
  <2>2. PICK w \in Webs : a = Answer(w, p.url)
    BY <2>1 DEF Answers
  <2> QED BY <1>1, <2>2 DEF Allowed
<1> QED BY FrontierInvariant, <1>2, PTL

-----------------------------------------------------------------------------
(* What discovery lets in.                                                   *)

\* Only hosts that are not denied become targets, and no feed of comments becomes a
\* candidate or a feed.
NoneDenied == \A u \in Url : Known(u) => ~is_denied_host(Host[u])
NoComments ==
  /\ \A c \in FeedUrl : cand[c] # None => ~is_comment_feed(c)
  /\ \A f \in FeedUrl : feed[f] \in {"auto", "manual"} => ~is_comment_feed(f)
\* Discovery carries one address of a feed at most, and none if the catalog does.
OneOfEachClass ==
  \A f \in FeedUrl : \A g \in Aliases[f] \ {f} :
    feed[f] \in Admission /\ feed[g] \in Admission => feed[f] = "catalog" /\ feed[g] = "catalog"

\* What is under way is allowed in already.
Waiting ==
  /\ \A s \in seeds : ~is_denied_host(Host[s.url])
  /\ \A p \in probes : p.insert # None => ~is_comment_feed(p.insert.feed)
LetInWell == NoneDenied /\ NoComments /\ OneOfEachClass /\ Waiting

\* What a step may add to targets, candidates and feeds.
TargetsAllowed == \A u \in Url : target'[u] # None => Known(u) \/ ~is_denied_host(Host[u])
CandidatesAllowed == \A c \in FeedUrl : cand'[c] # None => cand[c] # None \/ ~is_comment_feed(c)
FeedsAllowed ==
  \/ feed' = feed
  \/ \E c \in FeedUrl, method \in {"auto", "manual"} :
       ~is_comment_feed(c) /\ ~Carried(c) /\ feed' = [feed EXCEPT ![c] = method]
  \/ \E c \in FeedUrl : feed' = [feed EXCEPT ![c] = "deleted"]
WaitingAllowed ==
  /\ \A s \in seeds' : s \in seeds \/ ~is_denied_host(Host[s.url])
  /\ \A p \in probes' : p \in probes \/ p.insert = None \/ ~is_comment_feed(p.insert.feed)

\* Aliases are mutual.
LEMMA AliasesMutual ==
  ASSUME NEW f \in FeedUrl
  PROVE  f \in Aliases[f] /\ \A g \in Aliases[f] : g \in FeedUrl /\ f \in Aliases[g]
<1>1. f \in Address
  BY FrontierAssumption DEF FrontierAssumption
<1>2. f \in feed_url_aliases(f)
  BY DEF feed_url_aliases
<1>3. ASSUME NEW g \in FeedUrl, g \in feed_url_aliases(f) PROVE f \in feed_url_aliases(g)
  BY <1>1, <1>3, AliasesFormClasses
<1> QED BY <1>2, <1>3 DEF Aliases

\* A step that adds only what is allowed keeps it so.
LEMMA AddsAllowed ==
  ASSUME FrontierInv, LetInWell, TargetsAllowed, CandidatesAllowed, FeedsAllowed, WaitingAllowed
  PROVE  LetInWell'
<1>1. NoneDenied' /\ Waiting'
  BY DEF LetInWell, NoneDenied, Waiting, TargetsAllowed, WaitingAllowed, Known
<1>2. CASE feed' = feed
  BY <1>1, <1>2 DEF LetInWell, NoComments, OneOfEachClass, CandidatesAllowed
<1>3. ASSUME NEW c \in FeedUrl, NEW method \in {"auto", "manual"},
             ~is_comment_feed(c), ~Carried(c), feed' = [feed EXCEPT ![c] = method]
      PROVE  NoComments' /\ OneOfEachClass'
  <2>1. \A f \in FeedUrl \ {c} : feed'[f] = feed[f]
    BY <1>3 DEF FrontierInv, TablesOK
  <2>2. NoComments'
    BY <1>3, <2>1 DEF LetInWell, NoComments, CandidatesAllowed
  <2>3. ASSUME NEW f \in FeedUrl, NEW g \in Aliases[f] \ {f}, feed'[f] \in Admission, feed'[g] \in Admission
        PROVE  feed'[f] = "catalog" /\ feed'[g] = "catalog"
    <3>1. g \in FeedUrl /\ f \in Aliases[g]
      BY AliasesMutual
    <3>2. f # c
      BY <1>3, <2>1, <2>3, <3>1 DEF Carried
    <3>3. g # c
      BY <1>3, <2>1, <2>3, <3>1 DEF Carried
    <3> QED BY <2>1, <2>3, <3>1, <3>2, <3>3 DEF LetInWell, OneOfEachClass
  <2> QED BY <2>2, <2>3 DEF OneOfEachClass
<1>4. ASSUME NEW c \in FeedUrl, feed' = [feed EXCEPT ![c] = "deleted"]
      PROVE  NoComments' /\ OneOfEachClass'
  <2>1. \A f \in FeedUrl : feed'[f] \in {feed[f], "deleted"}
    BY <1>4 DEF FrontierInv, TablesOK
  <2>2. \A f \in FeedUrl : feed'[f] \in Admission => feed'[f] = feed[f]
    BY <2>1 DEF Admission
  <2>3. NoComments'
    BY <2>1 DEF LetInWell, NoComments, CandidatesAllowed
  <2>4. OneOfEachClass'
    BY <2>2, AliasesMutual DEF LetInWell, OneOfEachClass
  <2> QED BY <2>3, <2>4
<1>5. NoComments' /\ OneOfEachClass'
  BY <1>2, <1>3, <1>4 DEF FeedsAllowed, LetInWell
<1> QED BY <1>1, <1>5 DEF LetInWell

\* The hosts a list of links adds are not denied.
LEMMA EligibleAllowed ==
  ASSUME NEW links, NEW index, NEW self, NEW h \in DOMAIN Eligible(links, index, self)
  PROVE  ~is_denied_host(h)
BY DEF Eligible

\* Recording adds targets of the hosts it was given only.
LEMMA RecordAllowed ==
  ASSUME NEW index, IndexOK(index), NEW found, Lists(found),
         \A h \in DOMAIN found : ~is_denied_host(h),
         NEW allowed, NEW f, NEW source,
         NEW out \in record_targets(found, allowed, index, f, source), Recorded(out)
  PROVE  TargetsAllowed /\ CandidatesAllowed
<1>1. PICK new \in SUBSET (allowed \cap Fresh(found, index)) :
        out = IF \E h \in new : Known(found[h]) THEN [ok |-> FALSE, rows |-> target, index |-> index]
              ELSE LET kept == [h \in new \cup (DOMAIN found \cap DOMAIN index.at) |-> found[h]]
                       at   == [h \in DOMAIN index.at \cup new |-> IF h \in new THEN found[h] ELSE index.at[h]]
                       gone == f # None /\ feed[f] # "catalog" /\ DOMAIN kept # {}
                   IN [ok |-> ~gone, rows |-> WithTargets(new, kept, at, IF gone THEN None ELSE f, source),
                       index |-> [index EXCEPT !.at = at, !.left = @ - Cardinality(new)]]
  BY DEF record_targets
<1>2. CandidatesAllowed
  BY DEF Recorded, Counted, CandidatesAllowed
<1>3. CASE \E h \in new : Known(found[h])
  <2>1. out.rows = target
    BY <1>1, <1>3
  <2> QED BY <1>2, <2>1 DEF Recorded, TargetsAllowed, Known
<1>4. CASE ~ \E h \in new : Known(found[h])
  <2> DEFINE kept == [h \in new \cup (DOMAIN found \cap DOMAIN index.at) |-> found[h]]
             at == [h \in DOMAIN index.at \cup new |-> IF h \in new THEN found[h] ELSE index.at[h]]
             by == IF f # None /\ feed[f] # "catalog" /\ DOMAIN kept # {} THEN None ELSE f
             cited == IF by = None THEN {} ELSE {at[h] : h \in DOMAIN kept \cap DOMAIN at}
             made == [u \in Url |-> IF u \in {kept[h] : h \in new} THEN Row(source) ELSE target[u]]
  <2>1. target' = [u \in Url |-> IF u \in cited THEN [made[u] EXCEPT !.refs = @ \cup {by}] ELSE made[u]]
    BY <1>1, <1>4 DEF WithTargets, Recorded
  <2>2. \A h \in new : h \in DOMAIN found /\ h \in DOMAIN at /\ kept[h] = found[h]
    BY DEF Fresh
  <2>3. ASSUME NEW u \in cited PROVE Known(u) \/ \E h \in new : u = found[h]
    <3>1. PICK h \in DOMAIN at : u = at[h]
      BY <2>3
    <3>2. CASE h \in new
      BY <3>1, <3>2
    <3>3. CASE h \notin new
      <4>1. h \in DOMAIN index.at /\ u = index.at[h]
        BY <3>1, <3>3
      <4> QED BY <4>1 DEF IndexOK
    <3> QED BY <3>2, <3>3
  <2> HIDE DEF cited, at
  <2>4. ASSUME NEW u \in Url, target'[u] # None, ~Known(u) PROVE \E h \in new : u = found[h]
    <3>1. CASE u \in cited
      BY <2>3, <2>4, <3>1
    <3>2. CASE u \notin cited
      <4>1. target'[u] = made[u]
        BY <2>1, <3>2
      <4>2. u \in {kept[h] : h \in new}
        BY <2>4, <4>1 DEF Known
      <4> QED BY <2>2, <4>2
    <3> QED BY <3>1, <3>2
  <2>5. \A h \in new : Host[found[h]] = h /\ ~is_denied_host(h)
    BY <2>2 DEF Lists
  <2>6. TargetsAllowed
    BY <2>4, <2>5 DEF TargetsAllowed
  <2> QED BY <1>2, <2>6
<1> QED BY <1>3, <1>4

\* So do the addresses of an OPML file.
LEMMA OpmlAllowed ==
  ASSUME NEW links, NEW index, NEW out, out = record_feed_targets(OpmlTargets(links, index), index), Recorded(out)
  PROVE  TargetsAllowed /\ CandidatesAllowed
<1> DEFINE new == OpmlTargets(links, index)
<1>1. CandidatesAllowed
  BY DEF Recorded, Counted, CandidatesAllowed
<1>2. out.rows = target \/ out.rows = [u \in Url |-> IF u \in new THEN Row("opml") ELSE target[u]]
  BY DEF record_feed_targets
<1>3. \A u \in new : ~is_denied_host(normalize_host(u))
  BY DEF OpmlTargets
<1> HIDE DEF new
<1>4. ASSUME NEW u \in Url, target'[u] # None PROVE Known(u) \/ ~is_denied_host(Host[u])
  <2>1. Known(u) \/ u \in new
    BY <1>2, <1>4 DEF Recorded, Known
  <2> QED BY <1>3, <2>1 DEF Host, Addresses
<1> QED BY <1>1, <1>4 DEF TargetsAllowed

\* Steps that add no target, candidate or feed.
LEMMA SameLetIn ==
  ASSUME FrontierInv, LetInWell, UNCHANGED <<cand, feed>>,
         \A u \in Url : target'[u] # None => Known(u), WaitingAllowed
  PROVE  LetInWell'
BY AddsAllowed DEF TargetsAllowed, CandidatesAllowed, FeedsAllowed

\* Mining.
LEMMA MineLetsIn ==
  ASSUME FrontierInv, LetInWell, Mine
  PROVE  LetInWell'
<1>1. ASSUME UNCHANGED <<target, cand, feed, probes, seeds>> PROVE LetInWell'
  BY <1>1, SameLetIn DEF Known, WaitingAllowed
<1>2. ASSUME UNCHANGED <<feed, probes, seeds>>, TargetsAllowed, CandidatesAllowed PROVE LetInWell'
  BY <1>2, AddsAllowed DEF FeedsAllowed, WaitingAllowed
<1>3. ASSUME NEW p \in harvests, NEW links, Origins(links), NEW self, NEW allowed, NEW out,
             out \in record_targets(Eligible(links, p.index, self), allowed, p.index, p.feed, "article_link"),
             Recorded(out), UNCHANGED <<feed, probes, seeds>>
      PROVE  LetInWell'
  <2>1. IndexOK(p.index)
    BY DEF FrontierInv, HarvestOK
  <2> DEFINE found == Eligible(links, p.index, self)
  <2>2. Lists(found) /\ \A h \in DOMAIN found : ~is_denied_host(h)
    BY <1>3, EligibleLists, EligibleAllowed
  <2> HIDE DEF found
  <2>3. TargetsAllowed /\ CandidatesAllowed
    BY <1>3, <2>1, <2>2, RecordAllowed DEF found
  <2> QED BY <1>2, <1>3, <2>3
<1>4. ASSUME NEW p \in harvests, HarvestRecord(p) PROVE LetInWell'
  <2>1. p.feed \in Catalog /\ p.ver \in DOMAIN Version[p.feed]
    BY DEF FrontierInv, HarvestOK
  <2>2. Origins(Version[p.feed][p.ver].links)
    BY <2>1, CatalogLinks
  <2>3. PICK allowed, out : out \in record_targets(LinksOf(p), allowed, p.index, p.feed, "article_link") /\ Recorded(out)
    BY <1>4 DEF HarvestRecord
  <2> QED BY <1>3, <1>4, <2>2, <2>3 DEF HarvestRecord, LinksOf
<1>5. ASSUME NEW p \in harvests, Blogroll(p) PROVE LetInWell'
  <2>1. p.feed \in Catalog
    BY DEF FrontierInv, HarvestOK
  <2> DEFINE self == Hosts[p.feed]
  <2>2. PICK links \in OwnPage(p.feed) :
          \E allowed, out : /\ out \in record_targets(Eligible(links, p.index, self), allowed, p.index, p.feed, "article_link")
                            /\ Recorded(out)
    BY <1>5 DEF Blogroll
  <2>3. Origins(links)
    BY <2>1, <2>2, CatalogLinks
  <2>4. PICK allowed, out : /\ out \in record_targets(Eligible(links, p.index, self), allowed, p.index, p.feed, "article_link")
                            /\ Recorded(out)
    BY <2>2
  <2> HIDE DEF self
  <2> QED BY <1>3, <1>5, <2>3, <2>4 DEF Blogroll
<1>6. ASSUME NEW f \in Catalog, Revise(f) \/ IngestHarvest(f) \/ CycleHarvest(f) PROVE LetInWell'
  BY <1>1, <1>6 DEF Revise, IngestHarvest, CycleHarvest
<1>7. ASSUME NEW p \in harvests, HarvestMark(p) PROVE LetInWell'
  BY <1>1, <1>7 DEF HarvestMark
<1> QED BY <1>4, <1>5, <1>6, <1>7 DEF Mine

\* A probe keeps what it is about to insert, unless it looks a feed up.
LEMMA ProbesLetIn ==
  ASSUME FrontierInv, LetInWell, NEW p \in probes,
         ProbeBegin(p) \/ ProbeFetch(p) \/ Insert(p) \/ ProbeEnd(p) \/ \E f \in p.feeds : LookUp(p, f)
  PROVE  LetInWell'
<1>1. p \in ProbeRow /\ p.url \in Url /\ Known(p.url) /\ (p.insert # None => p.insert \in InsertRow)
  BY ProbeFields DEF FrontierInv, ProbeOK
<1>2. ASSUME UNCHANGED <<cand, feed, seeds>>, \A u \in Url : target'[u] # None => Known(u),
             NEW q, \A r \in probes' : r \in probes \/ r = q,
             q.insert = None \/ q.insert = p.insert \/ ~is_comment_feed(q.insert.feed)
      PROVE  LetInWell'
  <2>1. q.insert = None \/ ~is_comment_feed(q.insert.feed)
    BY <1>2 DEF LetInWell, Waiting
  <2>2. WaitingAllowed
    BY <1>2, <2>1 DEF WaitingAllowed
  <2> QED BY <1>2, <2>2, SameLetIn
<1>3. CASE ProbeBegin(p)
  <2> DEFINE q == [p EXCEPT !.step = "begun"]
  <2>1. q.insert = p.insert
    BY <1>1 DEF ProbeRow
  <2>2. UNCHANGED <<target, cand, feed, seeds>> /\ \A r \in probes' : r \in probes \/ r = q
    BY <1>3 DEF ProbeBegin, Swap
  <2> HIDE DEF q
  <2> QED BY <1>2, <2>1, <2>2 DEF Known
<1>4. CASE ProbeFetch(p)
  <2>1. PICK a : probes' = Swap(probes, p, [p EXCEPT !.step = "found", !.verdict = a.verdict, !.feeds = a.feeds])
    BY <1>4 DEF ProbeFetch
  <2> DEFINE q == [p EXCEPT !.step = "found", !.verdict = a.verdict, !.feeds = a.feeds]
  <2>2. q.insert = p.insert
    BY <1>1 DEF ProbeRow
  <2>3. UNCHANGED <<target, cand, feed, seeds>> /\ \A r \in probes' : r \in probes \/ r = q
    BY <1>4, <2>1 DEF ProbeFetch, Swap
  <2> HIDE DEF q
  <2> QED BY <1>2, <2>2, <2>3 DEF Known
<1>5. ASSUME NEW f \in p.feeds, LookUp(p, f) PROVE LetInWell'
  <2> DEFINE row == [feed |-> f, status |-> IF Carried(f) THEN "imported" ELSE "pending"]
             insert == IF is_comment_feed(f) \/ Seen(f) THEN None ELSE row
             q == [p EXCEPT !.feeds = @ \ {f}, !.insert = insert]
  <2>1. q.insert = insert
    BY <1>1 DEF ProbeRow
  <2>2. insert = None \/ (~is_comment_feed(f) /\ insert.feed = f)
    OBVIOUS
  <2>3. UNCHANGED <<target, cand, feed, seeds>> /\ \A r \in probes' : r \in probes \/ r = q
    BY <1>5 DEF LookUp, Swap
  <2> HIDE DEF q, insert
  <2> QED BY <1>2, <2>1, <2>2, <2>3 DEF Known
<1>6. CASE Insert(p)
  <2> DEFINE q == [p EXCEPT !.insert = None]
             f == p.insert.feed
             row == [status |-> p.insert.status, target |-> p.url, refs |-> p.refs]
  <2>1. q.insert = None
    BY <1>1 DEF ProbeRow
  <2>2. UNCHANGED <<target, feed, seeds>> /\ \A r \in probes' : r \in probes \/ r = q
    BY <1>6 DEF Insert, Swap
  <2>3. f \in FeedUrl /\ ~is_comment_feed(f)
    <3>1. p.insert # None /\ p.insert \in InsertRow
      BY <1>1, <1>6 DEF Insert
    <3> QED BY <3>1 DEF InsertRow, LetInWell, Waiting
  <2>4. cand' = cand \/ cand' = [cand EXCEPT ![f] = row]
    BY <1>6 DEF Insert
  <2> HIDE DEF q, f, row
  <2>5. CandidatesAllowed
    BY <2>3, <2>4 DEF CandidatesAllowed, FrontierInv, TablesOK
  <2>6. TargetsAllowed /\ FeedsAllowed /\ WaitingAllowed
    BY <2>1, <2>2 DEF TargetsAllowed, FeedsAllowed, WaitingAllowed, Known
  <2> QED BY <2>5, <2>6, AddsAllowed
<1>7. CASE ProbeEnd(p)
  <2>1. UNCHANGED <<cand, feed, seeds>> /\ probes' \subseteq probes
    BY <1>7 DEF ProbeEnd
  <2>2. target' = target \/ target' = [target EXCEPT ![p.url] = Ended(p)]
    BY <1>7 DEF ProbeEnd, Update
  <2>3. \A u \in Url : target'[u] # None => Known(u)
    BY <1>1, <2>2 DEF Known, FrontierInv, TablesOK
  <2> QED BY <2>1, <2>3, SameLetIn DEF WaitingAllowed
<1> QED BY <1>3, <1>4, <1>5, <1>6, <1>7

\* An admission is of one address, whose class had none, and which is no feed of comments.
LEMMA AdmitLetsIn ==
  ASSUME FrontierInv, LetInWell, NEW c \in FeedUrl, cand[c] # None, NEW method \in {"auto", "manual"},
         ~is_comment_feed(c), Admit(c, method), UNCHANGED <<target, probes, seeds>>
  PROVE  LetInWell'
<1>1. cand' = [cand EXCEPT ![c].status = "imported"]
  BY DEF Admit
<1>2. CandidatesAllowed
  BY <1>1 DEF CandidatesAllowed, FrontierInv, TablesOK
<1>3. FeedsAllowed
  BY DEF Admit, FeedsAllowed
<1>4. TargetsAllowed /\ WaitingAllowed
  BY DEF TargetsAllowed, WaitingAllowed, Known
<1> QED BY <1>2, <1>3, <1>4, AddsAllowed

\* The cycle.
LEMMA CycleLetsIn ==
  ASSUME FrontierInv, LetInWell, Cycle
  PROVE  LetInWell'
<1>1. ASSUME UNCHANGED <<target, cand, feed, seeds>>, \A p \in probes' : p \in probes \/ p.insert = None
      PROVE  LetInWell'
  BY <1>1, SameLetIn DEF Known, WaitingAllowed
<1>2. ASSUME SelectProbes PROVE LetInWell'
  <2>1. \A p \in probes' : p.insert = None
    BY <1>2 DEF SelectProbes, Probe
  <2> QED BY <1>1, <1>2, <2>1 DEF SelectProbes
<1>3. ASSUME StartCycle \/ NextStage \/ EndCycle \/ PauseCancels \/ WorkerCrash \/ AutoPromoteDue PROVE LetInWell'
  BY <1>1, <1>3 DEF StartCycle, NextStage, EndCycle, PauseCancels, WorkerCrash, AutoPromoteDue
<1>4. ASSUME NEW s \in Source, ReadSource(s) PROVE LetInWell'
  <2>1. IndexOK(cycle.index)
    BY <1>4, CycleFields DEF ReadSource
  <2>2. PICK index : index = cycle.index
    OBVIOUS
  <2>3. PICK links \in MayList[s.url] :
          LET found == Eligible(links, index, {})
              outs  == IF s.kind = "opml" THEN {record_feed_targets(OpmlTargets(links, index), index)}
                       ELSE record_targets(found, DOMAIN found, index, None, "directory")
          IN \E out \in outs : Recorded(out)
    BY <1>4, <2>2 DEF ReadSource
  <2>4. TargetsAllowed /\ CandidatesAllowed
    <3>1. CASE s.kind = "opml"
      BY <2>3, <3>1, OpmlAllowed
    <3>2. CASE s.kind # "opml"
      <4> DEFINE found == Eligible(links, index, {})
      <4>1. Origins(links)
        BY <3>2, FrontierAssumption DEF FrontierAssumption
      <4>2. Lists(found) /\ \A h \in DOMAIN found : ~is_denied_host(h)
        BY <4>1, EligibleLists, EligibleAllowed
      <4>3. PICK out \in record_targets(found, DOMAIN found, index, None, "directory") : Recorded(out)
        BY <2>3, <3>2
      <4> HIDE DEF found
      <4> QED BY <2>1, <2>2, <4>2, <4>3, RecordAllowed
    <3> QED BY <3>1, <3>2
  <2> QED BY <1>4, <2>4, AddsAllowed DEF ReadSource, FeedsAllowed, WaitingAllowed
<1>5. ASSUME NEW c \in promotions, Promote(c) PROVE LetInWell'
  <2>1. c \in FeedUrl /\ cand[c] # None /\ UNCHANGED <<target, probes, seeds>>
    BY <1>5 DEF FrontierInv, Promote
  <2>2. CASE is_comment_feed(c) \/ BlockedAlias(c) # {}
    <3>1. feed' = feed /\ (cand' = cand \/ \E status : cand' = [cand EXCEPT ![c].status = status])
      BY <1>5, <2>2 DEF Promote
    <3>2. CandidatesAllowed
      BY <2>1, <3>1 DEF CandidatesAllowed, FrontierInv, TablesOK
    <3> QED BY <2>1, <3>1, <3>2, AddsAllowed DEF TargetsAllowed, FeedsAllowed, WaitingAllowed, Known
  <2>3. CASE ~(is_comment_feed(c) \/ BlockedAlias(c) # {})
    <3>1. Admit(c, "auto") \/ UNCHANGED <<cand, feed>>
      BY <1>5, <2>3 DEF Promote
    <3> QED BY <1>1, <2>1, <2>3, <3>1, AdmitLetsIn
  <2> QED BY <2>2, <2>3
<1>6. ASSUME NEW p \in probes,
             ProbeBegin(p) \/ ProbeFetch(p) \/ Insert(p) \/ ProbeEnd(p) \/ \E f \in p.feeds : LookUp(p, f)
      PROVE  LetInWell'
  BY <1>6, ProbesLetIn
<1> QED BY <1>2, <1>3, <1>4, <1>5, <1>6 DEF Cycle

\* The administrator.
LEMMA AdministerLetsIn ==
  ASSUME FrontierInv, LetInWell, Administer
  PROVE  LetInWell'
<1>1. ASSUME NEW url \in Url, origin_of(url) \in Url, SeedRead(url) PROVE LetInWell'
  <2>1. UNCHANGED <<target, cand, feed, probes>> /\ ~is_denied_host(normalize_host(url))
    BY <1>1 DEF SeedRead
  <2>2. url \in Address /\ normalize_host(url) # None
    BY <2>1, DeniedNone, FrontierAssumption DEF FrontierAssumption
  <2>3. Host[origin_of(url)] = normalize_host(url)
    BY <1>1, <2>2, OriginHost DEF Host, Addresses
  <2>4. ASSUME NEW s \in seeds' PROVE Host[s.url] = normalize_host(url)
    BY <1>1, <2>3, <2>4 DEF SeedRead
  <2> QED BY <2>1, <2>4, SameLetIn DEF WaitingAllowed, Known
<1>2. ASSUME NEW s \in seeds, SeedWrite(s) PROVE LetInWell'
  <2>1. s.url \in Url /\ ~is_denied_host(Host[s.url])
    BY DEF FrontierInv, SeedOK, LetInWell, Waiting
  <2>2. target' = target \/ \E row : target' = [target EXCEPT ![s.url] = row]
    BY <1>2 DEF SeedWrite, Update
  <2>3. TargetsAllowed
    BY <2>1, <2>2 DEF TargetsAllowed, Known, FrontierInv, TablesOK
  <2> QED BY <1>2, <2>3, AddsAllowed DEF SeedWrite, CandidatesAllowed, FeedsAllowed, WaitingAllowed
<1>3. ASSUME NEW h, target' = block_host(h) PROVE \A u \in Url : target'[u] # None => Known(u)
  BY <1>3 DEF block_host, Known
<1>4. ASSUME NEW u \in Url, BlockTarget(u) \/ RemoveTarget(u) PROVE LetInWell'
  <2>1. UNCHANGED <<cand, feed, probes, seeds>>
    BY <1>4 DEF BlockTarget, RemoveTarget
  <2>2. \A v \in Url : target'[v] # None => Known(v)
    <3>1. CASE BlockTarget(u)
      BY <1>3, <3>1 DEF BlockTarget
    <3>2. CASE RemoveTarget(u)
      BY <3>2 DEF RemoveTarget, Pending, Known, FrontierInv, TablesOK
    <3> QED BY <1>4, <3>1, <3>2
  <2> QED BY <2>1, <2>2, SameLetIn DEF WaitingAllowed
<1>5. ASSUME NEW c \in FeedUrl, Approve(c) PROVE LetInWell'
  BY <1>5, AdmitLetsIn DEF Approve
<1>6. ASSUME NEW c \in FeedUrl, NEW status, NEW block \in BOOLEAN, Decide(c, status, block) PROVE LetInWell'
  <2>1. /\ cand[c] # None /\ cand' = [cand EXCEPT ![c].status = status] /\ UNCHANGED <<feed, probes, seeds>>
        /\ target' = target \/ target' = block_host(Host[cand[c].target])
    BY <1>6 DEF Decide
  <2>2. CandidatesAllowed
    BY <2>1 DEF CandidatesAllowed, FrontierInv, TablesOK
  <2>3. TargetsAllowed
    BY <1>3, <2>1 DEF TargetsAllowed, Known
  <2> QED BY <2>1, <2>2, <2>3, AddsAllowed DEF FeedsAllowed, WaitingAllowed
<1>7. ASSUME NEW f \in FeedUrl, DeleteFeed(f) PROVE LetInWell'
  <2>1. TargetsAllowed /\ CandidatesAllowed
    BY <1>7 DEF DeleteFeed, Recorded, Counted, TargetsAllowed, CandidatesAllowed
  <2>2. FeedsAllowed /\ WaitingAllowed
    BY <1>7 DEF DeleteFeed, FeedsAllowed, WaitingAllowed
  <2> QED BY <2>1, <2>2, AddsAllowed
<1>8. ASSUME SwitchControl PROVE LetInWell'
  BY <1>8, SameLetIn DEF SwitchControl, WaitingAllowed, Known
<1> QED BY <1>1, <1>2, <1>4, <1>5, <1>6, <1>7, <1>8 DEF Administer

\* Whatever links, directories, files and requests name, and however old the index they
\* are compared with: no target has a denied host, no candidate and no admitted feed is
\* a feed of comments, and of the addresses of one feed discovery admits one at most.
THEOREM OnlyBlogsAreLetIn == Spec => [](NoneDenied /\ NoComments /\ OneOfEachClass)
<1>1. Init => LetInWell
  <2> SUFFICES ASSUME Init PROVE LetInWell
    OBVIOUS
  <2>1. NoneDenied /\ Waiting
    BY DEF Init, NoneDenied, Waiting, Known
  <2>2. \A f \in FeedUrl : cand[f] = None /\ feed[f] \in {None, "catalog"}
    BY DEF Init
  <2>3. \A f \in FeedUrl : feed[f] \notin {"auto", "manual"} /\ (feed[f] \in Admission => feed[f] = "catalog")
    BY <2>2, FrontierAssumption DEF FrontierAssumption, Admission
  <2>4. NoComments /\ OneOfEachClass
    BY <2>2, <2>3 DEF NoComments, OneOfEachClass, Aliases
  <2> QED BY <2>1, <2>4 DEF LetInWell
<1>2. FrontierInv /\ LetInWell /\ [Next]_vars => LetInWell'
  <2> SUFFICES ASSUME FrontierInv, LetInWell, [Next]_vars PROVE LetInWell'
    OBVIOUS
  <2>1. CASE UNCHANGED vars
    BY <2>1, SameLetIn DEF vars, WaitingAllowed, Known
  <2> QED BY <2>1, MineLetsIn, CycleLetsIn, AdministerLetsIn DEF Next
<1>3. LetInWell => NoneDenied /\ NoComments /\ OneOfEachClass
  BY DEF LetInWell
<1> QED BY <1>1, <1>2, <1>3, FrontierInvariant, PTL DEF Spec
=============================================================================
