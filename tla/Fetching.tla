------------------------------ MODULE Fetching ------------------------------
(***************************************************************************)
(* The one way out to the web: the gate before every request, the pinned   *)
(* connection, redirects, robots.txt, and the search of a site for feeds   *)
(* (services/feed_discovery.py, services/robots.py and                     *)
(* services/crawl_policy.py), as functions of what the web answers.        *)
(*                                                                         *)
(* A web w has seen[host] and pinned[host], the addresses DNS gives when   *)
(* the URL is validated and when the connection is made (the two lookups   *)
(* may differ), and page[url], the reply of a server; a URL it has no page *)
(* for answers 404.  An ip is [version, public, up].  With them go what    *)
(* the crawler brings: kept[origin], the answers for robots.txt it still   *)
(* has from earlier requests, and respect, whether it is set to ask.       *)
(* Every connection attempt is in "contacts", with whether it was made for *)
(* the page itself and whether the robots.txt in force permits it.         *)
(***************************************************************************)
EXTENDS WebAddress, FiniteSets

CONSTANTS
  MaxRedirects,    \* max_redirects (5)
  MaxLinks,        \* MAX_FEED_LINK_CANDIDATES (50)
  MaxConnects,     \* MAX_PINNED_CONNECT_ATTEMPTS (2)
  FallbackPaths    \* FALLBACK_PATHS, each [path, slash]

ASSUME FetchAssumption == MaxRedirects \in Nat

NotFound == [kind |-> "http4"]
Reply(w, url) == IF url \in DOMAIN w.page THEN w.page[url] ELSE NotFound
Redirected(w) == {w.page[u].to : u \in {v \in DOMAIN w.page : w.page[v].kind = "redirect"}}
robots_txt(url) == [Root(url) EXCEPT !.path = <<"robots.txt">>, !.slash = FALSE]

Hops(w, start) == {start} \cup Redirected(w)

\* The URLs redirects lead through: those in every set that follows them.
Follows(w, S) == \A u \in S : Reply(w, u).kind = "redirect" => Reply(w, u).to \in S
Chain(w, start) == {u \in Hops(w, start) : \A S \in SUBSET Hops(w, start) :
                                             start \in S /\ Follows(w, S) => u \in S}

\* A robots.txt that was read disallows what it lists; a 4xx allows everything.
\* An answer that is kept stands for the origin, whatever the server says now.
Grants(r, url) == r.kind = "http4" \/ (r.kind = "ok" /\ url \notin r.deny)
Kept(w, url) == Root(url) \in DOMAIN w.kept
Permits(w, url) ==
  \/ ~w.respect
  \/ Kept(w, url) /\ Grants(w.kept[Root(url)], url)
  \/ ~Kept(w, url) /\ \E u \in Chain(w, robots_txt(url)) : Grants(Reply(w, u), url)

Public(ips) == ips # <<>> /\ \A i \in DOMAIN ips : ips[i].public
_is_safe_host(w, url) == Public(w.seen[url.host])
Valid(w, url) == Web(url) /\ _is_safe_host(w, url)

\* One address of each family before a second of any, in the resolver's order:
\* how many addresses come before ips[i].
Place(ips, i) ==
  LET Same(j)  == {k \in DOMAIN ips : ips[k].version = ips[j].version}
      Rank(j)  == Cardinality({k \in Same(j) : k < j})
      First(j) == CHOOSE k \in Same(j) : \A l \in Same(j) : k <= l
      Before(j, k) == Rank(j) < Rank(k) \/ (Rank(j) = Rank(k) /\ First(j) < First(k))
  IN Cardinality({j \in DOMAIN ips : Before(j, i)})
_pick_pinned_ips(ips) == {i \in DOMAIN ips : Place(ips, i) < MaxConnects}

\* A failed connect tries the next pinned address; any other answer is final.
Connect(w, url, main, ips) ==
  LET Up    == {i \in _pick_pinned_ips(ips) : ips[i].up}
      tried == {i \in _pick_pinned_ips(ips) : \A j \in Up : Place(ips, i) <= Place(ips, j)}
  IN [reply    |-> IF Up = {} THEN [kind |-> "transport"] ELSE Reply(w, url),
      contacts |-> {[ip |-> ips[i], url |-> url, main |-> main, permitted |-> Permits(w, url)]
                      : i \in tried}]
handle_async_request(w, url, main) ==
  IF Public(w.pinned[url.host]) THEN Connect(w, url, main, w.pinned[url.host])
  ELSE [reply |-> [kind |-> "refused"], contacts |-> {}]

\* What a reply makes of a fetch; "onward" are the fetches a redirect may lead to.
\* A 304 nobody asked for and a reply over the cap are errors.
Answered(reply, made, onward) ==
  CASE reply.kind = "redirect" -> [onward[reply.to] EXCEPT !.contacts = @ \cup made]
    [] reply.kind \in {"nolocation", "http304", "big", "refused"} -> [kind |-> "refused", contacts |-> made]
    [] reply.kind = "ok" -> [kind |-> "ok", contacts |-> made, reply |-> reply]
    [] OTHER -> [kind |-> reply.kind, contacts |-> made]
Passed(gate, got, onward) ==
  IF gate.kind = "allow" THEN Answered(got.reply, gate.contacts \cup got.contacts, onward) ELSE gate

\* The gate, an answer for every URL, is asked at the first URL and again at every
\* redirect, of which there are at most MaxRedirects.
Fetched(w, url, n, allow, main, onward) ==
  IF n > MaxRedirects \/ ~Valid(w, url) THEN [kind |-> "refused", contacts |-> {}]
  ELSE Passed(allow[url], handle_async_request(w, url, main), onward)
fetch_with_cap(w, start, allow, main) ==
  LET hop[n \in 0..MaxRedirects + 1] ==
        [url \in Hops(w, start) |-> Fetched(w, url, n, allow, main, hop[n + 1])]
  IN hop[0][start]

Ungated(w, start) == [u \in Hops(w, start) |-> [kind |-> "allow", contacts |-> {}]]

-----------------------------------------------------------------------------
(* robots.txt and the gate of the crawl.                                     *)

\* A 5xx and a host that does not answer disallow for now, a rule for good.
Rules(r, url) ==
  [allowed   |-> r.kind = "http4" \/ (r.kind = "ok" /\ url \notin r.reply.deny),
   transient |-> r.kind \notin {"ok", "http4"},
   contacts  |-> r.contacts]
Remembered(r) == [kind |-> r.kind, reply |-> r, contacts |-> {}]
robots_check(w, url) ==
  Rules(IF Kept(w, url) THEN Remembered(w.kept[Root(url)])
        ELSE fetch_with_cap(w, robots_txt(url), Ungated(w, robots_txt(url)), FALSE), url)
\* FEED_DISCOVERY_RESPECT_ROBOTS off: robots.txt is not asked at all.
robots_decision(w, url) ==
  IF w.respect THEN robots_check(w, url) ELSE [allowed |-> TRUE, transient |-> FALSE, contacts |-> {}]

RobotsOnly(w, url, denylist) ==   \* faulty variant: the denylist is not asked at the fetch
  LET robots == robots_decision(w, url)
  IN [kind |-> IF robots.allowed THEN "allow" ELSE "refused", contacts |-> robots.contacts]
make_gate(w, url, denylist) ==
  LET host == normalize_host(url)
      robots == robots_decision(w, url)
  IN IF host = None \/ (denylist /\ is_denied_host(host)) THEN [kind |-> "refused", contacts |-> {}]
     ELSE [kind |-> IF robots.allowed THEN "allow" ELSE "refused", contacts |-> robots.contacts]

-----------------------------------------------------------------------------
(* The search of a site for its feeds.                                       *)

\* The declared alternates of a page, without comment feeds, at most MaxLinks.
_extract_feed_links(reply) ==
  LET good == SelectSeq(reply.links, LAMBDA l : l.alternate /\ l.feedType /\ ~is_comment_feed(l.to))
      new  == {i \in DOMAIN good : \A j \in 1..(i-1) : good[j].to # good[i].to}
  IN {good[i].to : i \in {k \in new : Cardinality({j \in new : j < k}) < MaxLinks}}

\* Comment feeds are refused before the request, a redirect to one too.
GatedFetch(w, u) ==
  LET Article(v) == IF is_comment_feed(v) THEN [kind |-> "comment", contacts |-> {}]
                    ELSE make_gate(w, v, TRUE)
  IN fetch_with_cap(w, u, [v \in Hops(w, u) |-> Article(v)], TRUE)

Found(feeds, contacts) == [kind |-> "ok", feeds |-> feeds, contacts |-> contacts]
\* Of the addresses tried, those that answer with a feed.
FeedsAmong(got) ==
  Found({u \in DOMAIN got : got[u].kind = "ok" /\ got[u].reply.feed},
        UNION {got[u].contacts : u \in DOMAIN got})
Fallbacks(url) == {[Root(url) EXCEPT !.path = p.path, !.slash = p.slash] : p \in FallbackPaths}

\* The search after the first answer: the page itself, its links, the usual paths.
FirstOf(links, usual) ==
  IF links.feeds # {} THEN links
  ELSE Found(usual.feeds, links.contacts \cup usual.contacts)
SearchSite(w, url, reply) ==
  IF reply.feedType /\ reply.feed THEN Found({url}, {})
  ELSE FirstOf(FeedsAmong([u \in _extract_feed_links(reply) |-> GatedFetch(w, u)]),
               FeedsAmong([u \in Fallbacks(url) |-> GatedFetch(w, u)]))
SearchFrom(w, url, first) ==
  CASE first.kind = "comment" -> Found({}, first.contacts)
    [] first.kind = "ok" -> [SearchSite(w, url, first.reply) EXCEPT !.contacts = @ \cup first.contacts]
    [] OTHER -> [kind |-> "error", contacts |-> first.contacts]

\* What discover_feeds contacts and finds; "error" when the first fetch fails.
discover_feeds(w, url) ==
  CASE ~Valid(w, url) -> [kind |-> "error", contacts |-> {}]
    [] Valid(w, url) /\ is_comment_feed(url) -> Found({}, {})
    [] OTHER -> SearchFrom(w, url, GatedFetch(w, url))
=============================================================================
