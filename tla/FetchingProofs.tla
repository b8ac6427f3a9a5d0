--------------------------- MODULE FetchingProofs ---------------------------
(***************************************************************************)
(* What a request may contact, for every web, every chain of redirects and *)
(* every limit of redirects: each connection passed the gate of its own    *)
(* hop.  The chain is a function defined by recursion on the hops that are *)
(* left; that it exists, and what holds at all of its hops, is shown by    *)
(* the least hop count at which it would fail.                             *)
(***************************************************************************)
EXTENDS Fetching, WellFoundedInduction, NaturalsInduction, TLAPS

-----------------------------------------------------------------------------
(* The chain of a fetch.                                                     *)

\* A set of numbers that is not empty has a least one.
LEMMA LeastOf ==
  ASSUME NEW S \in SUBSET Nat, S # {}
  PROVE  \E m \in S : \A k \in S : m <= k
<1>1. PICK m \in S : \A k \in S : ~(<<k, m>> \in OpToRel(<, Nat))
  BY NatLessThanWellFounded, WFMin
<1>2. \A k \in S : ~(k < m)
  BY <1>1 DEF OpToRel
<1> QED BY <1>2

\* One row of the chain, from the next one.
HopRow(w, start, allow, main, n, onward) ==
  [url \in Hops(w, start) |-> Fetched(w, url, n, allow, main, onward)]
\* A chain is right from hop n on.
RightFrom(w, start, allow, main, n, f) ==
  /\ f = [k \in 0..MaxRedirects + 1 |-> f[k]]
  /\ \A k \in n..MaxRedirects + 1 : f[k] = HopRow(w, start, allow, main, k, f[k + 1])

\* The last row of a chain does not look further.
LEMMA LastRow ==
  ASSUME NEW w, NEW start, NEW allow, NEW main, NEW f, NEW g
  PROVE  HopRow(w, start, allow, main, MaxRedirects + 1, f) = HopRow(w, start, allow, main, MaxRedirects + 1, g)
<1>1. MaxRedirects + 1 > MaxRedirects
  BY FetchAssumption DEF FetchAssumption
<1> QED BY <1>1 DEF HopRow, Fetched

\* There is a chain: were there none right from some hop on, there would be a last such hop.
LEMMA ChainExists ==
  ASSUME NEW w, NEW start, NEW allow, NEW main
  PROVE  \E f : RightFrom(w, start, allow, main, 0, f)
<1> DEFINE N == MaxRedirects + 1
<1> DEFINE Good(k) == \E f : RightFrom(w, start, allow, main, N - k, f)
<1> DEFINE Bad == {k \in 0..N : ~Good(k)}
<1>1. N \in Nat
  BY FetchAssumption DEF FetchAssumption
<1>2. SUFFICES Bad = {}
  <2>1. N - N = 0 /\ N \in 0..N
    BY <1>1
  <2> HIDE DEF N
  <2> QED BY <2>1
<1>3. SUFFICES ASSUME Bad # {} PROVE FALSE
  OBVIOUS
<1>4. PICK k \in Bad : \A j \in Bad : k <= j
  <2>1. Bad \in SUBSET Nat
    BY <1>1
  <2> HIDE DEF Bad
  <2> QED BY <1>3, <2>1, LeastOf
<1>5. k \in 0..N /\ ~Good(k)
  OBVIOUS
<1>6. CASE k = 0
  <2> DEFINE f == [j \in 0..N |-> HopRow(w, start, allow, main, N, 0)]
  <2>1. f[N] = HopRow(w, start, allow, main, N, f[N + 1])
    BY <1>1, LastRow
  <2>2. N - k = N /\ \A j \in N..N : j = N
    BY <1>1, <1>6
  <2>3. f = [j \in 0..N |-> f[j]]
    OBVIOUS
  <2> HIDE DEF f
  <2>4. RightFrom(w, start, allow, main, N - k, f)
    BY <2>1, <2>2, <2>3 DEF RightFrom
  <2> QED BY <1>5, <2>4
<1>7. CASE k # 0
  <2>1. k - 1 \in 0..N /\ ~(k <= k - 1)
    BY <1>1, <1>5, <1>7
  <2>2. PICK f : RightFrom(w, start, allow, main, N - (k - 1), f)
    BY <1>4, <2>1
  <2>3. PICK n : n = N - k
    OBVIOUS
  <2>4. n \in 0..N /\ n + 1 \in 0..N /\ N - (k - 1) = n + 1 /\ n < N
    BY <1>1, <1>5, <1>7, <2>3
  <2> DEFINE g == [j \in 0..N |-> IF j = n THEN HopRow(w, start, allow, main, n, f[n + 1]) ELSE f[j]]
  <2>5. ASSUME NEW j \in n..N PROVE g[j] = HopRow(w, start, allow, main, j, g[j + 1])
    <3>1. CASE j = n
      BY <2>4, <3>1
    <3>2. CASE j # n /\ j # N
      <4>1. j \in n + 1..N /\ j + 1 \in 0..N /\ j \in 0..N /\ j # n /\ j + 1 # n
        BY <1>1, <2>4, <3>2
      <4>2. f[j] = HopRow(w, start, allow, main, j, f[j + 1])
        BY <2>2, <2>4, <4>1 DEF RightFrom
      <4> QED BY <4>1, <4>2
    <3>3. CASE j = N
      <4>1. g[j] = f[j]
        BY <1>1, <2>4, <3>3
      <4>2. f[j] = HopRow(w, start, allow, main, N, f[N + 1])
        BY <1>1, <2>2, <2>4, <3>3 DEF RightFrom
      <4>3. HopRow(w, start, allow, main, N, f[N + 1]) = HopRow(w, start, allow, main, N, g[N + 1])
        BY LastRow
      <4> HIDE DEF g, N
      <4> QED BY <3>3, <4>1, <4>2, <4>3
    <3> QED BY <3>1, <3>2, <3>3
  <2>6. g = [j \in 0..N |-> g[j]]
    OBVIOUS
  <2> HIDE DEF g
  <2>7. RightFrom(w, start, allow, main, n, g)
    BY <2>5, <2>6 DEF RightFrom
  <2> QED BY <1>5, <2>3, <2>7
<1> QED BY <1>6, <1>7

\* A fetch is the first hop of a chain that is right throughout.
LEMMA FetchIsChain ==
  ASSUME NEW w, NEW start, NEW allow, NEW main
  PROVE  \E f : /\ RightFrom(w, start, allow, main, 0, f)
                /\ fetch_with_cap(w, start, allow, main) = f[0][start]
<1> DEFINE hop == CHOOSE f : f = [n \in 0..MaxRedirects + 1 |->
                    [url \in Hops(w, start) |-> Fetched(w, url, n, allow, main, f[n + 1])]]
<1>1. fetch_with_cap(w, start, allow, main) = hop[0][start]
  BY DEF fetch_with_cap
<1>2. PICK f : RightFrom(w, start, allow, main, 0, f)
  BY ChainExists
<1>3. f = [n \in 0..MaxRedirects + 1 |->
            [url \in Hops(w, start) |-> Fetched(w, url, n, allow, main, f[n + 1])]]
  BY <1>2 DEF RightFrom, HopRow
<1>4. hop = [n \in 0..MaxRedirects + 1 |->
              [url \in Hops(w, start) |-> Fetched(w, url, n, allow, main, hop[n + 1])]]
  BY <1>3
<1> HIDE DEF hop
<1>5. RightFrom(w, start, allow, main, 0, hop)
  BY <1>4 DEF RightFrom, HopRow
<1> QED BY <1>1, <1>5

-----------------------------------------------------------------------------
(* What a fetch contacts.                                                    *)

\* A connection goes to a public address, and if it is made for the page itself, to a
\* host that is not denied and an address that is permitted and not of comments.
Allowed(c) ==
  /\ c.ip.public
  /\ c.main => /\ ~is_denied_host(normalize_host(c.url))
               /\ c.permitted /\ ~is_comment_feed(c.url)
\* A result with such connections only.
Clean(r) == {"kind", "contacts"} \subseteq DOMAIN r /\ \A c \in r.contacts : Allowed(c)
\* Gates that let only such connections through.
Guards(w, start, allow, main) ==
  \A url \in Hops(w, start) :
    /\ Clean(allow[url])
    /\ allow[url].kind = "allow" /\ main =>
         /\ ~is_denied_host(normalize_host(url))
         /\ Permits(w, url) /\ ~is_comment_feed(url)

\* A connection is made to a public address of the host only, and says what it is for;
\* its answer is the server's.
LEMMA ConnectionsPublic ==
  ASSUME NEW w, NEW url, NEW main
  PROVE  LET got == handle_async_request(w, url, main)
         IN /\ \A c \in got.contacts : /\ c.ip.public /\ c.url = url /\ c.main = main
                                       /\ c.permitted = Permits(w, url)
            /\ got.reply.kind \in {"redirect", "ok", "http4"} => got.reply = Reply(w, url)
<1> DEFINE ips == w.pinned[url.host]
<1> DEFINE got == handle_async_request(w, url, main)
<1>1. CASE ~Public(ips)
  <2>1. got = [reply |-> [kind |-> "refused"], contacts |-> {}]
    BY <1>1 DEF handle_async_request
  <2> QED BY <2>1
<1>2. CASE Public(ips)
  <2>1. got = Connect(w, url, main, ips)
    BY <1>2 DEF handle_async_request
  <2>2. ASSUME NEW c \in got.contacts
        PROVE  c.ip.public /\ c.url = url /\ c.main = main /\ c.permitted = Permits(w, url)
    <3>1. PICK i \in DOMAIN ips : c = [ip |-> ips[i], url |-> url, main |-> main, permitted |-> Permits(w, url)]
      BY <2>1 DEF Connect, _pick_pinned_ips
    <3>2. ips[i].public
      BY <1>2 DEF Public
    <3> HIDE DEF ips
    <3> QED BY <3>1, <3>2
  <2>3. got.reply = [kind |-> "transport"] \/ got.reply = Reply(w, url)
    BY <2>1 DEF Connect
  <2>4. got.reply.kind \in {"redirect", "ok", "http4"} => got.reply = Reply(w, url)
    BY <2>3
  <2> QED BY <2>2, <2>4
<1> QED BY <1>1, <1>2

\* A redirect leads to an address whose gate is known.
LEMMA RedirectsAreHops ==
  ASSUME NEW w, NEW start, NEW url, Reply(w, url).kind = "redirect"
  PROVE  Reply(w, url).to \in Hops(w, start)
<1>1. url \in DOMAIN w.page /\ Reply(w, url) = w.page[url]
  BY DEF Reply, NotFound
<1> QED BY <1>1 DEF Hops, Redirected

\* A fetch contacts only what its gates let through, redirects included.
LEMMA FetchesAreClean ==
  ASSUME NEW w, NEW start, NEW allow, NEW main \in BOOLEAN, Guards(w, start, allow, main)
  PROVE  Clean(fetch_with_cap(w, start, allow, main))
<1> DEFINE N == MaxRedirects + 1
<1>1. PICK f : /\ RightFrom(w, start, allow, main, 0, f)
               /\ fetch_with_cap(w, start, allow, main) = f[0][start]
  BY FetchIsChain
<1> DEFINE Bad == {k \in 0..N : \E url \in Hops(w, start) : ~Clean(f[N - k][url])}
<1>2. N \in Nat /\ N - N = 0 /\ N \in 0..N
  BY FetchAssumption DEF FetchAssumption
<1>3. SUFFICES ASSUME Bad # {} PROVE FALSE
  BY <1>1, <1>2 DEF Hops
<1>4. PICK k \in Bad : \A j \in Bad : k <= j
  <2>1. Bad \in SUBSET Nat
    BY <1>2
  <2> HIDE DEF Bad
  <2> QED BY <1>3, <2>1, LeastOf
<1>5. PICK url \in Hops(w, start) : ~Clean(f[N - k][url])
  OBVIOUS
<1>6. PICK n : n = N - k
  OBVIOUS
<1>7. k \in 0..N /\ n \in 0..N
  BY <1>2, <1>6
<1>8. f[n][url] = Fetched(w, url, n, allow, main, f[n + 1])
  BY <1>1, <1>7 DEF RightFrom, HopRow
<1>9. ASSUME n <= MaxRedirects, NEW to \in Hops(w, start) PROVE Clean(f[n + 1][to])
  <2>1. k - 1 \in 0..N /\ ~(k <= k - 1) /\ N - (k - 1) = n + 1
    BY <1>2, <1>6, <1>7, <1>9, FetchAssumption DEF FetchAssumption
  <2> QED BY <1>4, <1>9, <2>1
<1> HIDE DEF N, Bad
<1>10. CASE n > MaxRedirects \/ ~Valid(w, url)
  <2>1. f[n][url] = [kind |-> "refused", contacts |-> {}]
    BY <1>8, <1>10 DEF Fetched
  <2>2. Clean([kind |-> "refused", contacts |-> {}])
    BY DEF Clean
  <2> QED BY <1>5, <1>6, <2>1, <2>2
<1>11. CASE ~(n > MaxRedirects \/ ~Valid(w, url))
  <2> DEFINE got == handle_async_request(w, url, main)
  <2> DEFINE made == allow[url].contacts \cup got.contacts
  <2>1. f[n][url] = Passed(allow[url], got, f[n + 1])
    BY <1>8, <1>11 DEF Fetched
  <2>2. Clean(allow[url])
    BY DEF Guards
  <2>3. CASE allow[url].kind # "allow"
    BY <1>5, <1>6, <2>1, <2>2, <2>3 DEF Passed
  <2>4. CASE allow[url].kind = "allow"
    <3>1. f[n][url] = Answered(got.reply, made, f[n + 1])
      BY <2>1, <2>4 DEF Passed
    <3>2. \A c \in got.contacts : Allowed(c)
      BY <2>4, ConnectionsPublic DEF Guards, Allowed
    <3>3. \A c \in made : Allowed(c)
      BY <2>2, <3>2 DEF Clean
    <3>4. CASE got.reply.kind = "redirect"
      <4>1. got.reply.to \in Hops(w, start)
        BY <3>4, ConnectionsPublic, RedirectsAreHops
      <4>2. Clean(f[n + 1][got.reply.to])
        BY <1>7, <1>9, <1>11, <4>1, <1>2, FetchAssumption DEF FetchAssumption
      <4>3. f[n][url] = [f[n + 1][got.reply.to] EXCEPT !.contacts = @ \cup made]
        BY <3>1, <3>4 DEF Answered
      <4>4. Clean(f[n][url])
        <5> HIDE DEF made
        <5> QED BY <3>3, <4>2, <4>3 DEF Clean
      <4> QED BY <1>5, <1>6, <4>4
    <3>5. CASE got.reply.kind # "redirect"
      <4>1. \E kind, reply : \/ f[n][url] = [kind |-> kind, contacts |-> made]
                             \/ f[n][url] = [kind |-> kind, contacts |-> made, reply |-> reply]
        <5> HIDE DEF made, got
        <5>1. CASE got.reply.kind \in {"nolocation", "http304", "big", "refused"}
          BY <3>1, <3>5, <5>1 DEF Answered
        <5>2. CASE got.reply.kind = "ok"
          BY <3>1, <3>5, <5>2 DEF Answered
        <5>3. CASE got.reply.kind \notin {"nolocation", "http304", "big", "refused", "ok"}
          BY <3>1, <3>5, <5>3 DEF Answered
        <5> QED BY <5>1, <5>2, <5>3
      <4>2. Clean(f[n][url])
        <5> HIDE DEF made
        <5> QED BY <3>3, <4>1 DEF Clean
      <4> QED BY <1>5, <1>6, <4>2
    <3> QED BY <3>4, <3>5
  <2> QED BY <2>3, <2>4
<1> QED BY <1>10, <1>11

-----------------------------------------------------------------------------
(* What robots.txt says.                                                     *)

\* A final answer of a fetch that began at url is the reply of a page of its chain.
Final(w, start, url, r) ==
  /\ {"kind", "contacts"} \subseteq DOMAIN r /\ (r.kind = "ok" => "reply" \in DOMAIN r)
  /\ r.kind \in {"ok", "http4"} =>
       \E u \in Hops(w, start) :
         /\ \A S \in SUBSET Hops(w, start) : url \in S /\ Follows(w, S) => u \in S
         /\ Reply(w, u).kind = r.kind /\ (r.kind = "ok" => Reply(w, u) = r.reply)

\* Without a gate, a fetch ends with the reply of a page of its chain.
LEMMA FetchesAreFinal ==
  ASSUME NEW w, NEW start, NEW main
  PROVE  Final(w, start, start, fetch_with_cap(w, start, Ungated(w, start), main))
<1> DEFINE N == MaxRedirects + 1
<1> DEFINE allow == Ungated(w, start)
<1>1. PICK f : /\ RightFrom(w, start, allow, main, 0, f)
               /\ fetch_with_cap(w, start, allow, main) = f[0][start]
  BY FetchIsChain
<1> DEFINE Bad == {k \in 0..N : \E url \in Hops(w, start) : ~Final(w, start, url, f[N - k][url])}
<1>2. N \in Nat /\ N - N = 0 /\ N \in 0..N
  BY FetchAssumption DEF FetchAssumption
<1>3. SUFFICES ASSUME Bad # {} PROVE FALSE
  BY <1>1, <1>2 DEF Hops
<1>4. PICK k \in Bad : \A j \in Bad : k <= j
  <2>1. Bad \in SUBSET Nat
    BY <1>2
  <2> HIDE DEF Bad
  <2> QED BY <1>3, <2>1, LeastOf
<1>5. PICK url \in Hops(w, start) : ~Final(w, start, url, f[N - k][url])
  OBVIOUS
<1>6. PICK n : n = N - k
  OBVIOUS
<1>7. k \in 0..N /\ n \in 0..N
  BY <1>2, <1>6
<1>8. f[n][url] = Fetched(w, url, n, allow, main, f[n + 1])
  BY <1>1, <1>7 DEF RightFrom, HopRow
<1>9. ASSUME n <= MaxRedirects, NEW to \in Hops(w, start) PROVE Final(w, start, to, f[n + 1][to])
  <2>1. k - 1 \in 0..N /\ ~(k <= k - 1) /\ N - (k - 1) = n + 1
    BY <1>2, <1>6, <1>7, <1>9, FetchAssumption DEF FetchAssumption
  <2> QED BY <1>4, <1>9, <2>1
<1>10. allow[url].kind = "allow" /\ allow[url].contacts = {}
  BY DEF Ungated
<1> HIDE DEF N, Bad, allow
<1>11. CASE n > MaxRedirects \/ ~Valid(w, url)
  <2>1. f[n][url] = [kind |-> "refused", contacts |-> {}]
    BY <1>8, <1>11 DEF Fetched
  <2>2. Final(w, start, url, [kind |-> "refused", contacts |-> {}])
    BY DEF Final
  <2> QED BY <1>5, <1>6, <2>1, <2>2
<1>12. CASE ~(n > MaxRedirects \/ ~Valid(w, url))
  <2> DEFINE got == handle_async_request(w, url, main)
  <2> DEFINE made == allow[url].contacts \cup got.contacts
  <2>1. f[n][url] = Answered(got.reply, made, f[n + 1])
    BY <1>8, <1>10, <1>12 DEF Fetched, Passed
  <2>2. got.reply.kind \in {"redirect", "ok", "http4"} => got.reply = Reply(w, url)
    BY ConnectionsPublic
  <2> HIDE DEF got, made
  <2>3. CASE got.reply.kind = "redirect"
    <3>1. PICK to : to = got.reply.to
      OBVIOUS
    <3>2. to \in Hops(w, start) /\ Reply(w, url).kind = "redirect" /\ Reply(w, url).to = to
      BY <2>2, <2>3, <3>1, RedirectsAreHops
    <3>3. Final(w, start, to, f[n + 1][to])
      BY <1>2, <1>7, <1>9, <1>12, <3>2, FetchAssumption DEF FetchAssumption
    <3>4. f[n][url] = [f[n + 1][to] EXCEPT !.contacts = @ \cup made]
      BY <2>1, <2>3, <3>1 DEF Answered
    <3>5. /\ DOMAIN f[n][url] = DOMAIN f[n + 1][to] /\ f[n][url].kind = f[n + 1][to].kind
          /\ f[n + 1][to].kind = "ok" => f[n][url].reply = f[n + 1][to].reply
      BY <3>3, <3>4 DEF Final
    <3>6. \A S \in SUBSET Hops(w, start) : url \in S /\ Follows(w, S) => to \in S
      BY <3>2 DEF Follows
    <3>7. Final(w, start, url, f[n][url])
      BY <3>3, <3>5, <3>6 DEF Final
    <3> QED BY <1>5, <1>6, <3>7
  <2>4. CASE got.reply.kind = "ok"
    <3>1. f[n][url] = [kind |-> "ok", contacts |-> made, reply |-> Reply(w, url)]
      BY <2>1, <2>2, <2>4 DEF Answered
    <3>2. Reply(w, url).kind = "ok"
      BY <2>2, <2>4
    <3>3. Final(w, start, url, f[n][url])
      BY <3>1, <3>2 DEF Final
    <3> QED BY <1>5, <1>6, <3>3
  <2>5. CASE got.reply.kind \notin {"redirect", "ok"}
    <3>1. PICK kind : /\ f[n][url] = [kind |-> kind, contacts |-> made]
                      /\ kind = "refused" \/ kind = got.reply.kind
      BY <2>1, <2>5 DEF Answered
    <3>2. kind \in {"ok", "http4"} => kind = "http4" /\ Reply(w, url).kind = "http4"
      BY <2>2, <2>5, <3>1
    <3>3. Final(w, start, url, f[n][url])
      BY <3>1, <3>2 DEF Final
    <3> QED BY <1>5, <1>6, <3>3
  <2> QED BY <2>3, <2>4, <2>5
<1> QED BY <1>11, <1>12

\* A check of robots.txt contacts public addresses, and allows only what is permitted.
LEMMA RobotsChecked ==
  ASSUME NEW w, NEW url
  PROVE  /\ \A c \in robots_check(w, url).contacts : Allowed(c)
         /\ robots_check(w, url).allowed => Permits(w, url)
<1> DEFINE start == robots_txt(url)
<1> DEFINE r == fetch_with_cap(w, start, Ungated(w, start), FALSE)
<1>0. CASE Kept(w, url)
  <2> DEFINE last == w.kept[Root(url)]
  <2> DEFINE m == Remembered(last)
  <2>1. m.kind = last.kind /\ m.reply = last /\ m.contacts = {}
    BY DEF Remembered
  <2> HIDE DEF m, last
  <2>2. /\ robots_check(w, url).contacts = m.contacts
        /\ robots_check(w, url).allowed <=> m.kind = "http4" \/ (m.kind = "ok" /\ url \notin m.reply.deny)
    BY <1>0 DEF robots_check, Rules, m, last
  <2>3. robots_check(w, url).contacts = {}
    BY <2>1, <2>2
  <2>4. robots_check(w, url).allowed => Grants(last, url)
    BY <2>1, <2>2 DEF Grants
  <2> QED BY <1>0, <2>3, <2>4 DEF Permits, last
<1> SUFFICES ASSUME ~Kept(w, url)
             PROVE  /\ \A c \in robots_check(w, url).contacts : Allowed(c)
                    /\ robots_check(w, url).allowed => Permits(w, url)
  BY <1>0
<1>1. /\ robots_check(w, url).contacts = r.contacts
      /\ robots_check(w, url).allowed <=> r.kind = "http4" \/ (r.kind = "ok" /\ url \notin r.reply.deny)
  BY DEF robots_check, Rules
<1>2. Guards(w, start, Ungated(w, start), FALSE)
  BY DEF Guards, Ungated, Clean
<1>3. Clean(r)
  BY <1>2, FetchesAreClean
<1>4. Final(w, start, start, r)
  BY FetchesAreFinal
<1>5. ASSUME robots_check(w, url).allowed PROVE Permits(w, url)
  <2>1. PICK u \in Chain(w, start) : Reply(w, u).kind = r.kind /\ (r.kind = "ok" => Reply(w, u) = r.reply)
    BY <1>1, <1>4, <1>5 DEF Final, Chain
  <2>2. Reply(w, u).kind = "http4" \/ (Reply(w, u).kind = "ok" /\ url \notin Reply(w, u).deny)
    BY <1>1, <1>5, <2>1
  <2> QED BY <2>2 DEF Permits, Grants
<1> QED BY <1>1, <1>3, <1>5 DEF Clean

\* The same of what the crawl is told, which asks robots.txt if it is set to.
LEMMA DecisionChecked ==
  ASSUME NEW w, NEW url
  PROVE  /\ \A c \in robots_decision(w, url).contacts : Allowed(c)
         /\ robots_decision(w, url).allowed => Permits(w, url)
<1>1. CASE w.respect
  BY <1>1, RobotsChecked DEF robots_decision
<1>2. CASE ~w.respect
  <2>1. robots_decision(w, url).contacts = {}
    BY <1>2 DEF robots_decision
  <2> QED BY <1>2, <2>1 DEF Permits
<1> QED BY <1>1, <1>2

-----------------------------------------------------------------------------
(* The search of a site.                                                     *)

\* A result is clean when what it lists is.
LEMMA ListedClean ==
  ASSUME NEW kind, NEW contacts, \A c \in contacts : Allowed(c)
  PROVE  /\ Clean([kind |-> kind, contacts |-> contacts])
         /\ [kind |-> kind, contacts |-> contacts].kind = kind
BY DEF Clean

\* The gate of the crawl refuses a denied host and what robots.txt forbids.
LEMMA GateGuards ==
  ASSUME NEW w, NEW url
  PROVE  /\ Clean(make_gate(w, url, TRUE))
         /\ make_gate(w, url, TRUE).kind = "allow" =>
              ~is_denied_host(normalize_host(url)) /\ Permits(w, url)
<1> DEFINE robots == robots_decision(w, url)
<1>1. CASE normalize_host(url) = None \/ is_denied_host(normalize_host(url))
  <2>1. PICK kind, contacts : kind = "refused" /\ contacts = {}
    OBVIOUS
  <2>2. make_gate(w, url, TRUE) = [kind |-> kind, contacts |-> contacts]
    BY <1>1, <2>1 DEF make_gate
  <2>3. \A c \in contacts : Allowed(c)
    BY <2>1
  <2>4. Clean(make_gate(w, url, TRUE)) /\ make_gate(w, url, TRUE).kind = kind
    BY <2>2, <2>3, ListedClean
  <2> QED BY <2>1, <2>4
<1>2. CASE ~(normalize_host(url) = None \/ is_denied_host(normalize_host(url)))
  <2>1. PICK kind : kind = IF robots.allowed THEN "allow" ELSE "refused"
    OBVIOUS
  <2>2. make_gate(w, url, TRUE) = [kind |-> kind, contacts |-> robots.contacts]
    BY <1>2, <2>1 DEF make_gate
  <2>3. \A c \in robots.contacts : Allowed(c)
    BY DecisionChecked
  <2>4. kind = "allow" => Permits(w, url)
    BY <2>1, DecisionChecked
  <2> HIDE DEF robots
  <2>5. Clean(make_gate(w, url, TRUE)) /\ make_gate(w, url, TRUE).kind = kind
    BY <2>2, <2>3, ListedClean
  <2> QED BY <1>2, <2>4, <2>5
<1> QED BY <1>1, <1>2

\* Every page of a search is fetched through the gate, and no feed of comments is.
LEMMA GatedFetchesAreClean ==
  ASSUME NEW w, NEW url
  PROVE  Clean(GatedFetch(w, url))
<1> DEFINE Article(v) == IF is_comment_feed(v) THEN [kind |-> "comment", contacts |-> {}]
                         ELSE make_gate(w, v, TRUE)
<1> DEFINE allow == [v \in Hops(w, url) |-> Article(v)]
<1>1. Guards(w, url, allow, TRUE)
  <2>1. ASSUME NEW v \in Hops(w, url)
        PROVE  /\ Clean(allow[v])
               /\ allow[v].kind = "allow" => /\ ~is_denied_host(normalize_host(v))
                                             /\ Permits(w, v) /\ ~is_comment_feed(v)
    <3>1. CASE is_comment_feed(v)
      <4>1. allow[v] = [kind |-> "comment", contacts |-> {}]
        BY <3>1
      <4>2. Clean(allow[v]) /\ allow[v].kind = "comment"
        <5> HIDE DEF allow
        <5> QED BY <4>1, ListedClean
      <4> QED BY <4>2
    <3>2. CASE ~is_comment_feed(v)
      <4>1. allow[v] = make_gate(w, v, TRUE)
        BY <3>2
      <4> QED BY <3>2, <4>1, GateGuards
    <3> QED BY <3>1, <3>2
  <2> HIDE DEF allow
  <2> QED BY <2>1 DEF Guards
<1>2. GatedFetch(w, url) = fetch_with_cap(w, url, allow, TRUE)
  BY DEF GatedFetch
<1> HIDE DEF allow
<1> QED BY <1>1, <1>2, FetchesAreClean

\* A search of a site contacts only what its gates let through.
THEOREM SearchesAreClean ==
  ASSUME NEW w, NEW url
  PROVE  \A c \in discover_feeds(w, url).contacts : Allowed(c)
<1>1. ASSUME NEW S
      PROVE  \A c \in FeedsAmong([u \in S |-> GatedFetch(w, u)]).contacts : Allowed(c)
  <2>1. \A u \in S : \A c \in GatedFetch(w, u).contacts : Allowed(c)
    BY GatedFetchesAreClean DEF Clean
  <2> QED BY <2>1 DEF FeedsAmong, Found
<1>2. ASSUME NEW reply PROVE \A c \in SearchSite(w, url, reply).contacts : Allowed(c)
  <2> DEFINE links == FeedsAmong([u \in _extract_feed_links(reply) |-> GatedFetch(w, u)])
  <2> DEFINE usual == FeedsAmong([u \in Fallbacks(url) |-> GatedFetch(w, u)])
  <2>1. /\ \A c \in links.contacts : Allowed(c)
        /\ \A c \in usual.contacts : Allowed(c)
    BY <1>1
  <2>2. SearchSite(w, url, reply) = IF reply.feedType /\ reply.feed THEN Found({url}, {}) ELSE FirstOf(links, usual)
    BY DEF SearchSite
  <2> HIDE DEF links, usual
  <2> QED BY <2>1, <2>2 DEF FirstOf, Found
<1> DEFINE first == GatedFetch(w, url)
<1>3. \A c \in first.contacts : Allowed(c)
  BY GatedFetchesAreClean DEF Clean
<1>4. \A c \in SearchFrom(w, url, first).contacts : Allowed(c)
  <2>1. CASE first.kind = "comment"
    BY <1>3, <2>1 DEF SearchFrom, Found
  <2>2. CASE first.kind = "ok"
    <3> DEFINE site == SearchSite(w, url, first.reply)
    <3>1. \E feeds, contacts : site = Found(feeds, contacts)
      BY DEF SearchSite, FirstOf, FeedsAmong, Found
    <3>2. \A c \in site.contacts : Allowed(c)
      BY <1>2
    <3>3. SearchFrom(w, url, first) = [site EXCEPT !.contacts = site.contacts \cup first.contacts]
      BY <2>2, <3>1 DEF SearchFrom, Found
    <3> HIDE DEF site, first
    <3>4. SearchFrom(w, url, first).contacts = site.contacts \cup first.contacts
      BY <3>1, <3>3 DEF Found
    <3> QED BY <1>3, <3>2, <3>4
  <2>3. CASE first.kind \notin {"comment", "ok"}
    BY <1>3, <2>3 DEF SearchFrom
  <2> QED BY <2>1, <2>2, <2>3
<1> HIDE DEF first
<1>5. CASE ~Valid(w, url)
  <2>1. discover_feeds(w, url) = [kind |-> "error", contacts |-> {}]
    BY <1>5 DEF discover_feeds
  <2> QED BY <2>1
<1>6. CASE Valid(w, url) /\ is_comment_feed(url)
  BY <1>6 DEF discover_feeds, Found
<1>7. CASE Valid(w, url) /\ ~is_comment_feed(url)
  BY <1>4, <1>7 DEF discover_feeds, first
<1> QED BY <1>5, <1>6, <1>7

-----------------------------------------------------------------------------
(* Addresses.                                                                *)

Hostname == Seq(STRING) \ {<<>>}

\* One label sequence ends another when their labels agree, counted from the end.
LEMMA SuffixLabels ==
  ASSUME NEW s \in Seq(STRING), NEW h \in Seq(STRING)
  PROVE  IsSuffix(s, h) <=> /\ Len(s) <= Len(h)
                            /\ \A i \in 1..Len(s) : s[Len(s) - i + 1] = h[Len(h) - i + 1]
<1> DEFINE r == Reverse(s)
           q == Reverse(h)
<1>1. Len(s) \in Nat /\ Len(h) \in Nat /\ DOMAIN s = 1..Len(s) /\ DOMAIN h = 1..Len(h)
  OBVIOUS
<1>2. /\ r \in [1..Len(s) -> STRING] /\ \A i \in 1..Len(s) : r[i] = s[Len(s) - i + 1]
  BY <1>1 DEF Reverse
<1>3. /\ q \in [1..Len(h) -> STRING] /\ \A i \in 1..Len(h) : q[i] = h[Len(h) - i + 1]
  BY <1>1 DEF Reverse
<1>4. IsSuffix(s, h) <=> Len(r) <= Len(q) /\ SubSeq(r, 1, Len(r)) = SubSeq(q, 1, Len(r))
  BY DEF IsSuffix, IsPrefix
<1> HIDE DEF r, q
<1>5. r \in Seq(STRING) /\ q \in Seq(STRING)
  <2>1. \A n \in Nat : \A f \in [1..n -> STRING] : f \in Seq(STRING)
    OBVIOUS
  <2> QED BY <1>1, <1>2, <1>3, <2>1
<1>6. Len(r) = Len(s) /\ Len(q) = Len(h)
  BY <1>1, <1>2, <1>3, <1>5
<1>7. ASSUME Len(s) <= Len(h)
      PROVE  SubSeq(r, 1, Len(r)) = SubSeq(q, 1, Len(r)) <=> \A i \in 1..Len(s) : r[i] = q[i]
  <2>1. /\ SubSeq(r, 1, Len(r)) = [i \in 1..Len(s) |-> r[i]]
        /\ SubSeq(q, 1, Len(r)) = [i \in 1..Len(s) |-> q[i]]
    BY <1>1, <1>5, <1>6, <1>7
  <2> QED BY <2>1
<1> QED BY <1>1, <1>2, <1>3, <1>4, <1>6, <1>7

\* The last labels of a host are a host.
LEMMA LastOfHost ==
  ASSUME NEW h \in Seq(STRING), NEW n \in Nat, n <= Len(h)
  PROVE  /\ LastLabels(h, n) \in Seq(STRING) /\ Len(LastLabels(h, n)) = n
         /\ \A i \in 1..n : LastLabels(h, n)[i] = h[Len(h) - n + i]
BY DEF LastLabels

\* The last two labels of the last three are the last two, and all of them are all.
LEMMA LastOfLast ==
  ASSUME NEW h \in Seq(STRING), NEW n \in Nat, NEW m \in Nat, m <= n, n <= Len(h)
  PROVE  LastLabels(LastLabels(h, n), m) = LastLabels(h, m)
<1> DEFINE k == LastLabels(h, n)
           x == LastLabels(k, m)
           y == LastLabels(h, m)
<1>1. k \in Seq(STRING) /\ Len(k) = n /\ \A i \in 1..n : k[i] = h[Len(h) - n + i]
  BY LastOfHost
<1>2. x \in Seq(STRING) /\ Len(x) = m /\ \A i \in 1..m : x[i] = k[n - m + i]
  <2> HIDE DEF k
  <2> QED BY <1>1, LastOfHost
<1>4. Len(h) \in Nat /\ m <= Len(h)
  OBVIOUS
<1>3. y \in Seq(STRING) /\ Len(y) = m /\ \A i \in 1..m : y[i] = h[Len(h) - m + i]
  BY <1>4, LastOfHost
<1>5. ASSUME NEW i \in 1..m PROVE x[i] = y[i]
  <2>1. n - m + i \in 1..n /\ Len(h) - n + (n - m + i) = Len(h) - m + i
    BY <1>4
  <2>2. k[n - m + i] = h[Len(h) - n + (n - m + i)]
    BY <1>1, <2>1
  <2> QED BY <1>2, <1>3, <2>1, <2>2
<1> HIDE DEF k, x, y
<1>6. x = y
  BY <1>2, <1>3, <1>5
<1> QED BY <1>6 DEF x, y, k

\* What ends the last labels of a host ends the host.
LEMMA BelowLast ==
  ASSUME NEW h \in Seq(STRING), NEW n \in Nat, n <= Len(h), NEW S \in SUBSET Seq(STRING),
         Below(LastLabels(h, n), S)
  PROVE  Below(h, S)
<1> DEFINE k == LastLabels(h, n)
<1>1. k \in Seq(STRING) /\ Len(k) = n /\ \A i \in 1..n : k[i] = h[Len(h) - n + i]
  BY LastOfHost
<1> HIDE DEF k
<1>2. PICK s \in S : IsStrictSuffix(s, k)
  BY DEF Below, k
<1>3. /\ Len(s) \in Nat /\ Len(h) \in Nat /\ Len(s) <= n
      /\ \A i \in 1..Len(s) : s[Len(s) - i + 1] = k[n - i + 1]
  BY <1>1, <1>2, SuffixLabels DEF IsStrictSuffix
<1>4. \A i \in 1..Len(s) : s[Len(s) - i + 1] = h[Len(h) - i + 1]
  <2> SUFFICES ASSUME NEW i \in 1..Len(s) PROVE s[Len(s) - i + 1] = h[Len(h) - i + 1]
    OBVIOUS
  <2>1. n - i + 1 \in 1..n /\ Len(h) - n + (n - i + 1) = Len(h) - i + 1
    BY <1>3
  <2> QED BY <1>1, <1>3, <2>1
<1>5. IsSuffix(s, h)
  BY <1>3, <1>4, SuffixLabels
<1>6. s # h
  <2>1. SUFFICES ASSUME s = h PROVE FALSE
    OBVIOUS
  <2>2. n = Len(h)
    BY <1>3, <2>1
  <2>3. k = h
    BY <1>1, <1>3, <2>2
  <2> QED BY <1>2, <2>1, <2>3 DEF IsStrictSuffix
<1> QED BY <1>5, <1>6 DEF Below, IsStrictSuffix

\* A site is a host that is its own site, and a host of a site that is denied is denied:
\* a harvest that asks the denylist of a host has asked it of the site.
THEOREM SitesAreTheirOwn ==
  ASSUME DenyHosts \subseteq Seq(STRING), PlatformHosts \subseteq Seq(STRING),
         None \notin Hostname, NEW h \in Hostname
  PROVE  /\ site_key(h) \in Hostname
         /\ site_key(site_key(h)) = site_key(h)
         /\ is_denied_host(site_key(h)) => is_denied_host(h)
<1>1. h \in Seq(STRING) /\ Len(h) \in Nat /\ Len(h) > 0
  BY DEF Hostname
<1> DEFINE key == site_key(h)
<1>2. CASE _is_platform_subdomain(h) \/ Len(h) <= 2
  <2>1. key = h
    BY <1>2 DEF site_key
  <2> QED BY <2>1
<1>3. CASE ~_is_platform_subdomain(h) /\ ~(Len(h) <= 2)
  <2> DEFINE n == IF LastLabels(h, 2) \in MultiSuffixes THEN 3 ELSE 2
  <2>1. key = LastLabels(h, n) /\ n \in {2, 3} /\ n \in Nat /\ n <= Len(h)
    BY <1>1, <1>3 DEF site_key
  <2>2. n = 3 <=> LastLabels(h, 2) \in MultiSuffixes
    OBVIOUS
  <2> HIDE DEF key, n
  <2>3. key \in Seq(STRING) /\ Len(key) = n
    BY <1>1, <2>1, LastOfHost
  <2>4. key \in Hostname
    BY <2>1, <2>3 DEF Hostname
  <2>5. ~_is_platform_subdomain(key)
    BY <1>1, <1>3, <2>1, BelowLast DEF _is_platform_subdomain
  <2>6. site_key(key) = key
    <3>1. CASE n = 2
      BY <2>3, <3>1 DEF site_key
    <3>2. CASE n = 3
      <4>1. LastLabels(key, 2) = LastLabels(h, 2) /\ LastLabels(key, 3) = LastLabels(h, 3)
        BY <1>1, <2>1, <3>2, LastOfLast
      <4> QED BY <2>1, <2>2, <2>3, <2>5, <3>2, <4>1 DEF site_key
    <3> QED BY <2>1, <3>1, <3>2
  <2>7. is_denied_host(key) => is_denied_host(h)
    <3>1. SUFFICES ASSUME is_denied_host(key) PROVE is_denied_host(h)
      OBVIOUS
    <3>2. key # None
      BY <2>4
    <3> QED BY <1>3, <2>5, <2>6, <3>1, <3>2 DEF is_denied_host, key
  <2> QED BY <2>4, <2>6, <2>7 DEF key
<1> QED BY <1>2, <1>3

\* The aliases of an address form a class, each of whose members names the same host and is
\* a comment feed when the others are: which of them was found first decides nothing.
THEOREM AliasesFormClasses ==
  ASSUME NEW u \in Address, NEW v \in feed_url_aliases(u)
  PROVE  /\ u \in feed_url_aliases(u) /\ v \in Address
         /\ feed_url_aliases(v) = feed_url_aliases(u)
         /\ normalize_host(v) = normalize_host(u)
         /\ is_comment_feed(v) <=> is_comment_feed(u)
<1> DEFINE w == [u EXCEPT !.slash = ~u.slash]
<1>1. /\ w \in Address /\ w.scheme = u.scheme /\ w.host = u.host /\ w.path = u.path
      /\ w.query = u.query /\ w.slash = ~u.slash /\ u.slash \in BOOLEAN
  BY DEF Address
<1>2. [w EXCEPT !.slash = ~w.slash] = u
  BY <1>1 DEF Address
<1>3. u \in feed_url_aliases(u) /\ (v = u \/ (v = w /\ feed_url_aliases(u) = {u, w}))
  BY DEF feed_url_aliases
<1>4. CASE v = u
  BY <1>3, <1>4
<1>5. CASE v = w /\ feed_url_aliases(u) = {u, w}
  <2> DEFINE short == u.query # "none" \/ u.path = <<>> \/ Last(u.path) \notin {"feed", "rss", "atom"}
  <2>1. w # u
    BY <1>1
  <2>2. ~short
    BY <1>5, <2>1 DEF feed_url_aliases
  <2> HIDE DEF w
  <2>3. feed_url_aliases(w) = {w, u}
    BY <1>1, <1>2, <2>2 DEF feed_url_aliases
  <2>4. normalize_host(w) = normalize_host(u)
    BY <1>1 DEF normalize_host, Web
  <2>5. is_comment_feed(w) <=> is_comment_feed(u)
    BY <1>1 DEF is_comment_feed
  <2> QED BY <1>1, <1>3, <1>5, <2>3, <2>4, <2>5
<1> QED BY <1>3, <1>4, <1>5

\* What is probed for a link is the root of the link's own host, over the link's own
\* scheme, and the root of a root is itself.
THEOREM OriginsAreProbed ==
  ASSUME NEW u \in Address, Web(u)
  PROVE  /\ origin_of(u) \in [scheme : {"http", "https"}, host : {u.host}, path : {<<>>},
                            slash : {TRUE}, query : {"none"}]
         /\ normalize_host(origin_of(u)) = normalize_host(u)
         /\ origin_of(origin_of(u)) = origin_of(u)
<1> DEFINE r == [u EXCEPT !.path = <<>>, !.slash = TRUE, !.query = "none"]
<1>1. origin_of(u) = r
  BY DEF origin_of, Root
<1>2. r = [scheme |-> u.scheme, host |-> u.host, path |-> <<>>, slash |-> TRUE, query |-> "none"]
  <2>1. DOMAIN u = {"scheme", "host", "path", "slash", "query"}
    BY DEF Address
  <2>2. u = [x \in DOMAIN u |-> u[x]]
    BY DEF Address
  <2>3. /\ DOMAIN r = DOMAIN u /\ r = [x \in DOMAIN r |-> r[x]]
        /\ r.scheme = u.scheme /\ r.host = u.host /\ r.path = <<>>
        /\ r.slash = TRUE /\ r.query = "none"
    BY <2>1, <2>2
  <2> HIDE DEF r
  <2> QED BY <2>1, <2>3
<1>3. [r EXCEPT !.path = <<>>, !.slash = TRUE, !.query = "none"] = r
  BY <1>2
<1>4. r \in [scheme : {"http", "https"}, host : {u.host}, path : {<<>>}, slash : {TRUE}, query : {"none"}]
  BY <1>2 DEF Web
<1>5. r.scheme = u.scheme /\ r.host = u.host
  BY <1>2
<1> HIDE DEF r
<1>6. origin_of(r) = r
  BY <1>3, <1>5 DEF origin_of, Root, Web
<1>7. normalize_host(r) = normalize_host(u)
  BY <1>5 DEF normalize_host, Web
<1> QED BY <1>1, <1>4, <1>6, <1>7
=============================================================================
