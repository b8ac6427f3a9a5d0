----------------------------- MODULE MCFrontier -----------------------------
(* Two catalog feeds, one of them away from the website it names, two        *)
(* directories, and a few sites on a web that may answer in the ways that    *)
(* matter: declared and well-known feeds, a redirect to a denied host and to *)
(* a feed of comments, a rule and an error of robots.txt, a rule that is     *)
(* remembered though the server dropped it, robots.txt switched off, a name  *)
(* that resolves inwards at the connection, and no answer.                   *)
EXTENDS Frontier, TLC

At(host, path) == [scheme |-> "https", host |-> host, path |-> path, slash |-> path = <<>>, query |-> "none"]
Home(host) == At(host, <<>>)

a == <<"a", "org">>   wwwa == <<"www", "a", "org">>
b == <<"b", "com">>   c == <<"c", "co", "uk">>
d == <<"d", "org">>   p == <<"p", "host", "io">>
e == <<"e", "net">>

MCDeny      == {b, <<"host", "io">>}
MCPlatforms == {<<"host", "io">>}
MCSuffixes  == {<<"co", "uk">>}
MCTlds      == {"test"}
MCFallback  == {[path |-> <<"feed">>, slash |-> FALSE], [path |-> <<"feed">>, slash |-> TRUE],
                [path |-> <<"rss.xml">>, slash |-> FALSE]}

AFeed    == At(a, <<"feed">>)
AComments == At(a, <<"comments", "feed">>)
CFeed    == At(c, <<"feed">>)
EFeed    == At(e, <<"e.xml">>)
Links    == [url |-> At(d, <<"blogs">>), kind |-> "links_page"]
Opml     == [url |-> At(d, <<"opml">>), kind |-> "opml"]

Slashed  == [AFeed EXCEPT !.slash = TRUE]
MCUrl     == {Home(wwwa), Home(p), AFeed}
MCFeedUrl == {CFeed, EFeed, AFeed, Slashed}
MCCatalog == {CFeed, EFeed}
MCSite    == (CFeed :> Home(c)) @@ (EFeed :> Home(p)) @@ [f \in MCFeedUrl |-> None]
MCVersion ==
  CFeed :> << [links |-> <<At(p, <<"post">>), Home(b)>>, whole |-> TRUE],
              [links |-> <<At(wwwa, <<"post">>), At(p, <<"post">>)>>, whole |-> TRUE] >>
  @@ EFeed :> << [links |-> <<>>, whole |-> TRUE] >>
MCSource  == {Links, Opml}

Ip4   == [version |-> 4, public |-> TRUE, up |-> TRUE]
Dead6 == [version |-> 6, public |-> TRUE, up |-> FALSE]
Inner == [Ip4 EXCEPT !.public = FALSE]
Dns(ips) == [h \in {a, wwwa, b, c, d, e, p} |-> ips]
Dual == <<Dead6, Ip4>>

Page(links, anchors) == [kind |-> "ok", feed |-> FALSE, feedType |-> FALSE,
                         links |-> links, anchors |-> anchors, deny |-> {}]
FeedPage == [Page(<<>>, <<>>) EXCEPT !.feed = TRUE, !.feedType = TRUE]
Rule(urls) == [Page(<<>>, <<>>) EXCEPT !.deny = urls]
To(url)  == [kind |-> "redirect", to |-> url]
Alt(url) == [alternate |-> TRUE, feedType |-> TRUE, to |-> url]

Good(host) == Home(host) :> Page(<<Alt(AComments), Alt(AFeed), Alt(AFeed)>>, <<>>) @@ AFeed :> FeedPage
Lists == Links.url :> Page(<<>>, <<At(wwwa, <<"x">>), Home(p), Home(b)>>)
         @@ Opml.url :> Page(<<>>, <<AFeed, Home(b)>>)
         @@ Home(c) :> Page(<<>>, <<Home(p)>>)
W(seen, pinned, page) == [seen |-> Dns(seen), pinned |-> Dns(pinned), page |-> page,
                          kept |-> <<>>, respect |-> TRUE]
Keeping(w, url, reply) == [w EXCEPT !.kept = Root(url) :> reply]
MCWebs == {
  W(Dual, Dual, Good(a) @@ Good(wwwa) @@ Lists),
  W(Dual, Dual, Home(wwwa) :> Page(<<Alt(Slashed), Alt(AFeed)>>, <<>>)
                @@ AFeed :> To(Slashed) @@ Slashed :> FeedPage),
  W(Dual, Dual, Home(wwwa) :> To(Home(b)) @@ Home(b) :> Page(<<Alt(AFeed)>>, <<>>) @@ Home(p) :> To(AComments)),
  Keeping(W(Dual, Dual, Good(wwwa) @@ robots_txt(AFeed) :> Rule({AFeed})), Home(p), Rule({Home(p)})),
  [W(Dual, Dual, Good(wwwa) @@ robots_txt(Home(wwwa)) :> Rule({Home(wwwa)})) EXCEPT !.respect = FALSE],
  W(Dual, Dual, robots_txt(AFeed) :> [kind |-> "http5"] @@ Good(wwwa)),
  W(Dual, Dual, Good(wwwa) @@ robots_txt(AFeed) :> To(Opml.url) @@ Opml.url :> Rule({Slashed})),
  W(Dual, <<Ip4, Inner>>, Good(wwwa)),
  W(<<Dead6>>, <<Dead6>>, Good(a)) }
=============================================================================
