---------------------------- MODULE MCFeedRefresh ----------------------------
(* An old feed one article over its cap, and two addresses of one new site,  *)
(* of which the first waits for its first fetch.  A second version drops an  *)
(* item, revises one, retitles one and adds one without an address; the new  *)
(* site turns into comments.                                                 *)
EXTENDS FeedRefresh

Entry(url, date, hash) == [url |-> url, date |-> date, rev |-> [hash |-> hash, meta |-> 1]]
Retitled(entry, date) == [entry EXCEPT !.date = date, !.rev.meta = @ + 1]
Doc(entries, comments) == [entries |-> entries, comments |-> comments]

MCSite == [f \in Feed |-> IF f = "old" THEN "old" ELSE "new"]
MCDocument ==
  [s \in {"old", "new"} |->
     IF s = "old" THEN << Doc(<<Entry("c", 3, 1), Entry("b", 2, 1), Entry("a", 1, 1)>>, FALSE),
                          Doc(<<Entry("c", 3, 1), Entry("c", 4, 2), Entry(None, 9, 1),
                                Retitled(Entry("a", 1, 1), 5)>>, FALSE) >>
     ELSE << Doc(<<Entry("y", 2, 1), Entry("x", 1, 1)>>, FALSE),
             Doc(<<Entry("y", 2, 1), Entry("x", 1, 1)>>, TRUE) >>]
MCItem == ({"old"} \X {"a", "b", "c"}) \cup ({"rss", "feed"} \X {"x", "y"})

\* The two addresses of the new site serve what the gate relies on; the old feed does not.
ASSUME \A f \in {"rss", "feed"} : Chronicle(f)
=============================================================================
