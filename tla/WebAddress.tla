----------------------------- MODULE WebAddress -----------------------------
(***************************************************************************)
(* What discovery reads off an address without fetching it: the comparable *)
(* host, the site it belongs to, whether it may ever be a blog, and which  *)
(* feed addresses are the same feed (services/link_harvest.py and          *)
(* services/source_identity.py).                                           *)
(*                                                                         *)
(* A host is the sequence of its labels; one that is an IP literal, or has *)
(* no dot, has one.  A path is the sequence of its parts and whether it    *)
(* ends in a slash.  Case, ports and fragments are left out.               *)
(***************************************************************************)
EXTENDS Integers, Sequences, SequencesExt

CONSTANTS
  None,
  DenyHosts,       \* DENY_HOST_SUFFIXES
  PlatformHosts,   \* PLATFORM_HOST_SUFFIXES: the subdomain is the site
  MultiSuffixes,   \* MULTI_LABEL_SUFFIXES: public suffixes of two labels
  BadTlds          \* BAD_TLD_SUFFIXES: reserved last labels

\* An address that was parsed.
Address == [scheme : STRING, host : Seq(STRING), path : Seq(STRING), slash : BOOLEAN, query : STRING]

Web(url) == url.scheme \in {"http", "https"}
Root(url) == [url EXCEPT !.path = <<>>, !.slash = TRUE, !.query = "none"]

Below(host, suffixes) == \E s \in suffixes : IsStrictSuffix(s, host)
LastLabels(host, n) == SubSeq(host, Len(host) - n + 1, Len(host))

\* The comparable host of an address, or None: the unit of deduplication.
normalize_host(url) ==
  IF ~Web(url) \/ Len(url.host) < 2 \/ Last(url.host) \in BadTlds THEN None
  ELSE IF Head(url.host) # "www" THEN url.host
  ELSE IF Len(url.host) = 2 THEN None ELSE Tail(url.host)

\* The address that is probed: the link's own scheme and host, "www." kept.
origin_of(url) == IF Web(url) THEN Root(url) ELSE None

_is_platform_subdomain(host) == Below(host, PlatformHosts)

\* The registrable domain, or the whole host on a blogging platform.
site_key(host) ==
  IF _is_platform_subdomain(host) \/ Len(host) <= 2 THEN host
  ELSE LastLabels(host, IF LastLabels(host, 2) \in MultiSuffixes THEN 3 ELSE 2)

is_denied_host(host) ==
  \/ host = None
  \/ {host, site_key(host)} \cap DenyHosts # {}
  \/ ~_is_platform_subdomain(host) /\ (Below(host, DenyHosts) \/ Below(site_key(host), DenyHosts))

-----------------------------------------------------------------------------
(* The identity of a feed address.                                           *)

\* Only /feed, /rss and /atom have an alias, with or without the final slash.
feed_url_aliases(url) ==
  IF url.query # "none" \/ url.path = <<>> \/ Last(url.path) \notin {"feed", "rss", "atom"}
  THEN {url} ELSE {url, [url EXCEPT !.slash = ~url.slash]}

\* An endpoint of comments, by its query or its last two parts.
is_comment_feed(url) ==
  LET n    == Len(url.path)
      Part(i) == IF i >= 1 THEN url.path[i] ELSE ""
  IN \/ url.query \in {"feed=comments-rss2", "feed=comments-atom", "feed=comments-rss",
                      "withcomments=1", "withcomments=true", "withcomments=yes"}
     \/ Part(n) \in {"comments.xml", "comments.rss", "comments.atom"}
     \/ Part(n-1) = "comments" /\ Part(n) \in {"feed", "rss", "atom", "rss.xml", "atom.xml"}
     \/ Part(n) = "comments" /\ Part(n-1) \in {"feed", "rss", "atom"}
=============================================================================
