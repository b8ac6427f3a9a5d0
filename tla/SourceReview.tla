---------------------------- MODULE SourceReview ----------------------------
(***************************************************************************)
(* The review of discovered sources (services/source_review.py and the SQL *)
(* functions of source_reviews): a candidate is requested for review, its  *)
(* samples are fetched by the worker's cycle, an evaluator leases the      *)
(* packet and submits a result, and a policy or a human turns the result   *)
(* into an admitted feed.                                                  *)
(*                                                                         *)
(* A SQL function locks setting, candidate and review in this order and is *)
(* one step, but for claim_source_review and request_due_source_reviews:   *)
(* what they pick is read before the candidate is locked, so a pick may be *)
(* stale when it is used.                                                  *)
(*                                                                         *)
(* Time is not measured: a lease or a snapshot may expire at any moment,   *)
(* and available_at, which only delays a claim, is left out.  A token is   *)
(* the number of its claim, which is as unique as the uuid it stands for.  *)
(***************************************************************************)
EXTENDS Integers, Sequences, FiniteSets, Functions

CONSTANTS
  Candidate,
  Same,          \* Same[c]: the candidates with c's feed address or an alias of it
  Policy,        \* the policies an administrator saves
  None,
  MaxAttempts,   \* claims of one review before it is given up (3 in the code)
  MaxEvents,     \* bound on a behaviour's reviews, claims and decisions together
  MaxPicks       \* bound on the picks that are read and not yet locked

ASSUME ReviewAssumption ==
  /\ Same \in [Candidate -> SUBSET Candidate]
  /\ \A c \in Candidate : c \in Same[c] /\ \A d \in Same[c] : Same[d] = Same[c]
  /\ Policy \subseteq [version : Nat, enabled : BOOLEAN, engine : {"external_agent", "jev"}, skip : BOOLEAN]
  /\ {MaxAttempts, MaxEvents, MaxPicks} \subseteq Nat \ {0}
  /\ None \notin {"thin", "good", "overridden", "stale", "failed"}

VARIABLES
  policy,    \* app_settings 'source.review'
  cand,      \* discovery_candidates
  barred,    \* candidates whose discovery target is rejected or blocked
  rev,       \* source_reviews, in the order of their creation
  feed,      \* feeds by address, with the feed_admissions row of each
  issued,    \* the lease tokens issued so far
  picks,     \* claims that have read a review and not yet locked it
  due,       \* candidates that a sweep has read as due and not yet locked
  work       \* granted claims, in the hands of a worker

vars == <<policy, cand, barred, rev, feed, issued, picks, due, work>>

Engine   == {"external_agent", "jev"}
Active   == {"requested", "preparing", "ready", "leased", "awaiting_human"}
Settled  == {"accepted", "rejected", "deferred", "failed", "stale", "overridden"}
\* Whether an accept of the packet passes the gates: one sample of 100 characters
\* that is not a demo text, and numbers above the policy's thresholds.
Sample   == {"thin", "good"}
Verdict  == {"accept", "reject", "abstain"}
Decision == {"accept", "reject", "defer"}
Id       == 1..Len(rev)

Review == [cand : Candidate, status : Active \cup Settled, engine : Engine,
           pver : Nat, cver : Nat, retryOf : Nat,
           \* snap: the packet by its snapshot_hash; body: its snapshot is kept as well
           snap : Sample \cup {None}, body : BOOLEAN, fresh : BOOLEAN,
           token : Nat, live : BOOLEAN,
           result : [verdict : Verdict, of : Sample] \cup {None},
           human : {None, "agree", "disagree"}, attempts : Nat, failures : Nat]
Admission == [method : {"ai_auto", "human_agree", "human_disagree", "manual", "referrer_auto"},
              review : Nat]
Worker  == {"preparer"} \cup Engine
Granted == [by : Worker, id : Nat, token : Nat, snap : Sample \cup {None}]

Init ==
  /\ policy \in Policy
  /\ cand = [c \in Candidate |-> [status |-> "pending", ver |-> 1, override |-> None]]
  /\ barred = {}
  /\ rev = <<>>
  /\ feed = [c \in Candidate |-> None]
  /\ issued = 0
  /\ picks = {}
  /\ due = {}
  /\ work = {}

-----------------------------------------------------------------------------
(* The candidate: its fence trigger, who may be reviewed, who is admitted.   *)

\* Bound: every version starts at 1.
MayAct == Len(rev) + issued + policy.version + FoldFunction(+, 0, [c \in Candidate |-> cand[c].ver])
            <= MaxEvents + Cardinality(Candidate)

\* The fence trigger: a change of status moves the version and, unless the
\* transaction is a machine's, records the human override.
Override == [imported |-> "approve", approved |-> "approve", rejected |-> "reject", held |-> "hold"]
Fence(c, status, human) ==
  [status |-> status, ver |-> cand[c].ver + 1,
   override |-> IF human THEN Override[status] ELSE cand[c].override]

Blocked(c) == \/ c \in barred
              \/ \E d \in Same[c] \ {c} : cand[d].status \in {"held", "rejected"}
Undecided(c) == cand[c].override = None /\ cand[c].status = "pending" /\ ~Blocked(c)

\* admit_source_review: the feed of the candidate, created at most once for all
\* its aliases; an alias that is held or rejected aborts the transaction.
Admit(c, human, method, i) ==
  /\ \A d \in Same[c] \ {c} : cand[d].status \notin {"held", "rejected"}
  /\ cand' = [cand EXCEPT ![c] = Fence(c, "imported", human)]
  /\ feed' = IF \E d \in Same[c] : feed[d] # None THEN feed
             ELSE [feed EXCEPT ![c] = [method |-> method, review |-> i]]

-----------------------------------------------------------------------------
(* The SQL functions of source_reviews.                                      *)

Newest(c) == CHOOSE i \in Id : rev[i].cand = c /\ \A j \in Id : rev[j].cand = c => j <= i
HasReview(c) == \E i \in Id : rev[i].cand = c

\* The review still stands for the candidate and the policy it was made for.
SameCandidate(i) == Undecided(rev[i].cand) /\ cand[rev[i].cand].ver = rev[i].cver
SamePolicy(i) == policy.version = rev[i].pver /\ policy.enabled

NewReview(c, of) ==
  [cand |-> c, status |-> "requested", engine |-> policy.engine, pver |-> policy.version,
   cver |-> cand[c].ver, retryOf |-> of, snap |-> None, body |-> FALSE, fresh |-> FALSE,
   token |-> 0, live |-> FALSE, result |-> None, human |-> None, attempts |-> 0, failures |-> 0]

\* A settled row keeps its lease columns, which nothing reads any more.
Status(i, s) == [rev EXCEPT ![i].status = s, ![i].live = FALSE, ![i].attempts = 0, ![i].failures = 0]

\* request_source_review; "of" is the review an administrator retries, 0 when
\* there is none, and "again" is p_retry.  Without it, only unfinished work under
\* an old policy (or for an engine that has no key any more) is replaced.
Recovers(i) ==
  \/ rev[i].status = "stale"
  \/ rev[i].status \in Active \ {"awaiting_human"} /\ rev[i].pver # policy.version
  \/ rev[i].status = "failed" /\ rev[i].engine = "jev" /\ policy.engine = "external_agent"
RequestBeside(c, again, of) ==   \* faulty variant: the unfinished review is not replaced
  /\ policy.enabled /\ Undecided(c) /\ MayAct
  /\ HasReview(c) => again \/ Recovers(Newest(c))
  /\ rev' = Append(rev, NewReview(c, of))
RequestSql(c, again, of) ==
  /\ policy.enabled /\ Undecided(c) /\ MayAct
  /\ HasReview(c) => again \/ Recovers(Newest(c))
  /\ LET old == IF HasReview(c) /\ rev[Newest(c)].status \in Active
                THEN Status(Newest(c), "stale") ELSE rev
     IN rev' = Append(old, NewReview(c, of))

\* retry_source_review: only the newest review, and only once it is settled.
RetryAny(i) ==   \* faulty variant: any settled review may be retried
  /\ rev[i].status \in Settled \ {"accepted"}
  /\ RequestSql(rev[i].cand, TRUE, i)
RetrySql(i) ==
  /\ i = Newest(rev[i].cand)
  /\ rev[i].status \in Settled \ {"accepted"}
  /\ RequestSql(rev[i].cand, TRUE, i)

\* claim_source_review, first statement: a review to claim, read without a lock.
Claimable(i, by) ==
  IF by = "preparer"
  THEN rev[i].status = "requested" \/ (rev[i].status = "preparing" /\ ~rev[i].live)
  ELSE /\ rev[i].engine = by
       /\ rev[i].status = "ready" \/ (rev[i].status = "leased" /\ ~rev[i].live)

\* claim_source_review, once the candidate is locked: the review that is read
\* again is the candidate's unfinished one, whatever was picked.
RelockedAny(i) == {i}   \* faulty variant: what was picked is leased as it is
Relocked(i) == {j \in Id : /\ rev[j].cand = rev[i].cand
                           /\ rev[j].status \in Active \ {"awaiting_human"}}
Outdated(i, by) == \/ rev[i].pver # policy.version
                   \/ by # "preparer" /\ (~rev[i].body \/ ~rev[i].fresh)
RefusalUncounted(i, by) ==   \* faulty variant: the claims of a review are not limited
  IF ~SameCandidate(i) THEN "overridden" ELSE IF Outdated(i, by) THEN "stale" ELSE None
Refusal(i, by) ==
  IF ~SameCandidate(i) THEN "overridden"
  ELSE IF Outdated(i, by) THEN "stale"
  ELSE IF rev[i].attempts >= MaxAttempts THEN "failed" ELSE None
Leased(i, by) ==
  [rev EXCEPT ![i].status = IF by = "preparer" THEN "preparing" ELSE "leased",
              ![i].token = issued + 1, ![i].live = TRUE, ![i].attempts = rev[i].attempts + 1]
ClaimRefused(i, by) ==   \* the loop of the function goes on to its next pick
  \/ (Relocked(i) = {} /\ UNCHANGED <<rev, issued>>)
  \/ \E j \in Relocked(i) : /\ Refusal(j, by) # None /\ rev' = Status(j, Refusal(j, by))
                           /\ UNCHANGED issued
ClaimGranted(i, j, by) ==
  /\ j \in Relocked(i) /\ Refusal(j, by) = None /\ MayAct
  /\ rev' = Leased(j, by) /\ issued' = issued + 1

\* prepare_source_review; the outcome is a sample or a failed fetch.
HoldsPreparation(i, t) == rev[i].status = "preparing" /\ rev[i].token = t /\ rev[i].live
Failed(i, last) ==
  IF last = "failed" \/ rev[i].failures + 1 >= MaxAttempts
  THEN [Status(i, "failed") EXCEPT ![i].token = 0]
  ELSE [rev EXCEPT ![i].status = last, ![i].failures = @ + 1, ![i].token = 0, ![i].live = FALSE]
PrepareSql(i, t, outcome) ==
  /\ HoldsPreparation(i, t)
  /\ rev' = CASE ~SameCandidate(i) -> Status(i, "overridden")
              [] SameCandidate(i) /\ ~SamePolicy(i) -> Status(i, "stale")
              [] SameCandidate(i) /\ SamePolicy(i) /\ outcome = None -> Failed(i, "requested")
              [] OTHER -> [rev EXCEPT ![i].status = "ready", ![i].snap = outcome,
                             ![i].body = TRUE, ![i].fresh = TRUE, ![i].token = 0, ![i].live = FALSE,
                             ![i].attempts = 0]

\* submit_source_review.  The status a verdict leads to: an accept that fails a
\* gate is deferred, and a decision waits for a human unless the policy skips it.
GatedUnseen(i, v) ==   \* faulty variant: the sample is not looked at
  CASE v = "accept" -> "accepted"
    [] v = "reject" -> "rejected"
    [] OTHER -> "deferred"
Gated(i, v) ==
  CASE v = "accept" /\ rev[i].body /\ rev[i].snap = "good" -> "accepted"
    [] v = "reject" -> "rejected"
    [] OTHER -> "deferred"
Outcome(i, v) == IF Gated(i, v) # "deferred" /\ ~policy.skip THEN "awaiting_human" ELSE Gated(i, v)
LeaseRuns(k) == rev[k.id].status = "leased" /\ rev[k.id].token = k.token /\ rev[k.id].live
HoldsLease(k) == LeaseRuns(k) /\ rev[k.id].snap = k.snap /\ rev[k.id].fresh
SubmitSql(k, v) ==
  LET i == k.id IN
  /\ HoldsLease(k) /\ rev[i].result = None
  /\ IF SameCandidate(i) /\ SamePolicy(i)
     THEN /\ rev' = [Status(i, Outcome(i, v)) EXCEPT ![i].result = [verdict |-> v, of |-> k.snap]]
          /\ IF Outcome(i, v) = "accepted" THEN Admit(rev[i].cand, FALSE, "ai_auto", i)
             ELSE UNCHANGED <<cand, feed>>
     ELSE /\ rev' = Status(i, IF SameCandidate(i) THEN "stale" ELSE "overridden")
          /\ UNCHANGED <<cand, feed>>

\* fail_source_review: an exhausted budget does not count as a failure.
FailSql(k, code) ==
  LET i == k.id IN
  /\ LeaseRuns(k)
  /\ rev' = CASE code = "budget_exceeded" ->
                   [rev EXCEPT ![i].status = "ready", ![i].attempts = 0,
                               ![i].token = 0, ![i].live = FALSE]
              [] code = "retryable" -> Failed(i, "ready")
              [] OTHER -> Failed(i, "failed")

\* judge_source_review: a human agrees with the machine or overrules it.
Proposed(i) == IF rev[i].result.verdict = "abstain" THEN "defer" ELSE rev[i].result.verdict
Judgeable(i) ==
  /\ rev[i].status \in {"awaiting_human", "rejected", "deferred"}
  /\ rev[i].result # None /\ rev[i].human = None
  /\ i = Newest(rev[i].cand) /\ SameCandidate(i)
JudgeSql(i, d) ==
  LET c == rev[i].cand
      opinion == IF d = Proposed(i) THEN "agree" ELSE "disagree"
  IN /\ Judgeable(i) /\ MayAct
     /\ ~(d = "accept" /\ opinion = "agree" /\ rev[i].status = "deferred")
     /\ IF d = "accept"
        THEN Admit(c, TRUE, IF opinion = "agree" THEN "human_agree" ELSE "human_disagree", i)
        ELSE /\ cand' = [cand EXCEPT ![c] = Fence(c, IF d = "reject" THEN "rejected" ELSE "held", TRUE)]
             /\ UNCHANGED feed
     /\ rev' = [rev EXCEPT ![i].human = opinion,
                  ![i].status = CASE d = "accept" -> "accepted" [] d = "reject" -> "rejected"
                                  [] OTHER -> "deferred"]

\* prune_source_reviews: what is unfinished and outdated becomes stale, then the
\* expired snapshots are dropped; their hashes stay.  The rows it deletes are older
\* than the ten newest of a candidate, more than a behaviour here has.
Expired(i) == rev[i].snap # None /\ ~rev[i].fresh
Pruned(i) == IF /\ rev[i].status \in Active \ {"awaiting_human"}
                /\ Expired(i) \/ rev[i].pver # policy.version
             THEN Status(i, "stale")[i] ELSE rev[i]
PruneSql ==
  rev' = [i \in Id |-> [Pruned(i) EXCEPT !.body = @ /\ ~Expired(i)]]

\* request_due_source_reviews, for one candidate: never reviewed, or stale.
Due(c) == Undecided(c) /\ (HasReview(c) => rev[Newest(c)].status = "stale")

-----------------------------------------------------------------------------
(* Claims under way and claims granted.  Any number of runs of               *)
(* prepare_due_reviews, of its Jev evaluations and of external agents work   *)
(* at once; a run claims one review at a time, in any order with the others. *)

shared == <<policy, barred, issued, due>>
Job(by, i) == [by |-> by, id |-> i, token |-> issued + 1, snap |-> rev[i].snap]

\* Claims and sweeps share the setting's lock until they commit.
Picking == Cardinality(picks) + Cardinality(due)

\* The switch is read before every claim.
PickClaim(by, i) ==
  /\ policy.enabled /\ Claimable(i, by)
  /\ [by |-> by, id |-> i] \notin picks /\ Picking < MaxPicks
  /\ picks' = picks \cup {[by |-> by, id |-> i]}
  /\ UNCHANGED <<shared, cand, feed, rev, work>>

\* Several claims may have picked the same review: it may stay picked.
LockClaim(p) ==
  /\ \/ ClaimRefused(p.id, p.by) /\ UNCHANGED work /\ picks' = picks \ {p}
     \/ \E j \in Id : /\ ClaimGranted(p.id, j, p.by)
                      /\ work' = work \cup {Job(p.by, j)}
                      /\ picks' \in {picks, picks \ {p}}
  /\ UNCHANGED <<policy, barred, due, cand, feed>>

\* prepare_due_reviews: every run prunes first, then requests what is due.  The
\* sweep does not look again at the review of a candidate once it has the lock:
\* a review that was requested meanwhile is replaced.
Prune == PruneSql /\ UNCHANGED <<shared, cand, feed, picks, work>>
PickDue(c) ==
  /\ policy.enabled /\ Due(c) /\ c \notin due /\ Picking < MaxPicks
  /\ due' = due \cup {c}
  /\ UNCHANGED <<policy, barred, issued, cand, feed, rev, picks, work>>
RequestDue(c) ==   \* several sweeps may have picked the same candidate
  /\ c \in due /\ due' \in {due, due \ {c}}
  /\ RequestSql(c, TRUE, 0)
  /\ UNCHANGED <<policy, barred, issued, cand, feed, picks, work>>
LeaveDue(c) ==     \* it is locked by another transaction, or not undecided any more
  /\ c \in due /\ due' = due \ {c}
  /\ UNCHANGED <<policy, barred, issued, cand, feed, rev, picks, work>>

\* _fetch_snapshot.  Each hop is allowed only while the review, its lease, its
\* candidate and the policy stand (_crawl_database_allowed).
CrawlAllowed(k) == SameCandidate(k.id) /\ SamePolicy(k.id) /\ HoldsPreparation(k.id, k.token)
Fetch(k, s) ==
  /\ k.by = "preparer" /\ k.snap = None /\ CrawlAllowed(k)
  /\ work' = (work \ {k}) \cup {[k EXCEPT !.snap = s]}
  /\ UNCHANGED <<shared, cand, feed, rev, picks>>

\* The sample is stored.  A lost lease makes the answer an error: the run reports a
\* failed fetch, which is refused as well, and ends.
Store(k) ==
  /\ k.by = "preparer" /\ k.snap # None
  /\ IF HoldsPreparation(k.id, k.token) THEN PrepareSql(k.id, k.token, k.snap) ELSE UNCHANGED rev
  /\ work' = work \ {k}
  /\ UNCHANGED <<shared, cand, feed, picks>>

\* The fetch raises, times out or has a hop refused.  Switching reviews off is no
\* fault of the source: the preparation is left to its lease.
FetchFails(k) ==
  /\ k.by = "preparer" /\ k.snap = None
  /\ IF policy.enabled /\ HoldsPreparation(k.id, k.token)
     THEN PrepareSql(k.id, k.token, None) ELSE UNCHANGED rev
  /\ work' = work \ {k}
  /\ UNCHANGED <<shared, cand, feed, picks>>

\* What parse_response makes of an answer that is well formed: below the confidence
\* of the policy, below its other thresholds, or above them all.
Numbers == {"unsure", "poor", "pass"}
\* compose_result maps the provider's numbers to a verdict, by the thresholds the
\* gates of the submission use.
Compose(numbers) == CASE numbers = "unsure" -> "abstain"
                      [] numbers = "poor"   -> "reject"
                      [] OTHER              -> "accept"
\* _run_jev_review: the result is submitted; what raises is reported instead, which
\* has no effect once the lease is lost.
JevAnswers(k, numbers) ==
  /\ k.by = "jev" /\ SubmitSql(k, Compose(numbers))
  /\ work' = work \ {k} /\ UNCHANGED <<shared, picks>>
JevFails(k, code) ==
  /\ k.by = "jev"
  /\ FailSql(k, code) \/ (~LeaseRuns(k) /\ UNCHANGED rev)
  /\ work' = work \ {k} /\ UNCHANGED <<shared, cand, feed, picks>>

\* The process dies while it holds a lease.
Crash(k) ==
  /\ k.by # "external_agent" /\ work' = work \ {k}
  /\ UNCHANGED <<shared, cand, feed, rev, picks>>

-----------------------------------------------------------------------------
(* External agents (services/admin_review_mcp.py) and administrators         *)
(* (routers/admin_source_reviews.py).  A batch is its items one after        *)
(* another, each a transaction of its own: what fails, or whose answer is    *)
(* lost, leaves the other items as they are.                                 *)

clients == <<shared, picks, work>>

\* Any client may request a review again, as often as it likes.
RequestReview(c) == RequestSql(c, FALSE, 0) /\ UNCHANGED <<clients, cand, feed>>
\* An administrator retries the review selected in the browser, also twice.
RetryReview(i) == RetrySql(i) /\ UNCHANGED <<clients, cand, feed>>
JudgeReview(i, d) == JudgeSql(i, d) /\ UNCHANGED clients
\* submit_review: of a packet an agent once got, at any time, and repeatedly; an
\* agent that lost the answer to its claim never submits.
AgentSubmits(k, v) ==
  k.by = "external_agent" /\ SubmitSql(k, v) /\ UNCHANGED clients

-----------------------------------------------------------------------------
(* Decisions outside the review, and time.                                   *)

SavePolicy(p) ==
  /\ Picking = 0 /\ MayAct
  /\ policy' = [p EXCEPT !.version = policy.version + 1]
  /\ UNCHANGED <<cand, barred, feed, rev, issued, picks, due, work>>

\* decide_discovery_candidate: hold or reject what has no feed, perhaps with its host.
HasFeed(c) == cand[c].status = "imported" \/ \E d \in Same[c] : feed[d] # None
Decide(c, status, host) ==
  /\ ~HasFeed(c) /\ MayAct
  /\ cand' = [cand EXCEPT ![c] = Fence(c, status, TRUE)]
  /\ barred' = IF host /\ status = "rejected" THEN barred \cup {c} ELSE barred
  /\ UNCHANGED <<policy, feed, rev, issued, picks, due, work>>

\* promote_discovery_candidate: by an administrator, or by the referrers a
\* candidate has gathered, which counts only while no review is asked for (and
\* while discovery is not paused, which it may be or not at any moment).
PromoteManually(c) ==
  /\ cand[c].status # "rejected" /\ MayAct
  /\ Admit(c, TRUE, "manual", 0)
  /\ UNCHANGED <<clients, rev>>
PromoteHeld(c) ==   \* faulty variant: a candidate on hold is promoted as well
  /\ cand[c].status # "rejected" /\ MayAct
  /\ cand[c].status = "approved" \/ ~policy.enabled
  /\ Admit(c, FALSE, "referrer_auto", 0)
  /\ UNCHANGED <<clients, rev>>
PromoteByReferrers(c) ==
  /\ cand[c].status \notin {"rejected", "held"} /\ MayAct
  /\ cand[c].status = "approved" \/ ~policy.enabled
  /\ Admit(c, FALSE, "referrer_auto", 0)
  /\ UNCHANGED <<clients, rev>>

\* Discovery finds another title or site for a candidate: its version moves.
Rediscover(c) ==
  /\ MayAct
  /\ cand' = [cand EXCEPT ![c].ver = @ + 1]
  /\ UNCHANGED <<clients, feed, rev>>

LeaseExpires(i) ==
  /\ rev[i].live /\ rev' = [rev EXCEPT ![i].live = FALSE]
  /\ UNCHANGED <<clients, cand, feed>>
\* 30 days after its preparation, also under a lease that is still running.
SnapshotExpires(i) ==
  /\ rev[i].fresh
  /\ rev' = [rev EXCEPT ![i].fresh = FALSE]
  /\ UNCHANGED <<clients, cand, feed>>

Next ==
  \/ Prune
  \/ \E by \in Worker, i \in Id : PickClaim(by, i)
  \/ \E p \in picks : LockClaim(p)
  \/ \E k \in work : \/ Store(k) \/ FetchFails(k) \/ Crash(k)
                     \/ \E s \in Sample : Fetch(k, s)
                     \/ \E n \in Numbers : JevAnswers(k, n)
                     \/ \E e \in {"budget_exceeded", "retryable", "fatal"} : JevFails(k, e)
                     \/ \E v \in Verdict : AgentSubmits(k, v)
  \/ \E c \in Candidate : \/ PickDue(c) \/ RequestDue(c) \/ LeaveDue(c) \/ RequestReview(c)
                          \/ PromoteManually(c) \/ PromoteByReferrers(c) \/ Rediscover(c)
                          \/ \E s \in {"held", "rejected"}, h \in BOOLEAN : Decide(c, s, h)
  \/ \E i \in Id : \/ RetryReview(i) \/ LeaseExpires(i) \/ SnapshotExpires(i)
                   \/ \E d \in Decision : JudgeReview(i, d)
  \/ \E p \in Policy : SavePolicy(p)

Spec == Init /\ [][Next]_vars

-----------------------------------------------------------------------------
TypeOK ==
  /\ policy \in [version : Nat, enabled : BOOLEAN, engine : Engine, skip : BOOLEAN]
  /\ {barred, due} \subseteq SUBSET Candidate /\ issued \in Nat
  /\ \A c \in Candidate :
       /\ cand[c] \in [status : {"pending", "held", "rejected", "approved", "imported"},
                       ver : Nat, override : {None, "approve", "reject", "hold"}]
       /\ feed[c] \in Admission \cup {None}
  /\ \A i \in Id : rev[i] \in Review /\ rev[i].attempts <= MaxAttempts /\ rev[i].failures <= MaxAttempts
  /\ \A k \in work : k \in Granted /\ k.id \in Id

\* A candidate has at most one unfinished review, its newest: the unique index on
\* unfinished reviews refuses no transaction.
OnlyNewestActive ==
  \A i \in Id : rev[i].status \in Active => i = Newest(rev[i].cand)

\* What a human decided about a candidate stands until a human decides again: no
\* request, lease, result or promotion by referrers moves it.
HumanDecisionStands ==
  \A c \in Candidate :
    cand[c].override # None => cand[c].override = Override[cand[c].status]

\* The record of why a feed was admitted agrees with the review it names: a machine
\* admission has an accepting result that no human touched, on a good sample of
\* the very packet that was evaluated; a human one has the human's opinion of it.
AdmissionExplained ==
  \A c \in Candidate : feed[c] # None /\ feed[c].review # 0 =>
    LET r == rev[feed[c].review] IN
    /\ r.cand = c /\ r.status = "accepted"
    /\ feed[c].method = "ai_auto" =>
         r.result = [verdict |-> "accept", of |-> "good"] /\ r.snap = "good" /\ r.human = None
    /\ feed[c].method = "human_agree"    => r.human = "agree" /\ r.result.verdict = "accept"
    /\ feed[c].method = "human_disagree" => r.human = "disagree" /\ r.result.verdict # "accept"

\* A result and a human's opinion are written once, and the packet they are about
\* does not change after them, whoever still holds a token of the review.  The packet
\* is known by its hash: its snapshot may be pruned once it has expired.
AnswersAreFinal ==
  [][\A i \in Id : rev[i].result # None =>
       /\ rev'[i].result = rev[i].result /\ rev'[i].snap = rev[i].snap
       /\ rev[i].result.of = rev[i].snap
       /\ rev[i].human # None => rev'[i].human = rev[i].human /\ rev'[i].status = rev[i].status]_vars

\* A retry whose answer is lost and that is sent again, or that two administrators
\* send, starts one new review, and so buys at most one new evaluation.
RetriedOnce ==
  \A i, j \in Id : rev[i].retryOf # 0 /\ rev[i].retryOf = rev[j].retryOf => i = j
=============================================================================
