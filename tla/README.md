# Driftread: TLA+ models, checks and proofs

Driftread collects RSS feeds, judges and stores their articles, and recommends
them to readers. Its hard parts run unattended: a worker process that takes
cycles of work from a queue in PostgreSQL, calls to a paid AI provider, a review
workflow with leases, and readers that synchronise from several devices. This
directory holds TLA+ modules of those parts, configurations that TLC checks on
small instances, and theorems that TLAPS checks for every value of the constants.

Modelled and checked: the job queue and the worker that drives it, the receipts
of paid AI requests, the review of discovered sources, source discovery from a
link to an admitted feed, feed refresh with the article tables and their cap, the
management console's second factor, the OAuth grants of the review tools and
the versioned settings. The safety properties of all of these are proved for every value of
the constants (that mirrors are kept apart, under a stated condition), and so are the
refinements; what is only model-checked is said in section 4.

Run from this directory:

    tlc -workers 2 -config MCJobQueue.cfg MCJobQueue
    tlc -workers 2 -config MCFrontier.cfg MCFrontier
    tlapm JobQueueProofs.tla
    tlapm FetchingProofs.tla        (and the other *Proofs modules)

## 1. The system

Processes: the API (FastAPI, `backend/main.py`, with a watchdog coroutine), the
worker (`backend/worker.py`, one asyncio loop per job kind), readers' browsers
(Angular frontend with an offline outbox, a browser extension), administrators
and outside review agents. All of them share state only through PostgreSQL, and
change the contested parts of it only through PL/pgSQL functions
(`backend/migrations/*.sql`): one function call is one transaction.

| Component | State it keeps | Operations | Correct when |
|---|---|---|---|
| Durable job queue (`20261009000000_background_queue.sql`) | `background_jobs`: status, singleton key, attempts, lease token, times | enqueue, claim, renew, finish, reconcile, prune | one active occurrence per singleton; capacity; attempts counted once; schedules never lost; leases fence |
| Worker loops (`worker.py`, `services/job_queue.py`) | per kind: the await it is at, its claim, the action's and the renewal's task, the stop event | poll, run, renew, acknowledge, drain, cancel | success only for work done; cut-off work not released early; loops end when told |
| Operations recorder and watchdog (`services/operations.py`, `watchdog.py`) | heartbeats, run records | begin, finish, heartbeat, sweep, prune | a worker that ended is not reported stale; an interrupted run is not revived |
| AI paid requests (`20261013040020_ai_receipts.sql`, `services/ai_runtime.py`) | receipts, attempts with charges, retry bindings | reserve, reserve retry, receive, finish, prune | spending within rolling budgets; nothing bought twice; late answers fenced |
| Source review (`20261013040000_source_review.sql` and later, `services/source_review.py`) | candidates, reviews with leases, snapshots, verdicts | request, claim, prepare, submit, fail, judge, admit, reconcile | a verdict is applied once, to what was reviewed, and a human's decision wins |
| Feed refresh (`services/feed_refresh.py`) | feeds: failure counts, validators, archive state | fetch, record, archive, admit | failures are neither lost nor counted twice; admission holds across processes |
| Articles, cap, retention, sync (`20261022120000_article_cap.sql`, `20261009000700_incremental_sync.sql`, ...) | articles, tombstones, counts, revisions, sync cursor | ingest, cap, remove, prune, pull, push | evicted articles do not come back; counts agree; replays are idempotent |
| Source discovery (`services/discovery.py`, `link_harvest.py`, `directory_sources.py`, `discovery_probe.py`, `discovery_candidates.py`, `feed_discovery.py`, `robots.py`, `routers/admin_discovery.py`) | frontier of targets, candidates, marks of mined article versions, the switch | harvest, read directories, probe, record, promote, seed, block, remove, decide | no link is forgotten; only permitted hosts are contacted; what an administrator decided stays |
| Global settings (`20261008034852_global_settings.sql`, `services/settings.py`) | values with versions | read, prepare, compare-and-set with seeds | no lost update; a value and its seeds are saved together |
| Manage authentication (`services/manage_auth.py`) | one challenge and lock per owner, elevated sessions | issue, verify, expire | guesses are limited, a code opens one session |
| Review OAuth (`services/review_oauth.py`, `routers/review_oauth.py`) | requests, grants with codes and rotated tokens | begin, consent, exchange, refresh, prolong, revoke, logout | one usable credential per grant; a replay revokes; a logout ends the grants of its login |
| Offline reading (`frontend/src/app/offline`), extension | local store, outbox | mark, queue, replay | what was read offline arrives once and in order |

How they meet. The worker calls the queue's functions and, inside an action, the
component its kind names: refresh, discovery, retention, source_review, storage
or article_cap. Source review calls the paid-request runtime and the discovery
switch; its admissions create feeds, which refresh fills with articles, which
cap and retention take away and sync hands out. Discovery mines those articles
for links, and what its probes find are the candidates source review judges. The
review tools reach the administrator's operations with a token of the review
OAuth grants, which rest on the sessions of the management console. The API's watchdog calls the
queue's sweep and the pruning of queue and receipts.

What is hard: every remote call may raise, hang, or be abandoned while the thread
that performs it still runs and commits (`asyncio.to_thread`, `run_in_executor`);
a lease may lapse while its holder works on; the process may be told to stop, be
cancelled after a 20 s drain, or die, at every await; several processes may run
at once during a deploy, and the API changes the rows a cycle read before.
`PROJECT.json` lists each such hazard at its line with
the properties that would notice it going wrong.

## 2. The modules

| Module | What it is |
|---|---|
| `RecurringJob` | abstract specification: one schedule, at most one lease on it at a time, bounded attempts, no end without a next |
| `JobQueue` | the table `background_jobs` and its functions, and how a schedule of `RecurringJob` is seen in it (`Promise`) |
| `QueueWorker` | the run loops and the watchdog, on an instance of `JobQueue` |
| `AiReceipts` | the receipts' tables and functions |
| `PaidCall` | callers of `execute_paid`, extending `AiReceipts` |
| `PaidCancel` | `PaidCall` with a record of the cancelled sends |
| `SourceReview` | candidates, reviews and admissions with every caller of their functions |
| `WebAddress`, `Fetching` | addresses, hosts and aliases; one guarded fetch, robots.txt, the search of a site for feeds, as functions of what the web answers |
| `Frontier` | source discovery, on `Fetching` |
| `Articles` | feeds, articles, bookmarks, the cap, compaction, clean-up |
| `FeedRefresh` | refresh, import and admission by several processes, extending `Articles` |
| `ManageAuth`, `ReviewOAuth`, `Settings` | the second factor; the grants on top of it; the versioned settings |
| `ReviewAccess` | the three together: tools with a grant and administrators change settings |
| `MC...` | one instance for TLC per checked module |
| `JobQueueProofs`, `QueueWorkerProofs`, `PaidCallProofs`, `SourceReviewProofs`, `FeedRefreshProofs`, `FrontierProofs`, `ReviewAccessProofs` | the theorems about the module each extends |
| `FetchingProofs` | what a request may contact and what addresses stand for, used by `FrontierProofs` |

Definitions with a comment "faulty variant" are not part of any
specification: each is the body a plausible bug would give another definition,
kept so that one can see the property fail.

### JobQueue

`jobs` is the table: a function from row ids to rows. A row has the columns that
decide something: `status`, `kind`, singleton `key`, `prio`, `repeat`
(repeat_seconds), `attempts`, `token` (lease_token) and, in place of the
timestamps `available_at` and `lease_expires_at`, what is left until them (`wait`,
`lease`): the functions only ever compare them with now. `Tick` counts both
down. Payload, timeout, worker id, result and error text decide nothing in the
queue and are left out. A singleton's worker passes no priority, which keeps the
stored one; the unkeyed jobs pass one.

| Action | Function |
|---|---|
| `Enqueue` | `enqueue_background_job`, with the `ON CONFLICT` update of the active occurrence's settings |
| `Claim` | `claim_background_job`: capacity, priority, due rows, a fresh token |
| `Renew`, `Finish` | `renew_/finish_background_job`, when they find the row; when they do not they change nothing and the caller sees it |
| `Reconcile` | `reconcile_background_jobs`: up to `SweepLimit` lapsed rows in one transaction |
| `Prune` | `watchdog_worker_operations`: old succeeded rows. Dead rows stay in the table for good, but no function reads them, so the model lets go of them too |
| `Forget` | no caller is left that has the token; then a finite set of tokens can stand for uuids |

`Finish` and `Reconcile` share `Release`, as the SQL of both does the same: retry
with backoff while attempts are left, otherwise dead, and the insertion of the
next occurrence in the same transaction. That insertion's own `ON CONFLICT`
branch cannot be taken: the row that ends was the active occurrence until this
transaction, so no other is.

The callers are left open: any token ever given out may be presented at any
later time, which is more than the worker does.

`issued` and `scheduled` are histories: the tokens somebody may still present, and
the schedules ever asked for.

### QueueWorker

One `loop[w]` per loop and process: `pc` is the await it is at; `stop` the process's
stop event; `job` the claim; `task` and `renewal` the two tasks of `_leased_action`;
`verdict` what `recorder.finish` will be told. `Start`, `Signal`, `DrainExpires`,
`Crash` are the process's; the actions from `SweepExpired` to `ClaimCycle` and
`EndPause` are `_run_loop`'s polling; `BeginRun` to `EndLeasedAction` are
`_leased_action`; `RecordRun` to `NackRaises` settle the run.

A call that is answered is one step with its transaction. A call that raises is
`Abandon`ed: lost, or put into `stray`, from where `StrayLands` commits it at any
later time. `CancelledError` takes the branch of the try block it is raised in:
`InTry` names the awaits whose handler records the cancellation.

`fate` is a history: what became of the action that ran under a token. The model
does not measure sleeps and timeouts of the loop: a poll wait may end, and an
action may time out, at any time, which includes the real schedule.

### AiReceipts and PaidCall

`receipts` and `sends` are `ai_request_receipts` and `ai_request_attempts`. The
receipts of one logical request are numbered by creation (`generations`): the first
one, then one for every explicit retry that bought again. A send is named by
its receipt and its number in it, which stands for its token. `bindings` is
`ai_request_retry_bindings`. `lease` counts down; `age` counts up from `started_at`
and is compared with the windows and the retention.

The reservation functions are split by their answer: `ReserveCached`,
`ReserveBusy`, `ReservePaused`, `ReserveOverBudget`, `ReserveSend`; `Target` is the
choice of receipt that `reserve_ai_retry` adds. `Receive`, `Finish`, `PruneRaw` and
`PruneResult` are the other functions. Both reservations hold one advisory lock
and the others lock the receipt, so each is one step.

`PaidCall` is `execute_paid`: `reserve`, `send`, then `receive` or `unknown`, then
`settle`, with at most one run more. `ReserveFindsAnswer` and `LoadAnswer` are the
way of a call that finds an answer nobody settled. `CancelSend` is the
`BaseException` branch; `CutOff` a failed or abandoned database call, a
cancellation elsewhere, or a crash. A database call that was given up and commits
late is covered: it is the call of a caller that goes on and is then cut off.

`billed` and `contacts` are histories of the provider's side. A send that ended in
anything but a parsed answer is taken to have cost all that was reserved.

### SourceReview

`cand`, `rev` and `feed` are `discovery_candidates`, `source_reviews` (in the order of
their creation) and `feeds` with `feed_admissions`; `policy` is the setting
`source.review` with its version. `RequestSql`, `RetrySql`, `PrepareSql`, `SubmitSql`,
`FailSql`, `JudgeSql` and `PruneSql` are the SQL functions in their last form over the
migrations; `PickClaim` and `LockClaim` are the two halves of `claim_source_review`,
whose pick is read before the candidate is locked. `PickDue` and `RequestDue` are
`request_due_source_reviews`: which candidates are due is read before they are locked,
so a sweep may act on a candidate another one has just served; `LeaveDue` is the row it
skips (SKIP LOCKED) or finds decided. Claims and sweeps hold the setting's lock until
they commit, so `SavePolicy` waits for them. `Fetch`, `Store`, `FetchFails`,
`JevAnswers`, `JevFails` and `Crash` are the worker's cycle, `AgentSubmits` an external agent,
`RequestReview` to `PromoteManually` the administrator's routes, `PromoteByReferrers`
and `Rediscover` what discovery does to the same rows. `LeaseExpires` and
`SnapshotExpires` stand for time, which is not measured: a snapshot may expire at any moment,
also while a reviewer holds the lease, whose answer is then refused though it could still report
a failure (`LeaseRuns`, `HoldsLease`). `PruneSql` makes expired and outdated reviews stale and drops
the packet of expired ones (`body`); their hash (`snap`) stays, and is what a result names.
The gates on a packet
(length, demo text, scores) are two samples and three grades of numbers.

### WebAddress, Fetching, Frontier

`WebAddress` keeps of a URL what decides: scheme, host labels, path segments, trailing
slash, and whether its query asks for comments (`feed=comments-rss2` and its forms, `withcomments`).
`normalize_host`, `is_denied_host`,
`origin_of`, `feed_url_aliases` and `is_comment_feed` are the code's.

`Fetching` computes what a request contacts and what comes of it in a given web: a
web may answer the validation and the connection with different addresses, which is
what pinning is for. `fetch_with_cap` asks its gate at every redirect; the gate of
a crawl, `make_gate`, fetches robots.txt through the same door, following its redirects
without a gate, as robots.py does, unless the process remembers an answer for that origin (`kept`,
for an hour in the code: an old answer counts although the server may have changed it) or
`FEED_DISCOVERY_RESPECT_ROBOTS` is off (`respect`). What a process remembers is part of the web a
search meets. `Permits`, what the robots.txt in force says of an address, is stated apart from that
computation and follows the redirects too.

`Frontier` has one action per statement. A cycle (`StartCycle`, `NextStage`,
`EndCycle`) keeps one index of what is known from its beginning; a harvest
(`CycleHarvest` or `IngestHarvest`, `HarvestRecord`, `HarvestMark`, `Blogroll`) and a
promotion run in threads and outlive a cycle that a pause cancels (`PauseCancels`): what a
thread is about to record of an article or a feed's page is committed then all the same. The index
(`build_host_index`) holds the hosts of targets and, of every carried feed, the host of its
address and that of its website (`Hosts`); a link to either is skipped. `DeleteFeed` is
the administrator's deletion of a feed, which leaves its hosts in indexes read before and takes its
referrals.
`ReadSource` is a directory. `SelectProbes`, `ProbeBegin`, `ProbeFetch`, `LookUp`, `Insert`,
`ProbeEnd` are a probe; `AutoPromoteDue`, `Promote` the automatic admission; the rest,
from `SeedRead` to `SwitchControl`, the administrator. The triggers
`targets_removed_guard`, `candidates_removed_guard` and the one that copies referrer
counts are part of the statements they fire on (`Update`, `Insert`, `Counted`).

### Articles, FeedRefresh

`Articles` is the tables and the functions that change them: `ingest_article_batch` with
the tombstones and the cut-off of the cap (`Dropped`), references of readers, the
cap as rank, lock, delete (`CapRank`, `CapLock`, `CapDelete`), the compaction, staging,
deletion and archiving, and the deletion of a feed with all its rows (`DeleteFeed`, `Cleanup`). What an
article says is its `hash` and the `meta` beside it (title, summary, author): a change of either
rewrites the row and its date, but only a new hash makes it unmined and its body whole again
(`Row`). `FeedRefresh` adds `refresh_one`: `Begin` reads the row, `Fetch`
downloads under its validator; a new feed is checked against comments and mirrors (`Judge`), its
subscribers are counted (`CountSubscribers`) and it is archived (`Exclude`) in a call each, all under a
lock of one process that is held until its entries are in; `Ingest` stores one entry at a time, `Complete` and
`RecordFailure` write the outcome; and the import of feeds by the routers
(`Import`, `ImportMirror`, `ImportInsert`, `ImportSubscribe`, `ImportIngest`, `ImportEnds`): the
mirror that was found is read again before a reader is subscribed to it, and if it vanished
in between the new address comes in. A database call in between may fail
(`StoreFails`), a process may die (`Crash`).

### ManageAuth, ReviewOAuth, Settings, ReviewAccess

`ManageAuth`: `otp` is the one row of `manage_login_state`; `Issue`, `VerifyWrong` and
`VerifyRight` are the service's transactions under its row lock, `Delivered` what Telegram
does, and the others time. `ReviewOAuth`: `Consent` and `Decide` are one transaction that holds
its session, `LogoutSessions` and `LogoutGrants` the two of a logout; `ExchangeCode`
and `ExchangeRefresh` take any code or token ever issued, as a client that lost an
answer repeats an old one. A new request and the list of the grants first delete lapsed requests, so many
at a time (`_cleanup`, `PruneLimit`); those not yet deleted count against the limit. `Settings`: `Load`, `Submit`, `Save` are the read, the request
and the SQL function `save_app_setting`. `ReviewAccess` composes them: the tools'
`get_discovery_control` and `set_discovery_enabled` need a valid grant at the time of
the request; administrators use `read_settings` and `update_setting`.

## 3. Runs

| Run | Instance | Question |
|---|---|---|
| `queue_table` | 3 rows, 2 kinds, 1 key, 3 tokens, capacity 2, 2 attempts | Do the functions, called in any order with tokens as old as you like, keep the table right and the promise of `RecurringJob`? |
| `worker_overlap` | 2 processes serving one kind, 2 rows, 2 tokens | Do two loops that fail, crash, lose leases and restart stay within the queue's contract, and is success acknowledged only for work done? |
| `worker_stray` | 1 process, 2 rows, 3 tokens, 1 abandoned call at a time | The same for calls that commit after they were given up; and is cut-off work left to its lease? |
| `worker_liveness` | 1 process, fairness | Does every occurrence end, does every loop told to stop leave? |
| `worker_retry` | 1 process | Violated: see findings |
| `worker_signal` | 1 process | Violated: see findings |
| `paid_calls` | 2 callers, 1 logical request, 1 retry key, 2 receipts, windows of 1 and 2 ticks with room for 1 and 2 sends | Do concurrent, crashing, retried calls stay within budget and buy nothing twice? |
| `paid_cancel` | 1 caller | Violated: see findings |
| `source_review` | 2 candidates whose feed addresses are aliases, 2 claims per review, 1 pick of a claim or sweep in flight, 5 reviews, claims and decisions | Do sweeps, reviewers, agents, administrators and discovery, in any order, apply each verdict to what it judged, and does a human's stand? |
| `discovery` | 2 catalog feeds, one with 2 revisions and one whose website is on the host such a revision links, 3 targets, 4 feed addresses of which 2 are aliases, 2 directories, 9 webs, frontier of 1, 1 cycle, 2 events | What do harvests, probes and promotions of a cycle do when links, switches and decisions change under them, and whom do they contact? |
| `feeds` | 3 feeds of which 2 are mirrors, cap 2, worker and API with 2 refreshes each, 3 events | Do concurrent, failing refreshes, imports and the cap keep validators, admissions and readers' articles right? |
| `access` | 2 logins, 2 requests with room for 1 and 1 lapsed one deleted at a time, 2 codes, 2 tries, 2 tokens per grant, 2 settings of which one has no row, 2 edits, 2 events | Do interleaved guesses, consents, replays, logouts and saves stay within what the console promises? |

What the properties say:

- `SingletonActive`, `ScheduleKept` and the refinement `KeepsPromise` together: a
  schedule has exactly one occurrence from the first enqueue on, across success,
  death by failures and death with its worker. `WithinCapacity` and
  `AttemptsAccounted` bound what runs; `LeaseFence` and `TokensNameRows` say what a
  token is good for.
- `QueueContract` (`QueueWorker` implements `JobQueue`) carries all of that over to
  the real callers, `AckedWorkWasDone` relates the table to what really ran.
  `CutOffWorkWaitsForExpiry` is the promise of docs/BACKGROUND_JOBS.md:29 that
  unfinished work is not released before its lease ends.
- `OccurrencesEnd`, `LoopsDrain`: liveness.
- `SpendWithinBudget` compares what the provider may have billed, not what the
  tables say, with the budget of every rolling window. `NothingBoughtTwice`,
  `RetryBuysOnce` and `SentOnce` bound the purchases, `LateCallsFenced` says that
  overtaken calls change nothing, `TableContract` that `PaidCall` implements the
  open specification `TableSpec`.
- `OnlyNewestActive`, `HumanDecisionStands`, `AdmissionExplained`, `RetriedOnce` and
  `AnswersAreFinal` (source review): a candidate has at most one unfinished
  review and it is the newest; no machine moves what a human decided; the record
  of an admission agrees with the review it names; a review is retried once; a
  result, the packet it is about (known by its hash) and the human's opinion of it do
  not change.
- `LinksNotLost`: a version is marked as mined only when each host it links is
  denied, a target, or the host or the website of a feed that is carried or was until its
  deletion: the code looks for no other feeds at the website of a feed it carries. `RemovedHasNoFindings`, `AdminDecisionStands` and
  `AutomaticAdmissionAllowed` set what a running cycle does against what an
  administrator did meanwhile. `OnlyAllowedContacted` is about every connection
  of every probe.
- `ValidatorsCertify`: a stored validator means that what it stands for is stored, so
  a 304 hides nothing. `TwinsNotBothAdmitted`: two mirrors do not pass the gate
  of one process by what their site still serves; feeds that an administrator restored from
  the archive or deleted articles of are left out (`restored` is a history that says so). The gate relies on
  documents that are chronological and no longer than the cap (`Chronicle`); `MCFeedRefresh`
  checks that the mirrors of the instance are. `RemovedStayOut`, `ReadersKeepTheirs` and `NewestKept` are
  the promises of clean-up and cap.
- `GuessesLimited`, `OneCredential`, `LogoutEndsGrants`, `SavesAreWhole`: no way round the count
  of wrong codes; one unspent refresh token per grant; a logout leaves no grant of
  its sessions, a consent under way included; every save that took place is in the
  value, with its seeds.

Bounds, and why they are enough. Two tokens or callers are needed for a race,
three tokens for a stale one to meet two live ones; three rows let an ended row,
its successor and an unkeyed job coexist; with two attempts there is a retry and
a last attempt; a lease of one tick separates "live" from "lapsed", which is all
that is ever compared. Ids, tokens and receipts are reused or bounded
(`Forget`, `Prune`, `MaxGen`); `MaxStray` bounds the abandoned calls in flight. Two
windows of different length with room for one and two sends make both refuse.
Two receipts are the first and one bought by an explicit retry, each with its
two sends. Costs are one unit, and a settled answer costs 0 or 1.

In the later runs `MaxEvents` bounds together what comes from outside (decisions,
revisions, imports, crashes), and everything the system does about it is
unbounded: two events are one decision and one change against work under way,
three add the failure or the crash in between, and five let a review be requested,
claimed, lost, claimed again and judged. Two aliases or mirrors are the least that
can be admitted twice. A frontier with room for one target and a page with
two links make the budget bind (in `discovery` when the feed whose website one of them names
is deleted first; while it is carried, the link is skipped and the version marked all the same). The nine webs of `MCFrontier` are the answers that take
different branches of the fetch. `MaxTries` 2 and `MaxCodes` 2 let a second code be asked
for between two wrong ones.
Symmetry is used for ids, tokens, loops and callers in runs without liveness
properties. Deadlock is checked, but for `discovery`, `feeds` and `access`: there the bounds on
cycles and events end a behaviour that the system would go on with. The
type invariants of `QueueWorker`, `SourceReview` and `ReviewAccess` are not among the properties
of a run: they are proved (section 4).

Fairness, and why the code justifies it (`worker_liveness`). Weak fairness of a
loop's local steps: an await of its own ends, a remote call returns or raises
(HTTP timeout), an action ends or runs into the job timeout, and a process that
ended is started again (after a crash by `restart: on-failure` in
docker-compose.yml, after a stop by the deploy that stopped it). Weak fairness
of time. Strong fairness of the four poll steps: a poll may fail, find
its kind switched off, or be stopped again and again, but each step goes through
if it is tried for ever. Without it nothing can be promised: a kind that
is switched off for ever never finishes its occurrence, by design. Two more
terms only give ids and tokens back to the model.

## 4. What is proved

Every safety invariant and action property of the passing runs, and each
refinement, is a theorem: it holds for every value of the constants (any number of
rows, processes, callers, tokens, feeds, webs, any capacity, price, cap or
limit; `TwinsNotBothAdmitted` under the condition named below), where the runs show it
for the instances above. Theorems that state more than the runs ask are marked (+). Each
proof has the same shape. An inductive invariant joins what the properties need of each other; TLC checked
it on the run of the module before it was proved; `Init` implies it and, with one
lemma per action and one step per part that the action can disturb, every
step keeps it; the properties follow from it, the action properties from it and one
step. The parts are named in the first section of each `*Proofs` module.

The queue, from `QueueAssumption` (positive capacities, attempts, lease and sweep limit;
`Null` is no kind, key, token or number):

- `QueueInvariant`: `QueueInv` is the conjunction of `TypeOK`, `SingletonActive`,
  `WithinCapacity`, `AttemptsAccounted`, `ScheduleKept` and `TokensNameRows`. They
  need each other: `TypeOK` survives a claim, which counts an attempt,
  only because `AttemptsAccounted` says a queued row has one left; a fresh token
  is on no row because `TokensNameRows` says that what a row carries is issued;
  `SingletonActive` survives the insertion of a successor because it held before
  and the row that ended, which is the one that was active, is so no more.
- `TypeCorrect`, `OneOccurrence`, `CapacityHolds`, `AttemptsBounded`,
  `ScheduleNeverLost`, `TokensAreNames` are its conjuncts; `LeasesFence` is the action
  property `LeaseFence` (a claim takes a token that no row carries, so a
  running row is never the one claimed).
- `SchedulesKeepPromise`: `JobQueue` implements `RecurringJob` (`KeepsPromise`). The
  refinement mapping reads phase and attempts of a schedule off its one active
  occurrence; a release that ends an occurrence and inserts the next is one step of the
  schedule because both happen in one transaction. It needs `QueueInv` and that
  whatever has a key repeats.

The run loops, from that, `QueueBounds` and `WorkerAssumption`:

- `WorkerInvariant`: a token is with one loop only, and while its run goes on no
  acknowledgement that names it is in flight (`TokensApart`); what a loop or an
  abandoned call is about to say of a run is true of it (`FatesTold`). The second
  rests on the first: an acknowledgement that lands late speaks of a run that is over.
- `LoopsKeepContract` (`QueueContract`): each step of the worker is one of `JobQueue` or
  leaves the table alone. Hence `QueueInvariantsHold` and `WorkersKeepSchedules`:
  the invariant and the promise of the queue, proved for arbitrary callers, hold of
  the real ones; no proof about the table is repeated.
- `WorkerTyped`, `OnlyDoneWorkIsAcked` (`AckedWorkWasDone`) and `CutOffWorkWaits`
  (`CutOffWorkWaitsForExpiry`).

Paid requests, from `ReceiptAssumption` (positive prices and windows, `Null` is no retry):

- `PaidInvariant`: `TableInv` (older receipts of a request are over, a retry stays
  bound to what it made) holds under any callers, and `CallInv` adds that a send without an
  answer has one sender. From it `PaidTyped`, `EverySendOnce`, `NothingIsBoughtTwice`,
  `RetriesBuyOnce`, `LateCallsAreFenced` and, as a refinement, `CallsKeepContract`
  (`TableContract`).
- `BudgetsHold` (`SpendWithinBudget`), by a second invariant, `BudgetInv`: the sends
  reserved are finitely many, what a window has used is within its budget, a
  send that may still cost something is charged in full, and no send was billed more
  than its charge. The sums of the model are recursive functions over finite sets; the
  lemmas from `SumByTable` to `SumWithout` show that such a function exists and what
  one more, one less or one smaller summand does to it, by the least
  counterexample.
- (+) What the functions of ai_receipts.sql promise on their own, `TableSpec`, whoever calls them
  in whatever order: `TablesHoldForAnyCallers` (the charges of each window within its budget,
  a retry buys once, older receipts are over) and `TablesFenceAnyCallers` (what was overtaken or
  is over keeps its outcome; no charge rises, no reservation goes away), from
  `TableInv` and the windows alone, which never mention a caller. So `execute_paid` may be changed
  without proving these again; `ChargesNeverRise` carries the last over to it by `TableContract`.

Source review, from `ReviewAssumption` (aliases form classes, limits are positive):
`ReviewInvariant`, from which `ReviewTyped`, `OnlyTheNewestIsActive`,
`HumanDecisionsStand`, `AdmissionsExplained`, `OneRetryEach` and `FinalAnswers`. Almost
everything follows from `RowStep`, what any step may do to one review: a settled
one never becomes unfinished again, an answer is not asked again, and an opinion
closes it. `OnlyNewestActive` needs beside it that of two reviews of a candidate the
older is settled; `HumanDecisionStands` that who is pending was not decided about.

Discovery, from `FetchAssumption` and `FrontierAssumption` (URLs are well formed, a URL of
the instance stands for the origin of each link that may become a target):

- `SearchesAreClean`, in every web: whatever a search contacts passed the gate of its
  own hop. A fetch is a function recursive on the hops that are left; `ChainExists` shows
  that there is one, `FetchesAreClean` what holds of all its hops, both by the
  number of hops at which it would first fail.
- `FrontierInvariant`: targets and candidates do not disappear, and a feed that is deleted was
  carried, so what an index knew when it was read is true however old it is (`IndexOK`), of websites as
  of feeds; harvests, probes,
  seeds and promotions under way name what exists. From it `NoLinkIsLost`,
  `RemovedStayEmpty`, `DecisionsOfAdminStand`, `AdmissionIsAllowed`, and with
  `SearchesAreClean` also `ContactsAreAllowed` (`OnlyAllowedContacted`).
- (+) `OnlyBlogsAreLetIn`: no target has a denied host, no candidate and no feed that discovery
  admitted is a feed of comments, and of the aliases of one feed it admits one at most,
  none if the catalog has one. The links are compared with an index that may be old; what saves the
  claim is that an admission asks of all aliases again when it writes. Besides the three, its invariant says that the
  seeds and insertions under way are allowed already (`Waiting`).
- (+) The addresses: `SitesAreTheirOwn` (the site of a site is itself, and a denied site
  denies its hosts), `OriginsAreProbed` (what is probed for a link is the root of its own
  host) and `AliasesFormClasses`, which is what `ReviewAssumption` takes of aliases and what
  `OnlyBlogsAreLetIn` needs: which alias was found first decides nothing.

Feeds and articles, from `ArticleAssumption` and `RefreshAssumption` (items belong to feeds and
are finitely many, a document has versions and lists items of its feed, 0 is no date as
it stands for a feed without a watermark, and no process has the name of another admitter):
`RefreshInvariant`, from which `ValidatorsHideNothing`, `RemovalsLast`,
`ReadersLoseNothing` and `NewestAreKept`. Its core is `Covered`: an entry is stored, or
was removed, or lies below the watermark, and no step but the deletion of its feed takes that away; so the
validator a refresh has carried about since it began may be stored whenever it ends. That
what was removed leaves a tombstone or the watermark (`RemovalsMarked`) and that a locked run of
the cap leaves `Cap` newer articles (`LocksRanked`) are its other parts.
(+) `NothingGoesUnrecorded` is a step property of the same invariant: of a feed that stays, no article
goes without a record of it, no record is lost and the watermark never goes back; a feed
goes only by an administrator's deletion, archived and not locked by a run of the cap, with all its rows.

`TwinsKeptApart`: `TwinsNotBothAdmitted` holds always if mirrors serve chronicles
(`Chronicles`): an address keeps its date from version to version, what a version lists no more
is older than all that it does, and it lists no more than the cap keeps. The condition is what
the gate needs, as it compares the new document with what the first mirror stored: were an item that
is still listed evicted, or something newer than all of it stored, the overlap of 80 % could
not be counted on. Its invariant, `TwinInv`, says that what is stored or removed
was listed by some version served so far with that date (`Sourced`), that a watermark lies below
all that is or will be listed (`MarksBelow`), what a refresh's verdict at the gate knows (`Verdicts`), and that one
of two mirrors is let in (`OneLetIn`).

Access, from `ManageConstants`, `OAuthConstants`, `SettingConstants` and `AccessConstants` (at
least one try and one date, `None` and `Never` are no logins and dates): `AccessInvariant`, from which
`AccessTyped`, `GuessesAreLimited`, `OneCredentialOnly`, `LogoutEndsAllGrants` and `NoSaveLost`.
`LogoutEndsGrants` is the one that needs two components: a session that a logout ended
or has taken cannot be opened again, as its code is used (`SessionsAreUsed`), and no
consent under way holds it. (+) Two step properties: `GrantsOnlyWither` (what was used, spent or revoked
of a grant stays so, a revoked one gets no token, none moves to another login or session) and
`EverySaveAddsItsEdit` (a value changes by a save only, which adds one edit that was not in it, under the
next version). The second needs that the request of an edit that is in the value names an
older version (`Repeats`), so that repeating it is refused.

The assumptions hold in every instance above (TLC evaluates them in the runs) and
say what the code's schema and configuration guarantee: types, positive limits, distinct
nulls. `FrontierAssumption` also says that the finite sets of addresses are
closed under what mining and probing can name.

### What stays with TLC

- `OccurrencesEnd` and `LoopsDrain`: liveness under fairness is out of the provers' reach.
- `TwinsNotBothAdmitted` where mirrors do not serve chronicles: there it does not hold. With `Cap` 1 and 4
  events in the instance of `feeds`, TLC shows the cap evicting what the first mirror stored and the
  second one passing. `TwinsKeptApart` states the condition; it is one on documents, and
  a site that redates its entries, or lists more of them than the cap keeps, does not meet it.
- What the three violation runs refute.
- `ENABLED`, and so that no state is a deadlock.

Modelling for the proofs found one thing wrong in an earlier version of these
modules: `Permits` looked only at the direct reply to robots.txt, so a web where robots.txt itself
redirects refuted `ContactsAreAllowed`. The instance for TLC had no such web; now it does. It also found
the two limits of the gate that `TwinsNotBothAdmitted` names: the length of the cap, and
feeds that were restored (section 6).

## 5. Findings

Where a document or comment and the code disagree; each is a run that TLC refutes.

1. `worker_retry`. worker.py:174 explains that a cycle that returned must not be
   retried as a whole. If the acknowledgement itself raises (`finish(True)`, line
   176), the handler at 185 asks for a retry with `finish(False)`: if the row is
   still leased the whole completed cycle runs again.
2. `worker_signal`. docs/BACKGROUND_JOBS.md:29 says a signal that races a committed
   claim starts no action. The stop event is last looked at before
   `recorder.begin()` is awaited (worker.py:155); a signal during that await does
   not keep the action from starting.
3. `paid_cancel`. docs/SOURCE_REVIEW.md:168 says a cancelled paid request is not sent
   again automatically. `execute_paid` stores it as `unknown`, which the next
   automatic run of the review sends again (once).

## 6. Not modelled

Not to be modelled: text processing (RSS, HTML and language detection), read-only
queries and scores, migrations and seeds, storage sampling, presentation. They have
no state of their own that steps of two actors could disturb. Not modelled though
they have: the operations recorder's run records and heartbeats (the recorder's calls
are awaits in `QueueWorker`), incremental sync and the offline outbox, manual
events, and the extension.

Abstracted inside the modelled parts: the order of `available_at` among rows
that are already due (any due row of the highest priority may be claimed); the
run records and heartbeats (the recorder's calls are awaits that may be cut
off); the daily budget as a setting (a constant here, read once per call in the
code); the provider's prices and the parsing of an answer, which is `ok`, `bad`
(any final error) or `busy` (429 and 5xx). The model takes from
`review_provider.build_request` that the reservation is an upper bound of the cost.

Source review: the claim's order by availability is left open, and so is the
refusal of comment feeds at a request. Two claims may lease one review in turn (the test
at backend/tests/test_source_review_postgres.py:253 wants one agent to get it): the
token fences the first, so nothing is applied twice. A stale pick may also turn a review
an administrator has just retried stale, which costs a review and no decision.
The older `reconcile_source_review` is not modelled: the current cycle does not call it.

Discovery: `record_targets` inserts targets and referrers in one step. Dates are not
measured, so whatever waits may be due. One cycle runs at a time: POST /admin/discovery/run
(routers/admin_discovery.py:414) can run a second one beside the worker's, with an index and probes of
its own; its statements are those of the one modelled, and ingestions bring second indexes and harvests
already. A feed's website does not change (an administrator can change it in the code), and
the expiry of a remembered robots.txt is left out: a web remembers an answer or does not. Races the code has and no property
forbids, found while modelling: a seeding request that read a row before a block
undoes the block (`AdminDecisionStands` names this exception); a harvest with
an old index inserts a target for a host that was blocked meanwhile
(directory_sources.py:181); attempts counted from the selected batch may exhaust a
target that was queued afresh (discovery_probe.py:190); under READ COMMITTED the
trigger on referrers may copy an older count; a promotion does not look at its target's
status; two probes may insert two addresses that differ by a slash; an OPML file
that lists an address another one of the cycle has just added fails as a whole. An address whose
path ends in several slashes is not in the model: `feed_url_aliases` gives `/feed//` the
alias `/feed`, whose own alias is `/feed/`, so `AliasesFormClasses` does not extend to it.

Articles and feeds: a run of the cap treats one feed and its batch is never cut;
the row lock and the delete of one row are one step; an item without a date (its first
fetch dates it, docs/CRAWLER_OPERATIONS.md:125) is left out; fragments of item addresses,
revision history, article discoveries and the check of
twins within one OPML file are not modelled; in the search for a mirror (source_identity.py:73-109),
one that is not `normal` or not among the five ranked is missed as by a look-up that fails (`found`), and
documents are no longer than the sample (`SampleLimit`);
an administrator's batch of clean-up is as many steps as items; a server always sends a
validator; unarchiving is one step; a process does not refresh one feed twice at a
time. Races the code has: two processes that refresh one feed may leave the
older revision under the newer validator until the feed changes again; a failure
counted from a stale row may archive a feed right after a success, where
docs/FEATURES.md:639 speaks of ten failures in a row; a gate under way may archive
again what was just unarchived; a detected language may replace a manual one; an admission under way
while an administrator archives and restores its mirror may let both in (5 events show it in
the instance of `feeds`).

Access: the check of the login is taken together with the row lock that follows it.
Refusals for a stale challenge, a missing configuration or too many requests change
nothing and are not shown. A grant is taken to have the scope of the catalog, and its
thirty days are any date to come. Deletion of grants thirty days after their end, which nobody can use any more, `last_used_at` and client
registrations (signed, not stored) are left out. One logout runs at a time. A value of a
setting is the set of its edits, and the seeds of an edit are hosts not yet known.

Offline reading: what a module of it would have to settle, from reading the code.
Snapshots of two tabs may be applied out of order, and an unchanged one then moves the
cursor past items an older one put back (frontend offline-state.ts:82, `applySnapshot`); a tab
may send an operation it read before another tab replaced it and sent the replacement
(offline-reading.ts, `runSync`); the extension drops an operation queued
while its pull was under way when the answer does not name its article, where the PWA keeps
it (extension/storage-coordinator.js against offline-state.ts). One tab alone
replays in order and keeps a newer toggle queued.

## 7. Plan

Done: `RecurringJob`, `JobQueue`, `JobQueueProofs`, `QueueWorker`, `AiReceipts`, `PaidCall`,
`SourceReview`, `WebAddress`, `Fetching`, `Frontier`, `Articles`, `FeedRefresh`, `ManageAuth`, `Settings`,
`ReviewOAuth`, `ReviewAccess`.

Proved: all the theorems of section 4, in `JobQueueProofs`, `QueueWorkerProofs`, `PaidCallProofs`,
`SourceReviewProofs`, `FetchingProofs`, `FrontierProofs`, `FeedRefreshProofs` and `ReviewAccessProofs`.

Left to prove: nothing that a run states of safety. What stays with TLC, and why, is said at the end of
section 4. A weaker condition than `Chronicles` under which mirrors are kept apart, as the gate
tolerates a fifth of the sample missing, would be the next thing to look for.

To model, if room is left: the operations recorder against the watchdog, and the
offline outbox with incremental sync, replayed from two devices.
