------------------------------ MODULE JobQueue ------------------------------
(***************************************************************************)
(* The durable job queue: the table background_jobs and the PostgreSQL     *)
(* functions that are the only way to change it                            *)
(* (backend/migrations/20261009000000_background_queue.sql).  Each         *)
(* function is one transaction that locks the rows it changes, so each is  *)
(* one action.  Its callers are left open: any caller may enqueue, claim,  *)
(* and present any token it was ever given, as late as it likes.           *)
(*                                                                         *)
(* Time.  The functions compare timestamps of the database clock only with *)
(* "now".  A row therefore carries what is left until available_at (wait)  *)
(* and until lease_expires_at (lease), both counted down by Tick; the      *)
(* order of available_at among rows that are already due is abstracted.    *)
(***************************************************************************)
EXTENDS Integers, FiniteSets, Functions

CONSTANTS
  JobId,        \* row ids; a row that left the table frees its id (a bound)
  Kind,         \* job kinds
  Key,          \* singleton keys; the worker uses the one key "scheduler"
  Token,        \* lease tokens (uuids); finite, reissued once nobody has one
  Null,         \* SQL NULL
  Priority,     \* the priorities callers use
  Interval,     \* the repeat_seconds callers use, in ticks
  Capacity,     \* background_job_kinds.max_concurrency
  MaxAttempts,  \* max_attempts of every job
  Backoff,      \* Backoff[n]: the retry delay after the n-th attempt
  LeaseTicks,   \* p_lease_seconds
  SweepLimit    \* p_limit of one reconciliation

ASSUME QueueAssumption ==
  /\ Null \notin Kind \cup Key \cup Token \cup Int
  /\ 0 \in Priority /\ Priority \subseteq Int
  /\ Interval \subseteq Nat \ {0}
  /\ Capacity \in [Kind -> Nat \ {0}]
  /\ MaxAttempts \in Nat \ {0}
  /\ Backoff \in [1..MaxAttempts -> Nat]
  /\ LeaseTicks \in Nat \ {0}
  /\ SweepLimit \in Nat \ {0}
  /\ IsFiniteSet(JobId)

VARIABLES
  jobs,       \* the table: JobId -> row
  issued,     \* the tokens some caller may still present
  scheduled   \* history: the <<kind, key>> ever enqueued to repeat

queueVars == <<jobs, issued, scheduled>>

Status == {"absent", "queued", "running", "succeeded", "dead"}

Row == [status : Status, kind : Kind \cup {Null}, key : Key \cup {Null},
        prio : Priority, repeat : Nat, wait : Nat, attempts : 0..MaxAttempts,
        token : Token \cup {Null}, lease : Nat]

NoRow == [status |-> "absent", kind |-> Null, key |-> Null, prio |-> 0,
          repeat |-> 0, wait |-> 0, attempts |-> 0, token |-> Null, lease |-> 0]

NewRow(k, key, prio, repeat, wait) ==
  [status |-> "queued", kind |-> k, key |-> key, prio |-> prio,
   repeat |-> repeat, wait |-> wait, attempts |-> 0, token |-> Null, lease |-> 0]

\* The row inserted when a recurring occurrence ends.
NextOccurrence(row) ==
  NewRow(row.kind, row.key, row.prio, row.repeat, row.repeat)

Coalesce(value, default) == IF value = Null THEN default ELSE value

\* ON CONFLICT DO UPDATE changes only the settings the caller gave (not Null).
Resettled(row, prio, repeat) ==
  [row EXCEPT !.prio = Coalesce(prio, @), !.repeat = Coalesce(repeat, @)]

Running(k) == {j \in JobId : jobs[j].status = "running" /\ jobs[j].kind = k}
FreeIds    == {j \in JobId : jobs[j].status = "absent"}
Due(k)     == {j \in JobId : /\ jobs[j].status = "queued" /\ jobs[j].kind = k
                             /\ jobs[j].wait = 0}
Expired    == {j \in JobId : jobs[j].status = "running" /\ jobs[j].lease = 0}
Active(j)  == jobs[j].status \in {"queued", "running"}

\* Faulty variant: the index covers queued rows only.
DuplicatesAmongQueued(k, key) ==
  {j \in JobId : /\ jobs[j].status = "queued" /\ jobs[j].kind = k
                 /\ key # Null /\ jobs[j].key = key}

\* The partial unique index on (kind, singleton_key); NULL keys never conflict.
Duplicates(k, key) ==
  {j \in JobId : /\ Active(j) /\ jobs[j].kind = k
                 /\ key # Null /\ jobs[j].key = key}

\* Faulty variant: the expiry of the lease is not compared.
OwnsByTokenOnly(j, t) == jobs[j].status = "running" /\ jobs[j].token = t

\* The lease check every renewal and acknowledgement makes.
Owns(j, t) ==
  /\ jobs[j].status = "running"
  /\ jobs[j].token = t
  /\ jobs[j].lease > 0

Init ==
  /\ jobs = [j \in JobId |-> NoRow]
  /\ issued = {}
  /\ scheduled = {}

-----------------------------------------------------------------------------
\* Faulty variant: a queued duplicate gets its attempts back.
EnqueueStartsOver(k, key, prio, repeat) ==
  /\ \/ \E j \in Duplicates(k, key) :
          jobs' = [jobs EXCEPT ![j].attempts =
                     IF jobs[j].status = "queued" THEN 0 ELSE jobs[j].attempts]
     \/ /\ Duplicates(k, key) = {}
        /\ \E j \in FreeIds :
             jobs' = [jobs EXCEPT ![j] =
                        NewRow(k, key, Coalesce(prio, 0), Coalesce(repeat, 0), 0)]
  /\ scheduled' = IF key # Null THEN scheduled \cup {<<k, key>>} ELSE scheduled
  /\ UNCHANGED issued

\* enqueue_background_job.  A duplicate keeps its status, attempts, lease and
\* available_at.
Enqueue(k, key, prio, repeat) ==
  /\ \/ \E j \in Duplicates(k, key) :
          jobs' = [jobs EXCEPT ![j] = Resettled(jobs[j], prio, repeat)]
     \/ /\ Duplicates(k, key) = {}
        /\ \E j \in FreeIds :
             jobs' = [jobs EXCEPT ![j] =
                        NewRow(k, key, Coalesce(prio, 0), Coalesce(repeat, 0), 0)]
  /\ scheduled' = IF key # Null THEN scheduled \cup {<<k, key>>} ELSE scheduled
  /\ UNCHANGED issued

\* The row a claim locks: the due row of highest priority.  SKIP LOCKED passes
\* over rows another transaction holds, and the only one that holds a queued
\* row is an enqueue that updates a duplicate, so only keyed rows are passed.
Claimable(k) ==
  {j \in Due(k) : \A i \in Due(k) :
                    jobs[i].prio > jobs[j].prio => jobs[i].key # Null}

Take(j, t) ==
  [jobs EXCEPT ![j] = [jobs[j] EXCEPT !.status = "running", !.attempts = @ + 1,
                                      !.token = t, !.lease = LeaseTicks]]

\* Faulty variants: no capacity check; a token that is not fresh.
ClaimBeyondCapacity(k, t) ==
  /\ t \in Token \ issued
  /\ \E j \in Claimable(k) : jobs' = Take(j, t)
  /\ issued' = issued \cup {t}
  /\ UNCHANGED scheduled
ClaimWithOldToken(k, t) ==
  /\ Cardinality(Running(k)) < Capacity[k]
  /\ \E j \in Claimable(k) : jobs' = Take(j, t)
  /\ issued' = issued \cup {t}
  /\ UNCHANGED scheduled

\* claim_background_job: capacity is decided under the lock of the kind's row.
Claim(k, t) ==
  /\ t \in Token \ issued
  /\ Cardinality(Running(k)) < Capacity[k]
  /\ \E j \in Claimable(k) : jobs' = Take(j, t)
  /\ issued' = issued \cup {t}
  /\ UNCHANGED scheduled

\* renew_background_job, when it finds the row; otherwise it changes nothing.
Renew(j, t) ==
  /\ Owns(j, t)
  /\ jobs' = [jobs EXCEPT ![j] = [jobs[j] EXCEPT !.lease = LeaseTicks]]
  /\ UNCHANGED <<issued, scheduled>>

\* Faulty variant: one attempt too many.
TerminalLate(j, ok) == ok \/ jobs[j].attempts > MaxAttempts

Terminal(j, ok) == ok \/ jobs[j].attempts >= MaxAttempts

\* Faulty variant: the row keeps the token of its last attempt.
ReleasedWithToken(j, ok) ==
  [jobs[j] EXCEPT
     !.status = IF ok THEN "succeeded" ELSE IF Terminal(j, ok) THEN "dead" ELSE "queued",
     !.wait   = IF Terminal(j, ok) THEN 0 ELSE Backoff[jobs[j].attempts],
     !.lease  = 0]

Released(j, ok) ==
  [jobs[j] EXCEPT
     !.status = IF ok THEN "succeeded" ELSE IF Terminal(j, ok) THEN "dead" ELSE "queued",
     !.wait   = IF Terminal(j, ok) THEN 0 ELSE Backoff[jobs[j].attempts],
     !.token  = Null,
     !.lease  = 0]

\* Faulty variant: a dead row has no next occurrence.
RecurringIfSucceeded(S, ok) == {j \in S : ok /\ jobs[j].repeat > 0}

\* The rows of S whose end inserts the next occurrence in the same transaction.
Recurring(S, ok) == {j \in S : Terminal(j, ok) /\ jobs[j].repeat > 0}

\* What both ways out of "running" do to the rows S: release each, and give
\* every recurring one that ended a successor under a new id.
Release(S, ok) ==
  /\ \E N \in SUBSET FreeIds : \E parent \in Bijection(N, Recurring(S, ok)) :
       jobs' = [j \in JobId |->
                  IF j \in S THEN Released(j, ok)
                  ELSE IF j \in N THEN NextOccurrence(jobs[parent[j]])
                  ELSE jobs[j]]
  /\ UNCHANGED <<issued, scheduled>>

\* finish_background_job, when the token still owns the row.
Finish(j, t, ok) ==
  /\ Owns(j, t)
  /\ Release({j}, ok)

\* reconcile_background_jobs: at most SweepLimit expired rows; a concurrent
\* sweep may hold the others.
Reconcile ==
  \E S \in SUBSET Expired :
    /\ S # {}
    /\ Cardinality(S) <= SweepLimit
    /\ Release(S, FALSE)

\* The watchdog deletes old succeeded rows.  A dead row stays in the table, but
\* every function above reads only queued and running rows, so the model lets
\* go of both (a bound on the table, not on what runs).
Prune(j) ==
  /\ jobs[j].status \in {"succeeded", "dead"}
  /\ jobs' = [jobs EXCEPT ![j] = NoRow]
  /\ UNCHANGED <<issued, scheduled>>

Countdown(n) == IF n > 0 THEN n - 1 ELSE 0

Tick ==
  /\ \E j \in JobId : jobs[j].wait > 0 \/ jobs[j].lease > 0
  /\ jobs' = [j \in JobId |-> [jobs[j] EXCEPT !.wait = Countdown(@),
                                              !.lease = Countdown(@)]]
  /\ UNCHANGED <<issued, scheduled>>

\* The last holder of a token is gone: a uuid nobody can present is as good as
\* one that was never issued.
Forget(t) ==
  /\ t \in issued
  /\ \A j \in JobId : jobs[j].token # t
  /\ issued' = issued \ {t}
  /\ UNCHANGED <<jobs, scheduled>>

Next ==
  \/ \E k \in Kind, key \in Key, r \in Interval : Enqueue(k, key, Null, r)
  \/ \E k \in Kind, p \in Priority : Enqueue(k, Null, p, Null)
  \/ \E k \in Kind, t \in Token : Claim(k, t)
  \/ \E j \in JobId, t \in issued : Renew(j, t)
  \/ \E j \in JobId, t \in issued, ok \in BOOLEAN : Finish(j, t, ok)
  \/ Reconcile
  \/ \E j \in JobId : Prune(j)
  \/ Tick
  \/ \E t \in Token : Forget(t)

Spec == Init /\ [][Next]_queueVars

-----------------------------------------------------------------------------
\* Every row is a row of the table: in particular the CHECK that a row has a
\* lease token exactly while it runs, and absent ids hold nothing.
TypeOK ==
  /\ jobs \in [JobId -> Row]
  /\ \A j \in JobId : (jobs[j].status = "running") <=> (jobs[j].token # Null)
  /\ \A j \in JobId : (jobs[j].status = "absent") <=> (jobs[j].kind = Null)
  /\ issued \subseteq Token
  /\ scheduled \subseteq Kind \X Key

\* At most one occurrence of a singleton is queued or running, however
\* enqueues, acknowledgements and sweeps that insert successors interleave.
SingletonActive ==
  \A i, j \in JobId :
    Active(i) /\ Active(j) /\ jobs[i].key # Null
      /\ jobs[i].key = jobs[j].key /\ jobs[i].kind = jobs[j].kind => i = j

\* A kind never has more running rows than its capacity.
WithinCapacity == \A k \in Kind : Cardinality(Running(k)) <= Capacity[k]

\* An attempt is counted when it is claimed and never given back: a queued row
\* has an attempt left, a running row is on one of its attempts, and only a row
\* that used them all is dead.
AttemptsAccounted ==
  \A j \in JobId :
    /\ jobs[j].status = "queued" => jobs[j].attempts < MaxAttempts
    /\ jobs[j].status \in {"running", "succeeded"} => jobs[j].attempts > 0
    /\ jobs[j].status = "dead" => jobs[j].attempts = MaxAttempts

\* A schedule is never lost: once a repeating singleton was enqueued, one of
\* its occurrences is queued or running in every later state, whether the
\* previous one succeeded, died of its failures or died with its worker.
ScheduleKept ==
  \A s \in scheduled :
    \E j \in JobId : /\ Active(j) /\ jobs[j].repeat > 0
                     /\ jobs[j].kind = s[1] /\ jobs[j].key = s[2]

\* A lease names its row: no two running rows carry one token, and a token on a
\* row counts as issued, so it is not handed out again.
TokensNameRows ==
  /\ \A j \in JobId : jobs[j].token # Null => jobs[j].token \in issued
  /\ \A i, j \in JobId :
       jobs[i].token # Null /\ jobs[i].token = jobs[j].token => i = j

\* What the lease guards of row j in one step.
FencedStep(j) ==
  jobs[j].status = "running" =>
    /\ jobs'[j].status = "running" =>
         /\ jobs'[j].token = jobs[j].token
         /\ jobs'[j].attempts = jobs[j].attempts
    /\ jobs[j].lease = 0 => jobs'[j].lease = 0 /\ jobs'[j].status # "succeeded"

\* The lease fences its holder: a running row that stays running keeps the token
\* and the attempt it was claimed with, and once its lease has lapsed it can
\* neither be renewed nor acknowledged, however late its holder speaks up.
LeaseFence == [][\A j \in JobId : FencedStep(j)]_queueVars

-----------------------------------------------------------------------------
\* The promise of RecurringJob, read off the table: the phase of a schedule is
\* the status of its one queued or running occurrence.
Occurrence(s) == {j \in JobId : Active(j) /\ jobs[j].kind = s[1] /\ jobs[j].key = s[2]}
PhaseOf(s) == IF Occurrence(s) = {} THEN "unscheduled"
              ELSE IF \E j \in Occurrence(s) : jobs[j].status = "running" THEN "leased"
              ELSE "pending"
TriesOf(s) == IF Occurrence(s) = {} THEN 0
              ELSE jobs[CHOOSE j \in Occurrence(s) : TRUE].attempts

Promise == INSTANCE RecurringJob WITH
             Schedule <- Kind \X Key,
             phase <- [s \in Kind \X Key |-> PhaseOf(s)],
             tries <- [s \in Kind \X Key |-> TriesOf(s)]

\* Every transaction of the queue is a step of the promised schedule (or does
\* not touch it): occurrences are never doubled, lost or attempted too often.
KeepsPromise == Promise!Spec
=============================================================================
