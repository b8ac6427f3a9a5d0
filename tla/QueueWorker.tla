----------------------------- MODULE QueueWorker -----------------------------
(***************************************************************************)
(* The worker's run loops over the durable queue (backend/worker.py with   *)
(* services/job_queue.py): one loop per kind and process.  A loop sweeps,  *)
(* checks its switch, enqueues its cycle, claims it, runs the action while *)
(* a second task renews the lease, records the run and acknowledges.       *)
(*                                                                         *)
(* A remote call is one transaction of JobQueue.  A call that raises may   *)
(* never have reached the database, or be abandoned in flight: it is then  *)
(* stray and may still commit at any later time.  (A lost reply is a stray *)
(* call that commits at once.)  A call that is answered takes effect and   *)
(* returns in one step: between the two the loop does nothing.             *)
(*                                                                         *)
(* Sleeps, polls and the job timeout are not measured: a waiting loop may  *)
(* go on at any time, an action may time out at any time.  Only the leases *)
(* and delays the database keeps are counted.                              *)
(***************************************************************************)
EXTENDS Integers, FiniteSets

CONSTANTS
  JobId, Kind, Key, Token, Null, Priority, Interval, Capacity,
  MaxAttempts, Backoff, LeaseTicks, SweepLimit,
  Loop,        \* the run loops, each of one worker process
  KindOf,      \* the kind a loop serves
  Scheduler,   \* the singleton key of every cycle
  Every,       \* the loop's interval, its repeat_seconds
  MaxStray     \* bound: abandoned calls in flight at once

ASSUME WorkerAssumption ==
  /\ KindOf \in [Loop -> Kind]
  /\ Scheduler \in Key
  /\ Every \in Interval
  /\ MaxStray \in Nat

VARIABLES
  jobs, issued, scheduled,   \* the queue
  loop,      \* what each run loop is doing
  stray,     \* abandoned calls that may still commit
  fate       \* history: what became of the action run under a token

Q == INSTANCE JobQueue

ASSUME QueueBounds == Q!QueueAssumption

queueVars == <<jobs, issued, scheduled>>
vars      == <<queueVars, loop, stray, fate>>

(***************************************************************************)
(* A loop: the await it is at (pc), whether its process was told to stop,  *)
(* the claim it holds, its two tasks, and what it records about its run.   *)
(***************************************************************************)
PC == {"off", "reconcile", "gate", "enqueue", "claim", "begin", "action",
       "record", "ackOk", "ackFail", "pause"}
Claimed == [id : JobId \cup {Null}, token : Token \cup {Null}]
LoopState == [pc : PC, stop : BOOLEAN, job : Claimed,
              task : {"none", "running", "returned", "raised"},
              renewal : {"none", "sleeping", "sent", "lost"},
              verdict : {"none", "succeeded", "failed", "lost", "cancelled"}]

NoJob == [id |-> Null, token |-> Null]
OffLoop == [pc |-> "off", stop |-> FALSE, job |-> NoJob, task |-> "none",
            renewal |-> "none", verdict |-> "none"]

\* The calls a loop can have in flight.
Call == [op : {"reconcile", "enqueue", "claim", "renew", "finish"},
         loop : Loop, job : Claimed, ok : BOOLEAN]

CallOf(w, op, ok) == [op |-> op, loop |-> w, job |-> loop[w].job, ok |-> ok]

\* What a loop has in flight: the call it awaits and its renewal task's call.
InFlight(w) ==
  {CallOf(w, loop[w].pc, FALSE) : x \in {"reconcile", "enqueue", "claim"} \cap {loop[w].pc}}
    \cup {CallOf(w, "finish", TRUE)  : x \in {"ackOk"} \cap {loop[w].pc}}
    \cup {CallOf(w, "finish", FALSE) : x \in {"ackFail"} \cap {loop[w].pc}}
    \cup {CallOf(w, "renew", FALSE)  : x \in {"sent"} \cap {loop[w].renewal}}

\* Each call in flight that is abandoned is lost or may still commit.
Abandon(w) ==
  \E S \in SUBSET InFlight(w) : /\ Cardinality(stray \cup S) <= MaxStray
                                /\ stray' = stray \cup S

Init ==
  /\ Q!Init
  /\ loop = [w \in Loop |-> OffLoop]
  /\ stray = {}
  /\ fate = [t \in Token |-> "none"]

At(w, label) == loop[w].pc = label
Goto(w, label) == loop' = [loop EXCEPT ![w].pc = label]
Leave(w) == loop' = [loop EXCEPT ![w] = OffLoop]

\* Every check of the stop event: on to the next call, or out of the loop.
Proceed(w, label) == IF loop[w].stop THEN Leave(w) ELSE Goto(w, label)

-----------------------------------------------------------------------------
\* The process starts, or is restarted, with a fresh stop event.
Start(w) ==
  /\ At(w, "off")
  /\ Goto(w, "reconcile")
  /\ UNCHANGED <<queueVars, stray, fate>>

Signal(w) ==
  /\ ~At(w, "off") /\ ~loop[w].stop
  /\ loop' = [loop EXCEPT ![w].stop = TRUE]
  /\ UNCHANGED <<queueVars, stray, fate>>

SweepExpired(w) ==
  /\ At(w, "reconcile")
  /\ Q!Reconcile \/ (Q!Expired = {} /\ UNCHANGED queueVars)
  /\ Proceed(w, "gate")
  /\ UNCHANGED <<stray, fate>>

\* can_start: a disabled kind keeps polling and touches no queue row.
SwitchOn(w)  == At(w, "gate") /\ Proceed(w, "enqueue") /\ UNCHANGED <<queueVars, stray, fate>>
SwitchOff(w) == At(w, "gate") /\ Goto(w, "pause") /\ UNCHANGED <<queueVars, stray, fate>>

\* Faulty variant: p_repeat_seconds is not passed.
EnqueueOnce(w) ==
  /\ At(w, "enqueue")
  /\ Q!Enqueue(KindOf[w], Scheduler, Null, Null)
  /\ Proceed(w, "claim")
  /\ UNCHANGED <<stray, fate>>

EnqueueCycle(w) ==
  /\ At(w, "enqueue")
  /\ Q!Enqueue(KindOf[w], Scheduler, Null, Every)
  /\ Proceed(w, "claim")
  /\ UNCHANGED <<stray, fate>>

\* A claim that commits while the process is told to stop starts nothing: the
\* row keeps its lease until a sweep returns it.
ClaimCycle(w) ==
  /\ At(w, "claim")
  /\ \E t \in Token :
       /\ Q!Claim(KindOf[w], t)
       /\ IF loop[w].stop THEN Leave(w)
          ELSE \E j \in JobId :
                 /\ jobs'[j].token = t
                 /\ loop' = [loop EXCEPT ![w].pc = "begin",
                                         ![w].job = [id |-> j, token |-> t]]
  /\ UNCHANGED <<stray, fate>>

\* No due row, none that another transaction (an enqueue of the same cycle) does
\* not hold locked, or no capacity.
NothingToClaim(w) ==
  /\ At(w, "claim")
  /\ \/ \A j \in Q!Due(KindOf[w]) : jobs[j].key # Null
     \/ Cardinality(Q!Running(KindOf[w])) >= Capacity[KindOf[w]]
  /\ Goto(w, "pause")
  /\ UNCHANGED <<queueVars, stray, fate>>

\* reconcile, can_start, enqueue or claim raises: no work starts this round.
PollFails(w) ==
  /\ loop[w].pc \in {"reconcile", "gate", "enqueue", "claim"}
  /\ Abandon(w)
  /\ Goto(w, "pause")
  /\ UNCHANGED <<queueVars, fate>>

\* recorder.begin is over; the action and the renewal start together.
BeginRun(w) ==
  /\ At(w, "begin")
  /\ loop' = [loop EXCEPT ![w].pc = "action", ![w].task = "running",
                          ![w].renewal = "sleeping"]
  /\ fate' = [fate EXCEPT ![loop[w].job.token] = "running"]
  /\ UNCHANGED <<queueVars, stray>>

ActionEnds(w) ==
  /\ loop[w].task = "running"
  /\ \E outcome \in {"returned", "raised"} :
       /\ loop' = [loop EXCEPT ![w].task = outcome]
       /\ fate' = [fate EXCEPT ![loop[w].job.token] = outcome]
  /\ UNCHANGED <<queueVars, stray>>

SendRenewal(w) ==
  /\ loop[w].renewal = "sleeping"
  /\ loop' = [loop EXCEPT ![w].renewal = "sent"]
  /\ UNCHANGED <<queueVars, stray, fate>>

RenewLease(w) ==
  /\ loop[w].renewal = "sent"
  /\ Q!Renew(loop[w].job.id, loop[w].job.token)
  /\ loop' = [loop EXCEPT ![w].renewal = "sleeping"]
  /\ UNCHANGED <<stray, fate>>

\* The renewal is refused, or raises: ownership is uncertain and counts as lost.
RenewalFails(w) ==
  /\ loop[w].renewal = "sent"
  /\ loop' = [loop EXCEPT ![w].renewal = "lost"]
  /\ \/ ~Q!Owns(loop[w].job.id, loop[w].job.token) /\ UNCHANGED stray
     \/ Abandon(w)
  /\ UNCHANGED <<queueVars, fate>>

\* Faulty variant: the action's task is not cancelled.
EndLeavingTask(w, verdict) ==
  /\ At(w, "action")
  /\ Abandon(w)
  /\ loop' = [loop EXCEPT ![w].pc = "record", ![w].verdict = verdict,
                          ![w].renewal = "none"]
  /\ UNCHANGED queueVars

\* Leaving _leased_action, however it ends, cancels both tasks.
EndLeasedAction(w, verdict) ==
  /\ At(w, "action")
  /\ Abandon(w)
  /\ loop' = [loop EXCEPT ![w].pc = "record", ![w].verdict = verdict,
                          ![w].task = "none", ![w].renewal = "none"]
  /\ UNCHANGED queueVars

\* Faulty variant: an ended action wins over a lost lease.
LostLeaseIgnored(w) ==
  /\ loop[w].renewal = "lost"
  /\ EndLeasedAction(w, "succeeded")
  /\ fate' = [fate EXCEPT ![loop[w].job.token] = "lost"]

\* A lost lease wins over an action that has ended as well.
LeaseIsLost(w) ==
  /\ loop[w].renewal = "lost"
  /\ EndLeasedAction(w, "lost")
  /\ fate' = [fate EXCEPT ![loop[w].job.token] = "lost"]

ActionReturns(w) ==
  /\ loop[w].renewal # "lost"
  /\ loop[w].task = "returned"
  /\ EndLeasedAction(w, "succeeded")
  /\ UNCHANGED fate

\* Faulty variants: a failure is acknowledged as a success; no job timeout.
ActionFailureSwallowed(w) ==
  /\ loop[w].renewal # "lost"
  /\ loop[w].task \in {"raised", "running"}
  /\ EndLeasedAction(w, "succeeded")
  /\ fate' = [fate EXCEPT ![loop[w].job.token] = "raised"]
ActionFailsUntimed(w) ==
  /\ loop[w].renewal # "lost"
  /\ loop[w].task = "raised"
  /\ EndLeasedAction(w, "failed")
  /\ fate' = [fate EXCEPT ![loop[w].job.token] = "raised"]

\* The action raised, or is cancelled by the job's timeout.
ActionFails(w) ==
  /\ loop[w].renewal # "lost"
  /\ loop[w].task \in {"raised", "running"}
  /\ EndLeasedAction(w, "failed")
  /\ fate' = [fate EXCEPT ![loop[w].job.token] = "raised"]

\* recorder.finish is over; what follows depends on the branch it is called in.
RecordRun(w) ==
  /\ At(w, "record")
  /\ \/ loop[w].verdict = "succeeded" /\ Goto(w, "ackOk")
     \/ loop[w].verdict = "failed"    /\ Goto(w, "ackFail")
     \/ loop[w].verdict = "lost"      /\ Goto(w, "pause")
     \/ loop[w].verdict = "cancelled" /\ Leave(w)
  /\ UNCHANGED <<queueVars, stray, fate>>

\* queue.finish returns; a rejected acknowledgement is only logged.
Acknowledge(w) ==
  /\ loop[w].pc \in {"ackOk", "ackFail"}
  /\ \/ Q!Finish(loop[w].job.id, loop[w].job.token, At(w, "ackOk"))
     \/ ~Q!Owns(loop[w].job.id, loop[w].job.token) /\ UNCHANGED queueVars
  /\ Goto(w, "pause")
  /\ UNCHANGED <<stray, fate>>

\* finish(True) raises inside the try block: the loop takes it for a failure of
\* the cycle, records that, and asks for a retry.
AckRaises(w) ==
  /\ At(w, "ackOk")
  /\ Abandon(w)
  /\ loop' = [loop EXCEPT ![w].pc = "record", ![w].verdict = "failed"]
  /\ UNCHANGED <<queueVars, fate>>

\* finish(False) raises: logged, and the lease is left to expire.
NackRaises(w) ==
  /\ At(w, "ackFail")
  /\ Abandon(w)
  /\ Goto(w, "pause")
  /\ UNCHANGED <<queueVars, fate>>

\* Faulty variant: the loop polls again without looking at the stop event.
EndPauseRegardless(w) ==
  /\ At(w, "pause")
  /\ loop' = [loop EXCEPT ![w] = [OffLoop EXCEPT !.pc = "reconcile", !.stop = loop[w].stop]]
  /\ UNCHANGED <<queueVars, stray, fate>>

\* The poll wait ends, by its timeout or by the stop event.
EndPause(w) ==
  /\ At(w, "pause")
  /\ loop' = [loop EXCEPT ![w] = IF @.stop THEN OffLoop ELSE [OffLoop EXCEPT !.pc = "reconcile"]]
  /\ UNCHANGED <<queueVars, stray, fate>>

\* The awaits of the try block whose handler records a cancellation.
InTry(w) ==
  \/ loop[w].pc \in {"action", "ackOk"}
  \/ At(w, "record") /\ loop[w].verdict = "succeeded"

\* An attempt whose action is cut off is abandoned, never acknowledged.
CutOff(w) ==
  fate' = IF At(w, "action") THEN [fate EXCEPT ![loop[w].job.token] = "lost"] ELSE fate

\* Faulty variant: a cancelled loop gives its job back.
DrainGivesBack(w) ==
  /\ loop[w].stop
  /\ loop[w].verdict # "cancelled"
  /\ Abandon(w)
  /\ IF InTry(w)
       THEN loop' = [loop EXCEPT ![w].pc = "record", ![w].verdict = "failed",
                                 ![w].task = "none", ![w].renewal = "none"]
       ELSE Leave(w)
  /\ CutOff(w)
  /\ UNCHANGED queueVars

\* The 20 s drain is over: every loop task is cancelled, once, at its await.
DrainExpires(w) ==
  /\ loop[w].stop
  /\ loop[w].verdict # "cancelled"
  /\ Abandon(w)
  /\ IF InTry(w)
       THEN loop' = [loop EXCEPT ![w].pc = "record", ![w].verdict = "cancelled",
                                 ![w].task = "none", ![w].renewal = "none"]
       ELSE Leave(w)
  /\ CutOff(w)
  /\ UNCHANGED queueVars

Crash(w) ==
  /\ ~At(w, "off")
  /\ Abandon(w)
  /\ Leave(w)
  /\ CutOff(w)
  /\ UNCHANGED queueVars

-----------------------------------------------------------------------------
\* An abandoned call commits after all, or is refused, or is lost.
StrayLands(c) ==
  /\ c \in stray
  /\ \/ c.op = "reconcile" /\ Q!Reconcile
     \/ c.op = "enqueue" /\ Q!Enqueue(KindOf[c.loop], Scheduler, Null, Every)
     \/ c.op = "claim" /\ \E t \in Token : Q!Claim(KindOf[c.loop], t)
     \/ c.op = "renew" /\ Q!Renew(c.job.id, c.job.token)
     \/ c.op = "finish" /\ Q!Finish(c.job.id, c.job.token, c.ok)
  /\ stray' = stray \ {c}
  /\ UNCHANGED <<loop, fate>>

StrayLost(c) ==
  /\ c \in stray
  /\ stray' = stray \ {c}
  /\ UNCHANGED <<queueVars, loop, fate>>

\* The API process sweeps and prunes on its own timer.
Watchdog ==
  /\ Q!Reconcile \/ \E j \in JobId : Q!Prune(j)
  /\ UNCHANGED <<loop, stray, fate>>

TimePasses == Q!Tick /\ UNCHANGED <<loop, stray, fate>>

\* Nobody has the token any more, so it may stand for a fresh uuid.
Forget(t) ==
  /\ Q!Forget(t)
  /\ \A w \in Loop : loop[w].job.token # t
  /\ \A c \in stray : c.job.token # t
  /\ fate' = [fate EXCEPT ![t] = "none"]
  /\ UNCHANGED <<loop, stray>>

Polling(w) ==
  \/ SweepExpired(w) \/ SwitchOn(w) \/ SwitchOff(w) \/ EnqueueCycle(w)
  \/ ClaimCycle(w) \/ NothingToClaim(w) \/ PollFails(w) \/ EndPause(w)

Working(w) ==
  \/ BeginRun(w) \/ ActionEnds(w) \/ SendRenewal(w) \/ RenewLease(w)
  \/ RenewalFails(w) \/ LeaseIsLost(w) \/ ActionReturns(w) \/ ActionFails(w)

Settling(w) == RecordRun(w) \/ Acknowledge(w) \/ AckRaises(w) \/ NackRaises(w)

Process(w) == Start(w) \/ Signal(w) \/ DrainExpires(w) \/ Crash(w)

Next ==
  \/ \E w \in Loop : Polling(w) \/ Working(w) \/ Settling(w) \/ Process(w)
  \/ \E c \in stray : StrayLands(c) \/ StrayLost(c)
  \/ Watchdog
  \/ TimePasses
  \/ \E t \in Token : Forget(t)

Spec == Init /\ [][Next]_vars

(***************************************************************************)
(* Fairness.  A loop does not stop between two awaits: an await of its own *)
(* ends, a call returns or raises, an action ends or times out, and a      *)
(* process that ended is started again (compose restart, deploys).  Time   *)
(* passes.  A poll may fail, find its kind disabled or be told to stop     *)
(* again and again, but each of its steps goes through if it is tried for  *)
(* ever.  (The last two terms only keep ids and tokens from running out.)  *)
(***************************************************************************)
LocalStep(w) ==
  \/ Start(w) \/ EndPause(w) \/ PollFails(w) \/ NothingToClaim(w)
  \/ BeginRun(w) \/ LeaseIsLost(w) \/ ActionReturns(w) \/ ActionFails(w)
  \/ Settling(w)

LoopFairness(w) ==
  /\ WF_vars(LocalStep(w))
  /\ SF_vars(SweepExpired(w) /\ ~loop[w].stop)
  /\ SF_vars(SwitchOn(w) /\ ~loop[w].stop)
  /\ SF_vars(EnqueueCycle(w) /\ ~loop[w].stop)
  /\ SF_vars(ClaimCycle(w))

Fairness ==
  /\ \A w \in Loop : LoopFairness(w)
  /\ WF_vars(TimePasses)
  /\ WF_vars(\E t \in Token : Forget(t))
  /\ WF_vars(\E j \in JobId : Q!Prune(j) /\ UNCHANGED <<loop, stray, fate>>)

FairSpec == Spec /\ Fairness

-----------------------------------------------------------------------------
Fate == {"none", "running", "returned", "raised", "lost"}

\* The queue is a queue, a loop holds a claim exactly from the claim's answer to
\* the pause, and a run is in progress only at "action".
TypeOK ==
  /\ Q!TypeOK
  /\ loop \in [Loop -> LoopState]
  /\ stray \subseteq Call /\ Cardinality(stray) <= MaxStray
  /\ fate \in [Token -> Fate]
  /\ \A w \in Loop : (loop[w].task # "none") <=> At(w, "action")

\* The loops, the watchdog and every call that lands late use the queue only
\* through its functions: the composed system is a JobQueue, so all of its
\* invariants hold of the real callers.
QueueContract == Q!Spec

\* A job succeeds only on work that was done: the attempt whose token the
\* database accepts had its action return, and the loop had not lost its lease
\* before it acknowledged, whatever crashed, timed out or landed late since.
AckedWorkWasDone ==
  [][\A j \in JobId :
       jobs[j].status = "running" /\ jobs'[j].status = "succeeded"
         => fate[jobs[j].token] = "returned"]_vars

\* An attempt whose action was cut off (lease lost, drained, crashed) is never
\* released early by anyone: its row stays running until the lease is over, so
\* the threads it left behind do not meet the next attempt too soon.
CutOffWorkWaitsForExpiry ==
  [][\A j \in JobId :
       (/\ jobs[j].status = "running" /\ jobs[j].lease > 0
        /\ fate[jobs[j].token] \in {"none", "running", "lost"})
         => jobs'[j].status = "running"]_vars

\* What an attempt may be told to do twice: comment at worker.py:174.  A cycle
\* that ran to its end is not put back for a retry by its acknowledgement.
CompletedCycleNotRetried ==
  [][\A j \in JobId :
       (/\ jobs[j].status = "running" /\ jobs[j].lease > 0
        /\ fate[jobs[j].token] = "returned")
         => jobs'[j].status # "queued"]_vars

\* docs/BACKGROUND_JOBS.md:29: a signal that races a committed claim starts no
\* action either.
NoActionAfterSignal ==
  [][\A w \in Loop :
       loop[w].stop => ~(At(w, "begin") /\ loop'[w].pc = "action")]_vars

\* Every occurrence ends: retries, crashes, lost calls and expired leases are
\* bounded by max_attempts, and each attempt ends by its acknowledgement, its
\* timeout or the sweep.
OccurrencesEnd ==
  \A j \in JobId : Q!Active(j) ~> jobs[j].status \in {"succeeded", "dead"}

\* A process told to stop leaves every loop, whatever its calls do.
LoopsDrain == \A w \in Loop : loop[w].stop ~> At(w, "off")
=============================================================================
