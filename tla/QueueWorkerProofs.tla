------------------------- MODULE QueueWorkerProofs -------------------------
(***************************************************************************)
(* The worker's loops use the queue only through its functions, and what a *)
(* loop tells the queue about an attempt is true of the attempt, for every *)
(* number of processes, rows, tokens and abandoned calls.                  *)
(*                                                                         *)
(* The argument is about tokens.  A token is with one loop only, and while *)
(* its run is not over no acknowledgement that names it is in flight; so   *)
(* once an acknowledgement is sent or abandoned, what it says of the run   *)
(* stays true however late it lands.                                       *)
(***************************************************************************)
EXTENDS QueueWorker, FiniteSetTheorems, TLAPS

P == INSTANCE JobQueueProofs

\* The states of a loop that has a claim in its hands.
Holding == {"begin", "action", "record", "ackOk", "ackFail"}

LoopsTyped ==
  /\ loop \in [Loop -> LoopState]
  /\ stray \subseteq Call /\ IsFiniteSet(stray) /\ Cardinality(stray) <= MaxStray
  /\ fate \in [Token -> Fate]
  /\ \A w \in Loop : /\ (loop[w].task # "none") <=> At(w, "action")
                     /\ loop[w].renewal # "none" => At(w, "action")

\* A claim that names a row carries a token that counts as issued.
Valid(job) == job.token # Null => job.id \in JobId /\ job.token \in issued

ClaimsValid ==
  /\ \A w \in Loop : /\ Valid(loop[w].job)
                     /\ loop[w].pc \in Holding => loop[w].job.token # Null
  /\ \A c \in stray : /\ Valid(c.job)
                      /\ c.op \in {"renew", "finish"} => c.job.token # Null

TokensApart ==
  /\ \A v, w \in Loop :
       loop[v].job.token # Null /\ loop[v].job.token = loop[w].job.token => v = w
  /\ \A w \in Loop : loop[w].pc \in {"begin", "action"} =>
       \A c \in stray : c.op = "finish" => c.job.token # loop[w].job.token

\* What a loop in state s is about to say of its run agrees with the run.
Truthful(s, f) ==
  /\ s.pc = "action" => f[s.job.token] = s.task
  /\ s.pc = "ackOk" \/ (s.pc = "record" /\ s.verdict = "succeeded")
       => f[s.job.token] = "returned"
  /\ s.pc = "ackFail" \/ (s.pc = "record" /\ s.verdict = "failed")
       => f[s.job.token] \in {"returned", "raised"}

\* So does what an abandoned acknowledgement says.
TruthfulCall(c, f) ==
  c.op = "finish" => /\ f[c.job.token] \in {"returned", "raised"}
                     /\ c.ok => f[c.job.token] = "returned"

FatesTold ==
  /\ \A w \in Loop : Truthful(loop[w], fate)
  /\ \A c \in stray : TruthfulCall(c, fate)

WorkerInv == LoopsTyped /\ ClaimsValid /\ TokensApart /\ FatesTold

-----------------------------------------------------------------------------
\* The fields of a loop's state.
LEMMA LoopFields ==
  ASSUME NEW s \in LoopState
  PROVE  /\ s.pc \in PC /\ s.job \in Claimed /\ s.stop \in BOOLEAN
         /\ s.job.id \in JobId \cup {Null} /\ s.job.token \in Token \cup {Null}
BY DEF LoopState, Claimed

\* A call in flight carries the claim of its loop, and an acknowledgement is in
\* flight only where the loop awaits it.
LEMMA InFlightFacts ==
  ASSUME LoopsTyped, NEW w \in Loop, NEW c \in InFlight(w)
  PROVE  /\ c \in Call /\ c.job = loop[w].job
         /\ c.op = "renew" => At(w, "action")
         /\ c.op = "finish" => (At(w, "ackOk") /\ c.ok) \/ (At(w, "ackFail") /\ ~c.ok)
<1>1. loop[w] \in LoopState /\ loop[w].job \in Claimed
  BY LoopFields DEF LoopsTyped
<1>2. \A op \in {"reconcile", "enqueue", "claim", "renew", "finish"}, ok \in BOOLEAN :
        /\ CallOf(w, op, ok) \in Call /\ CallOf(w, op, ok).job = loop[w].job
        /\ CallOf(w, op, ok).op = op /\ CallOf(w, op, ok).ok = ok
  BY <1>1 DEF CallOf, Call
<1>3. \/ \E op \in {"reconcile", "enqueue", "claim"} : c = CallOf(w, op, FALSE)
      \/ At(w, "ackOk") /\ c = CallOf(w, "finish", TRUE)
      \/ At(w, "ackFail") /\ c = CallOf(w, "finish", FALSE)
      \/ loop[w].renewal = "sent" /\ c = CallOf(w, "renew", FALSE)
  BY DEF InFlight, At
<1>4. loop[w].renewal = "sent" => At(w, "action")
  BY DEF LoopsTyped
<1> QED BY <1>2, <1>3, <1>4

\* A loop has at most a few calls in flight.
LEMMA InFlightFinite ==
  ASSUME NEW w \in Loop
  PROVE  IsFiniteSet(InFlight(w))
<1> DEFINE few == {CallOf(w, loop[w].pc, FALSE)} \cup {CallOf(w, "finish", TRUE)}
                    \cup {CallOf(w, "finish", FALSE)} \cup {CallOf(w, "renew", FALSE)}
<1>1. IsFiniteSet(few)
  BY FS_Singleton, FS_Union
<1>2. InFlight(w) \subseteq few
  BY DEF InFlight
<1> QED BY <1>1, <1>2, FS_Subset

\* What leaves the claims of the other loops alone: one loop goes on with the
\* claim it has, or without one; its calls in flight may become stray; and only
\* a run that is not over has its fate written, which no acknowledgement names.
LEMMA LoopStep ==
  ASSUME WorkerInv, NEW w \in Loop, NEW s \in LoopState, NEW S \in SUBSET InFlight(w),
         loop' = [loop EXCEPT ![w] = s],
         stray' = stray \cup S, Cardinality(stray \cup S) <= MaxStray,
         issued' = issued,
         \/ fate' = fate
         \/ /\ loop[w].pc \in {"begin", "action"}
            /\ \E v \in Fate : fate' = [fate EXCEPT ![loop[w].job.token] = v],
         (s.task # "none") <=> (s.pc = "action"),
         s.renewal # "none" => s.pc = "action",
         s.job \in {loop[w].job, NoJob},
         s.pc \in Holding => s.job = loop[w].job /\ loop[w].pc \in Holding,
         s.pc \in {"begin", "action"} => loop[w].pc \in {"begin", "action"},
         Truthful(s, fate')
  PROVE  WorkerInv'
<1> LoopsTyped /\ ClaimsValid /\ TokensApart /\ FatesTold
  BY DEF WorkerInv
<1> DEFINE tok == loop[w].job.token
<1>1. /\ loop' \in [Loop -> LoopState] /\ loop'[w] = s
      /\ \A v \in Loop \ {w} : loop'[v] = loop[v]
  BY DEF LoopsTyped
<1>2. NoJob.token = Null /\ Null \notin Token
  BY QueueBounds DEF NoJob, Q!QueueAssumption
<1>3. /\ loop[w].pc \in Holding => tok # Null
      /\ \A v \in Loop : /\ Valid(loop[v].job)
                        /\ loop[v].job.token \in Token \cup {Null}
      /\ {"begin", "action"} \subseteq Holding
  BY LoopFields DEF ClaimsValid, LoopsTyped, Holding
<1>4. ASSUME NEW c \in S
      PROVE  /\ c \in Call /\ c.job = loop[w].job
             /\ c.op \in {"renew", "finish"} => loop[w].pc \in Holding
             /\ c.op = "finish" => loop[w].pc \notin {"begin", "action"}
             /\ TruthfulCall(c, fate)
  <2>1. /\ c \in Call /\ c.job = loop[w].job
        /\ c.op = "renew" => At(w, "action")
        /\ c.op = "finish" => (At(w, "ackOk") /\ c.ok) \/ (At(w, "ackFail") /\ ~c.ok)
    BY InFlightFacts
  <2>2. Truthful(loop[w], fate)
    BY DEF FatesTold
  <2> QED BY <2>1, <2>2 DEF At, Holding, Truthful, TruthfulCall
<1>5. LoopsTyped'
  <2>1. fate' \in [Token -> Fate]
    BY DEF LoopsTyped
  <2>2. stray' \subseteq Call /\ IsFiniteSet(stray') /\ Cardinality(stray') <= MaxStray
    BY <1>4, InFlightFinite, FS_Subset, FS_Union DEF LoopsTyped
  <2>3. ASSUME NEW v \in Loop
        PROVE  /\ (loop'[v].task # "none") <=> (loop'[v].pc = "action")
               /\ loop'[v].renewal # "none" => loop'[v].pc = "action"
    BY <1>1 DEF LoopsTyped, At
  <2> QED BY <1>1, <2>1, <2>2, <2>3 DEF LoopsTyped, At
<1>6. ClaimsValid'
  <2>1. ASSUME NEW v \in Loop
        PROVE  /\ Valid(loop[v].job)'
               /\ loop'[v].pc \in Holding => loop'[v].job.token # Null
    BY <1>1, <1>2, <1>3 DEF ClaimsValid, Valid
  <2>2. ASSUME NEW c \in stray'
        PROVE  /\ Valid(c.job)'
               /\ c.op \in {"renew", "finish"} => c.job.token # Null
    BY <1>3, <1>4 DEF ClaimsValid, Valid
  <2> QED BY <2>1, <2>2 DEF ClaimsValid
<1>7. TokensApart'
  <2>1. ASSUME NEW u \in Loop, NEW v \in Loop, loop'[u].job.token # Null,
               loop'[u].job.token = loop'[v].job.token
        PROVE  u = v
    <3>1. loop'[u].job.token = loop[u].job.token /\ loop'[v].job.token = loop[v].job.token
      BY <1>1, <1>2, <2>1
    <3> QED BY <2>1, <3>1 DEF TokensApart
  <2>2. ASSUME NEW v \in Loop, loop'[v].pc \in {"begin", "action"}, NEW c \in stray',
               c.op = "finish"
        PROVE  c.job.token # loop'[v].job.token
    <3>1. loop[v].pc \in {"begin", "action"} /\ loop'[v].job = loop[v].job
      BY <1>1, <1>3, <2>2
    <3>2. CASE c \in stray
      BY <2>2, <3>1, <3>2 DEF TokensApart
    <3>3. CASE c \in S
      BY <1>3, <1>4, <2>2, <3>1, <3>3 DEF TokensApart
    <3> QED BY <3>2, <3>3
  <2> QED BY <2>1, <2>2 DEF TokensApart
\* Only the fate of the loop's own token can change.
<1>8. ASSUME NEW t \in Token, t # tok \/ loop[w].pc \notin {"begin", "action"}
      PROVE  fate'[t] = fate[t]
  BY <1>8 DEF LoopsTyped
<1>9. FatesTold'
  <2>1. ASSUME NEW v \in Loop
        PROVE  Truthful(loop'[v], fate')
    <3>1. CASE v = w
      BY <1>1, <3>1
    <3>2. CASE v # w /\ loop[v].pc \in Holding
      <4>1. loop[v].job.token \in Token /\ loop[v].job.token # tok
        BY <1>3, <3>2 DEF ClaimsValid, TokensApart
      <4>2. fate'[loop[v].job.token] = fate[loop[v].job.token]
        BY <1>8, <4>1
      <4> QED BY <1>1, <3>2, <4>2 DEF FatesTold, Truthful
    <3>3. CASE v # w /\ loop[v].pc \notin Holding
      BY <1>1, <3>3 DEF Truthful, Holding
    <3> QED BY <3>1, <3>2, <3>3
  <2>2. ASSUME NEW c \in stray', c.op = "finish"
        PROVE  TruthfulCall(c, fate')
    <3>1. c.job.token \in Token /\ TruthfulCall(c, fate)
      <4>1. CASE c \in stray
        BY <2>2, <4>1 DEF ClaimsValid, FatesTold, LoopsTyped, Call, Claimed
      <4>2. CASE c \in S
        BY <1>3, <1>4, <2>2, <4>2
      <4> QED BY <4>1, <4>2
    <3>2. c.job.token # tok \/ loop[w].pc \notin {"begin", "action"}
      BY <1>4, <2>2 DEF TokensApart
    <3>3. fate'[c.job.token] = fate[c.job.token]
      BY <1>8, <3>1, <3>2
    <3> QED BY <3>1, <3>3 DEF TruthfulCall
  <2> QED BY <2>1, <2>2 DEF FatesTold, TruthfulCall
<1> QED BY <1>5, <1>6, <1>7, <1>9 DEF WorkerInv

\* The transactions that leave the issued tokens alone: all but claiming and
\* forgetting a token.
LEMMA IssuedKept ==
  ASSUME \/ Q!Reconcile \/ Q!Tick \/ \E j \in JobId : Q!Prune(j)
         \/ \E k, key, prio, repeat : Q!Enqueue(k, key, prio, repeat)
         \/ \E j, t : Q!Renew(j, t)
         \/ \E j, t, ok : Q!Finish(j, t, ok)
         \/ UNCHANGED queueVars
  PROVE  issued' = issued
BY DEF Q!Reconcile, Q!Release, Q!Tick, Q!Prune, Q!Enqueue, Q!Renew, Q!Finish, queueVars

\* A step that abandons no call.
LEMMA Quiet ==
  ASSUME WorkerInv, NEW w \in Loop, stray' = stray
  PROVE  Abandon(w)
<1>1. {} \in SUBSET InFlight(w) /\ stray \cup {} = stray
  OBVIOUS
<1>2. Cardinality(stray) <= MaxStray
  BY DEF WorkerInv, LoopsTyped
<1> QED BY <1>1, <1>2 DEF Abandon

\* A loop outside its action goes on to another await without touching a run.
LEMMA GotoStep ==
  ASSUME WorkerInv, NEW w \in Loop, NEW label \in PC \ {"begin", "action"}, ~At(w, "action"),
         Goto(w, label), Abandon(w), issued' = issued, fate' = fate,
         label \in Holding => loop[w].pc \in Holding,
         label = "ackOk" => fate[loop[w].job.token] = "returned",
         label = "ackFail" => fate[loop[w].job.token] \in {"returned", "raised"},
         label # "record"
  PROVE  WorkerInv'
<1> DEFINE s == [loop[w] EXCEPT !.pc = label]
<1>1. /\ loop[w] \in LoopState /\ loop[w].task = "none" /\ loop[w].renewal = "none"
  BY DEF WorkerInv, LoopsTyped
<1>2. /\ s \in LoopState /\ s.pc = label /\ s.job = loop[w].job /\ s.task = "none"
      /\ s.renewal = "none"
  BY <1>1 DEF LoopState
<1>3. loop' = [loop EXCEPT ![w] = s]
  BY DEF Goto
<1> HIDE DEF s
<1>4. PICK S \in SUBSET InFlight(w) : /\ stray' = stray \cup S
                                     /\ Cardinality(stray \cup S) <= MaxStray
  BY DEF Abandon
<1>5. Truthful(s, fate')
  BY <1>2 DEF Truthful
<1>6. s.pc \notin {"begin", "action"} /\ s.job \in {loop[w].job, NoJob}
  BY <1>2
<1> QED BY <1>2, <1>3, <1>4, <1>5, <1>6, LoopStep

\* A loop that leaves gives up its claim; a run it cuts off gets its fate.
LEMMA LeaveStep ==
  ASSUME WorkerInv, NEW w \in Loop, Leave(w), Abandon(w), issued' = issued,
         fate' = fate \/ CutOff(w)
  PROVE  WorkerInv'
<1>1. /\ OffLoop \in LoopState /\ OffLoop.pc = "off" /\ OffLoop.job = NoJob
      /\ OffLoop.task = "none" /\ OffLoop.renewal = "none"
  <2>1. NoJob \in Claimed
    BY DEF NoJob, Claimed
  <2>2. "off" \in PC
    BY DEF PC
  <2> QED BY <2>1, <2>2 DEF OffLoop, LoopState
<1>2. loop' = [loop EXCEPT ![w] = OffLoop]
  BY DEF Leave
<1>3. PICK S \in SUBSET InFlight(w) : /\ stray' = stray \cup S
                                     /\ Cardinality(stray \cup S) <= MaxStray
  BY DEF Abandon
<1>4. Truthful(OffLoop, fate')
  BY <1>1 DEF Truthful
<1>5. \/ fate' = fate
      \/ /\ loop[w].pc \in {"begin", "action"}
         /\ \E v \in Fate : fate' = [fate EXCEPT ![loop[w].job.token] = v]
  BY DEF CutOff, At, Fate
<1>6. /\ OffLoop.pc \notin Holding /\ OffLoop.pc \notin {"begin", "action"}
      /\ OffLoop.job \in {loop[w].job, NoJob}
  BY <1>1 DEF Holding
<1> QED BY <1>1, <1>2, <1>3, <1>4, <1>5, <1>6, LoopStep

\* A check of the stop event between two calls of a poll.
LEMMA ProceedStep ==
  ASSUME WorkerInv, NEW w \in Loop, NEW label \in {"gate", "enqueue", "claim", "pause"},
         ~At(w, "action"), Proceed(w, label) \/ Goto(w, label), Abandon(w),
         issued' = issued, fate' = fate
  PROVE  WorkerInv'
<1>1. CASE Leave(w)
  BY <1>1, LeaveStep
<1>2. CASE Goto(w, label)
  <2>1. /\ label \in PC \ {"begin", "action"} /\ label \notin Holding
        /\ label \notin {"ackOk", "ackFail", "record"}
    BY DEF PC, Holding
  <2> QED BY <1>2, <2>1, GotoStep
<1> QED BY <1>1, <1>2 DEF Proceed

\* A claim comes back with a token nobody had, so nothing in flight names it.
LEMMA ClaimStep ==
  ASSUME WorkerInv, NEW w \in Loop, ClaimCycle(w)
  PROVE  WorkerInv'
<1> LoopsTyped /\ ClaimsValid /\ TokensApart /\ FatesTold
  BY DEF WorkerInv
<1> PICK t \in Token :
       /\ Q!Claim(KindOf[w], t)
       /\ IF loop[w].stop THEN Leave(w)
          ELSE \E j \in JobId :
                 /\ jobs'[j].token = t
                 /\ loop' = [loop EXCEPT ![w].pc = "begin",
                                         ![w].job = [id |-> j, token |-> t]]
  BY DEF ClaimCycle
<1>1. /\ At(w, "claim") /\ stray' = stray /\ fate' = fate
      /\ t \notin issued /\ issued' = issued \cup {t} /\ t # Null
  BY QueueBounds DEF ClaimCycle, Q!Claim, Q!QueueAssumption
<1>2. ASSUME NEW s \in LoopState, loop' = [loop EXCEPT ![w] = s],
             s.task = "none", s.renewal = "none",
             \/ s.pc = "off" /\ s.job = NoJob
             \/ s.pc = "begin" /\ s.job.token = t /\ s.job.id \in JobId
      PROVE  WorkerInv'
  <2>1. /\ loop' \in [Loop -> LoopState] /\ loop'[w] = s
        /\ \A v \in Loop \ {w} : loop'[v] = loop[v]
    BY <1>2 DEF LoopsTyped
  <2>2. /\ \A v \in Loop : loop[v].job.token # t
        /\ \A c \in stray : c.job.token # t
    BY <1>1 DEF ClaimsValid, Valid
  <2>3. NoJob.token = Null
    BY DEF NoJob
  <2>4. LoopsTyped'
    <3>1. ASSUME NEW v \in Loop
          PROVE  /\ (loop'[v].task # "none") <=> (loop'[v].pc = "action")
                 /\ loop'[v].renewal # "none" => loop'[v].pc = "action"
      BY <1>2, <2>1 DEF LoopsTyped, At
    <3> QED BY <1>1, <2>1, <3>1 DEF LoopsTyped, At
  <2>5. ClaimsValid'
    <3>1. ASSUME NEW v \in Loop
          PROVE  /\ Valid(loop[v].job)'
                 /\ loop'[v].pc \in Holding => loop'[v].job.token # Null
      BY <1>1, <1>2, <2>1, <2>3 DEF ClaimsValid, Valid, Holding
    <3>2. ASSUME NEW c \in stray
          PROVE  /\ Valid(c.job)'
                 /\ c.op \in {"renew", "finish"} => c.job.token # Null
      BY <1>1 DEF ClaimsValid, Valid
    <3> QED BY <1>1, <3>1, <3>2 DEF ClaimsValid
  <2>6. TokensApart'
    <3>1. ASSUME NEW u \in Loop, NEW v \in Loop, loop'[u].job.token # Null,
                 loop'[u].job.token = loop'[v].job.token
          PROVE  u = v
      BY <1>2, <2>1, <2>2, <2>3, <3>1 DEF TokensApart
    <3>2. ASSUME NEW v \in Loop, loop'[v].pc \in {"begin", "action"}, NEW c \in stray,
                 c.op = "finish"
          PROVE  c.job.token # loop'[v].job.token
      BY <1>2, <2>1, <2>2, <3>2 DEF TokensApart
    <3> QED BY <1>1, <3>1, <3>2 DEF TokensApart
  <2>7. FatesTold'
    <3>1. ASSUME NEW v \in Loop PROVE Truthful(loop'[v], fate)
      BY <1>2, <2>1 DEF FatesTold, Truthful
    <3> QED BY <1>1, <3>1 DEF FatesTold
  <2> QED BY <2>4, <2>5, <2>6, <2>7 DEF WorkerInv
<1>3. CASE Leave(w)
  <2>1. /\ OffLoop \in LoopState /\ OffLoop.pc = "off" /\ OffLoop.job = NoJob
        /\ OffLoop.task = "none" /\ OffLoop.renewal = "none"
    <3>1. NoJob \in Claimed /\ "off" \in PC
      BY DEF NoJob, Claimed, PC
    <3> QED BY <3>1 DEF OffLoop, LoopState
  <2>2. loop' = [loop EXCEPT ![w] = OffLoop]
    BY <1>3 DEF Leave
  <2> QED BY <1>2, <2>1, <2>2
<1>4. CASE \E j \in JobId : loop' = [loop EXCEPT ![w].pc = "begin",
                                              ![w].job = [id |-> j, token |-> t]]
  <2> PICK j \in JobId : loop' = [loop EXCEPT ![w].pc = "begin",
                                             ![w].job = [id |-> j, token |-> t]]
    BY <1>4
  <2> DEFINE s == [loop[w] EXCEPT !.pc = "begin", !.job = [id |-> j, token |-> t]]
  <2>1. loop[w] \in LoopState /\ loop[w].task = "none" /\ loop[w].renewal = "none"
    BY <1>1 DEF LoopsTyped, At
  <2>2. "begin" \in PC /\ [id |-> j, token |-> t] \in Claimed
    BY DEF PC, Claimed
  <2>3. /\ s \in LoopState /\ s.pc = "begin" /\ s.job.id \in JobId /\ s.job.token = t
        /\ s.task = "none" /\ s.renewal = "none"
    BY <2>1, <2>2 DEF LoopState
  <2>4. loop' = [loop EXCEPT ![w] = s]
    OBVIOUS
  <2> HIDE DEF s
  <2> QED BY <1>2, <2>3, <2>4
<1> QED BY <1>3, <1>4

\* The polling half of a loop: its switch, its enqueue, its claim and its waits.
LEMMA PollingStep ==
  ASSUME WorkerInv, NEW w \in Loop, Polling(w)
  PROVE  WorkerInv'
<1>1. ASSUME SweepExpired(w) PROVE WorkerInv'
  <2>1. /\ ~At(w, "action") /\ Proceed(w, "gate") /\ stray' = stray /\ fate' = fate
        /\ Q!Reconcile \/ UNCHANGED queueVars
    BY <1>1 DEF SweepExpired, At
  <2> QED BY <2>1, IssuedKept, Quiet, ProceedStep
<1>2. ASSUME SwitchOn(w) \/ SwitchOff(w) PROVE WorkerInv'
  <2>1. /\ ~At(w, "action") /\ stray' = stray /\ fate' = fate /\ UNCHANGED queueVars
        /\ Proceed(w, "enqueue") \/ Goto(w, "pause")
    BY <1>2 DEF SwitchOn, SwitchOff, At
  <2> QED BY <2>1, IssuedKept, Quiet, ProceedStep
<1>3. ASSUME EnqueueCycle(w) PROVE WorkerInv'
  <2>1. /\ ~At(w, "action") /\ Proceed(w, "claim") /\ stray' = stray /\ fate' = fate
        /\ Q!Enqueue(KindOf[w], Scheduler, Null, Every)
    BY <1>3 DEF EnqueueCycle, At
  <2> QED BY <2>1, IssuedKept, Quiet, ProceedStep
<1>4. ASSUME NothingToClaim(w) PROVE WorkerInv'
  <2>1. /\ ~At(w, "action") /\ Goto(w, "pause") /\ stray' = stray /\ fate' = fate
        /\ UNCHANGED queueVars
    BY <1>4 DEF NothingToClaim, At
  <2> QED BY <2>1, IssuedKept, Quiet, ProceedStep
<1>5. ASSUME PollFails(w) PROVE WorkerInv'
  <2>1. /\ ~At(w, "action") /\ Goto(w, "pause") /\ Abandon(w) /\ fate' = fate
        /\ UNCHANGED queueVars
    BY <1>5 DEF PollFails, At
  <2> QED BY <2>1, IssuedKept, ProceedStep
<1>6. ASSUME EndPause(w) PROVE WorkerInv'
  <2> DEFINE s == IF loop[w].stop THEN OffLoop ELSE [OffLoop EXCEPT !.pc = "reconcile"]
  <2>1. loop' = [loop EXCEPT ![w] = s] /\ stray' = stray /\ fate' = fate
        /\ UNCHANGED queueVars
    BY <1>6 DEF EndPause, WorkerInv, LoopsTyped
  <2>2. /\ s \in LoopState /\ s.pc \in {"off", "reconcile"} /\ s.job = NoJob
        /\ s.task = "none" /\ s.renewal = "none"
    <3>1. NoJob \in Claimed /\ "off" \in PC /\ "reconcile" \in PC
      BY DEF NoJob, Claimed, PC
    <3> QED BY <3>1 DEF OffLoop, LoopState
  <2> HIDE DEF s
  <2>3. issued' = issued
    BY <2>1, IssuedKept
  <2>4. PICK S \in SUBSET InFlight(w) : /\ stray' = stray \cup S
                                       /\ Cardinality(stray \cup S) <= MaxStray
    BY <2>1, Quiet DEF Abandon
  <2>5. Truthful(s, fate') /\ s.pc \notin Holding /\ s.job \in {loop[w].job, NoJob}
        /\ s.pc \notin {"begin", "action"}
    BY <2>2 DEF Truthful, Holding
  <2> QED BY <2>1, <2>2, <2>3, <2>4, <2>5, LoopStep
<1> QED BY <1>1, <1>2, <1>3, <1>4, <1>5, <1>6, ClaimStep DEF Polling

\* Start and Signal; a drain and a crash cut the run off.
LEMMA ProcessStep ==
  ASSUME WorkerInv, NEW w \in Loop, Process(w)
  PROVE  WorkerInv'
<1> LoopsTyped /\ loop[w] \in LoopState
  BY DEF WorkerInv, LoopsTyped
<1>1. ASSUME Start(w) PROVE WorkerInv'
  <2>1. /\ ~At(w, "action") /\ Goto(w, "reconcile") /\ stray' = stray /\ fate' = fate
        /\ UNCHANGED queueVars /\ "reconcile" \in PC \ {"begin", "action"}
        /\ "reconcile" \notin Holding
    BY <1>1 DEF Start, At, PC, Holding
  <2> QED BY <2>1, IssuedKept, Quiet, GotoStep
<1>2. ASSUME Signal(w) PROVE WorkerInv'
  <2> DEFINE s == [loop[w] EXCEPT !.stop = TRUE]
  <2>1. loop' = [loop EXCEPT ![w] = s] /\ stray' = stray /\ fate' = fate
        /\ UNCHANGED queueVars
    BY <1>2 DEF Signal
  <2>2. /\ s \in LoopState /\ s.pc = loop[w].pc /\ s.job = loop[w].job
        /\ s.task = loop[w].task /\ s.renewal = loop[w].renewal
        /\ s.verdict = loop[w].verdict
    BY DEF LoopState
  <2> HIDE DEF s
  <2>3. issued' = issued
    BY <2>1, IssuedKept
  <2>4. PICK S \in SUBSET InFlight(w) : /\ stray' = stray \cup S
                                       /\ Cardinality(stray \cup S) <= MaxStray
    BY <2>1, Quiet DEF Abandon
  <2>5. Truthful(s, fate')
    BY <2>1, <2>2 DEF Truthful, WorkerInv, FatesTold
  <2>6. ((s.task # "none") <=> (s.pc = "action")) /\ (s.renewal # "none" => s.pc = "action")
    BY <2>2 DEF LoopsTyped, At
  <2> QED BY <2>1, <2>2, <2>3, <2>4, <2>5, <2>6, LoopStep
<1>3. ASSUME DrainExpires(w) PROVE WorkerInv'
  <2>1. Abandon(w) /\ CutOff(w) /\ UNCHANGED queueVars
    BY <1>3 DEF DrainExpires
  <2>2. CASE ~InTry(w)
    BY <1>3, <2>1, <2>2, IssuedKept, LeaveStep DEF DrainExpires
  <2>3. CASE InTry(w)
    <3> DEFINE s == [loop[w] EXCEPT !.pc = "record", !.verdict = "cancelled",
                                    !.task = "none", !.renewal = "none"]
    <3>1. loop' = [loop EXCEPT ![w] = s]
      BY <1>3, <2>3 DEF DrainExpires, LoopsTyped, LoopState
    <3>2. /\ s \in LoopState /\ s.pc = "record" /\ s.job = loop[w].job
          /\ s.task = "none" /\ s.renewal = "none" /\ s.verdict = "cancelled"
      <4>1. "record" \in PC
        BY DEF PC
      <4> QED BY <4>1 DEF LoopState
    <3> HIDE DEF s
    <3>3. issued' = issued
      BY <2>1, IssuedKept
    <3>4. PICK S \in SUBSET InFlight(w) : /\ stray' = stray \cup S
                                         /\ Cardinality(stray \cup S) <= MaxStray
      BY <2>1 DEF Abandon
    <3>5. Truthful(s, fate')
      BY <3>2 DEF Truthful
    <3>6. \/ fate' = fate
          \/ /\ loop[w].pc \in {"begin", "action"}
             /\ \E v \in Fate : fate' = [fate EXCEPT ![loop[w].job.token] = v]
      BY <2>1 DEF CutOff, At, Fate
    <3>7. /\ loop[w].pc \in Holding /\ s.pc \notin {"begin", "action"}
          /\ s.job \in {loop[w].job, NoJob}
      BY <2>3, <3>2 DEF InTry, At, Holding
    <3> QED BY <3>1, <3>2, <3>3, <3>4, <3>5, <3>6, <3>7, LoopStep
  <2> QED BY <2>2, <2>3
<1>4. ASSUME Crash(w) PROVE WorkerInv'
  BY <1>4, IssuedKept, LeaveStep DEF Crash
<1> QED BY <1>1, <1>2, <1>3, <1>4 DEF Process

\* The parts of a run: its action and its renewal side by side, and how both end.
LEMMA WorkingStep ==
  ASSUME WorkerInv, NEW w \in Loop, Working(w)
  PROVE  WorkerInv'
<1> LoopsTyped /\ ClaimsValid /\ TokensApart /\ FatesTold
  BY DEF WorkerInv
<1>1. /\ loop[w] \in LoopState /\ Truthful(loop[w], fate)
      /\ (loop[w].task # "none") <=> (loop[w].pc = "action")
      /\ loop[w].renewal # "none" => loop[w].pc = "action"
      /\ {"begin", "action"} \subseteq Holding /\ "record" \in Holding
      /\ loop[w].pc \in Holding => loop[w].job.token \in Token
  BY LoopFields DEF LoopsTyped, FatesTold, At, Holding, ClaimsValid
<1>2. {"action", "record"} \subseteq PC
  BY DEF PC
\* Every step of Working keeps the claim and stays at the action or ends it.
<1>3. ASSUME NEW s \in LoopState, loop' = [loop EXCEPT ![w] = s], s.job = loop[w].job,
             loop[w].pc \in {"begin", "action"}, Abandon(w), issued' = issued,
             s.pc \in {"action", "record"},
             (s.task # "none") <=> (s.pc = "action"),
             s.renewal # "none" => s.pc = "action",
             \/ fate' = fate
             \/ \E v \in Fate : fate' = [fate EXCEPT ![loop[w].job.token] = v],
             Truthful(s, fate')
      PROVE  WorkerInv'
  <2>1. PICK S \in SUBSET InFlight(w) : /\ stray' = stray \cup S
                                       /\ Cardinality(stray \cup S) <= MaxStray
    BY <1>3 DEF Abandon
  <2>2. s.job \in {loop[w].job, NoJob} /\ loop[w].pc \in Holding
    BY <1>1, <1>3
  <2> QED BY <1>3, <2>1, <2>2, LoopStep
<1>4. ASSUME BeginRun(w) PROVE WorkerInv'
  <2> DEFINE s == [loop[w] EXCEPT !.pc = "action", !.task = "running",
                                  !.renewal = "sleeping"]
  <2>1. /\ loop[w].pc = "begin" /\ stray' = stray /\ UNCHANGED queueVars
        /\ fate' = [fate EXCEPT ![loop[w].job.token] = "running"]
    BY <1>4 DEF BeginRun, At
  <2>2. loop' = [loop EXCEPT ![w] = s]
    BY <1>1, <1>4 DEF BeginRun, LoopsTyped, LoopState
  <2>3. /\ s \in LoopState /\ s.job = loop[w].job /\ s.pc = "action" /\ s.task = "running"
    BY <1>1, <1>2 DEF LoopState
  <2> HIDE DEF s
  <2>4. Truthful(s, fate')
    BY <1>1, <2>1, <2>3 DEF Truthful, LoopsTyped
  <2>5. "running" \in Fate
    BY DEF Fate
  <2> QED BY <1>3, <2>1, <2>2, <2>3, <2>4, <2>5, IssuedKept, Quiet
<1>5. ASSUME ActionEnds(w) PROVE WorkerInv'
  <2> PICK outcome \in {"returned", "raised"} :
         /\ loop' = [loop EXCEPT ![w].task = outcome]
         /\ fate' = [fate EXCEPT ![loop[w].job.token] = outcome]
    BY <1>5 DEF ActionEnds
  <2> DEFINE s == [loop[w] EXCEPT !.task = outcome]
  <2>1. /\ loop[w].pc = "action" /\ stray' = stray /\ UNCHANGED queueVars
    BY <1>1, <1>5 DEF ActionEnds
  <2>2. loop' = [loop EXCEPT ![w] = s]
    OBVIOUS
  <2>3. /\ s \in LoopState /\ s.job = loop[w].job /\ s.pc = "action" /\ s.task = outcome
    BY <1>1, <2>1 DEF LoopState
  <2> HIDE DEF s
  <2>4. Truthful(s, fate')
    BY <1>1, <2>1, <2>3 DEF Truthful, LoopsTyped
  <2>5. outcome \in Fate
    BY DEF Fate
  <2> QED BY <1>3, <2>1, <2>2, <2>3, <2>4, <2>5, IssuedKept, Quiet
<1>6. ASSUME NEW r \in {"sleeping", "sent", "lost"}, loop[w].renewal # "none",
             loop' = [loop EXCEPT ![w].renewal = r], Abandon(w),
             issued' = issued, fate' = fate
      PROVE  WorkerInv'
  <2> DEFINE s == [loop[w] EXCEPT !.renewal = r]
  <2>1. loop' = [loop EXCEPT ![w] = s]
    BY <1>6
  <2>2. /\ s \in LoopState /\ s.job = loop[w].job /\ s.pc = "action"
        /\ s.task = loop[w].task /\ loop[w].pc = "action"
    BY <1>1, <1>6 DEF LoopState
  <2> HIDE DEF s
  <2>3. Truthful(s, fate')
    BY <1>1, <1>6, <2>2 DEF Truthful
  <2>4. (s.task # "none") <=> (s.pc = "action")
    BY <1>1, <2>2
  <2> QED BY <1>3, <1>6, <2>1, <2>2, <2>3, <2>4
<1>7. ASSUME SendRenewal(w) PROVE WorkerInv'
  <2>1. /\ loop[w].renewal # "none" /\ loop' = [loop EXCEPT ![w].renewal = "sent"]
        /\ stray' = stray /\ fate' = fate /\ UNCHANGED queueVars
    BY <1>7 DEF SendRenewal
  <2> QED BY <1>6, <2>1, IssuedKept, Quiet
<1>8. ASSUME RenewLease(w) PROVE WorkerInv'
  <2>1. /\ loop[w].renewal # "none" /\ loop' = [loop EXCEPT ![w].renewal = "sleeping"]
        /\ stray' = stray /\ fate' = fate /\ Q!Renew(loop[w].job.id, loop[w].job.token)
    BY <1>8 DEF RenewLease
  <2> QED BY <1>6, <2>1, IssuedKept, Quiet
<1>9. ASSUME RenewalFails(w) PROVE WorkerInv'
  <2>1. /\ loop[w].renewal # "none" /\ loop' = [loop EXCEPT ![w].renewal = "lost"]
        /\ (stray' = stray \/ Abandon(w)) /\ fate' = fate /\ UNCHANGED queueVars
    BY <1>9 DEF RenewalFails
  <2> QED BY <1>6, <2>1, IssuedKept, Quiet
<1>10. ASSUME NEW verdict \in {"succeeded", "failed", "lost"}, EndLeasedAction(w, verdict),
              \/ verdict = "lost" /\ fate' = [fate EXCEPT ![loop[w].job.token] = "lost"]
              \/ verdict = "failed" /\ fate' = [fate EXCEPT ![loop[w].job.token] = "raised"]
              \/ verdict = "succeeded" /\ loop[w].task = "returned" /\ fate' = fate
       PROVE  WorkerInv'
  <2> DEFINE s == [loop[w] EXCEPT !.pc = "record", !.verdict = verdict,
                                  !.task = "none", !.renewal = "none"]
  <2>1. loop[w].pc = "action" /\ Abandon(w) /\ UNCHANGED queueVars
    BY <1>10 DEF EndLeasedAction, At
  <2>2. loop' = [loop EXCEPT ![w] = s]
    BY <1>1, <1>10 DEF EndLeasedAction, LoopsTyped, LoopState
  <2>3. /\ s \in LoopState /\ s.job = loop[w].job /\ s.pc = "record" /\ s.task = "none"
        /\ s.renewal = "none" /\ s.verdict = verdict
    BY <1>1, <1>2 DEF LoopState
  <2> HIDE DEF s
  <2>4. loop[w].job.token \in Token
    BY <1>1, <2>1
  <2>5. Truthful(s, fate')
    BY <1>1, <1>10, <2>1, <2>3, <2>4 DEF Truthful, LoopsTyped
  <2>6. {"lost", "raised"} \subseteq Fate
    BY DEF Fate
  <2>7. fate' = fate \/ \E v \in Fate : fate' = [fate EXCEPT ![loop[w].job.token] = v]
    BY <1>10, <2>6
  <2> QED BY <1>3, <2>1, <2>2, <2>3, <2>5, <2>7, IssuedKept
<1>11. ASSUME LeaseIsLost(w) \/ ActionReturns(w) \/ ActionFails(w) PROVE WorkerInv'
  BY <1>10, <1>11 DEF LeaseIsLost, ActionReturns, ActionFails
<1> QED BY <1>4, <1>5, <1>7, <1>8, <1>9, <1>11 DEF Working

\* After the run: what is recorded decides what is acknowledged.
LEMMA SettlingStep ==
  ASSUME WorkerInv, NEW w \in Loop, Settling(w)
  PROVE  WorkerInv'
<1> LoopsTyped /\ Truthful(loop[w], fate) /\ loop[w] \in LoopState
  BY DEF WorkerInv, LoopsTyped, FatesTold
<1>1. /\ {"ackOk", "ackFail", "pause"} \subseteq PC \ {"begin", "action"}
      /\ {"record", "ackOk", "ackFail"} \subseteq Holding /\ "record" \in PC
  BY DEF PC, Holding
<1>2. ASSUME RecordRun(w) PROVE WorkerInv'
  <2>1. /\ loop[w].pc = "record" /\ ~At(w, "action") /\ stray' = stray /\ fate' = fate
        /\ UNCHANGED queueVars
    BY <1>2 DEF RecordRun, At
  <2>2. Abandon(w) /\ issued' = issued
    BY <2>1, Quiet, IssuedKept
  <2>3. CASE loop[w].verdict = "succeeded" /\ Goto(w, "ackOk")
    <3>1. fate[loop[w].job.token] = "returned"
      BY <2>1, <2>3 DEF Truthful
    <3> QED BY <1>1, <2>1, <2>2, <2>3, <3>1, GotoStep
  <2>4. CASE loop[w].verdict = "failed" /\ Goto(w, "ackFail")
    <3>1. fate[loop[w].job.token] \in {"returned", "raised"}
      BY <2>1, <2>4 DEF Truthful
    <3> QED BY <1>1, <2>1, <2>2, <2>4, <3>1, GotoStep
  <2>5. CASE loop[w].verdict = "lost" /\ Goto(w, "pause")
    BY <1>1, <2>1, <2>2, <2>5, GotoStep
  <2>6. CASE Leave(w)
    BY <2>1, <2>2, <2>6, LeaveStep
  <2> QED BY <1>2, <2>3, <2>4, <2>5, <2>6 DEF RecordRun
<1>3. ASSUME Acknowledge(w) \/ NackRaises(w) PROVE WorkerInv'
  <2>1. /\ ~At(w, "action") /\ fate' = fate /\ Goto(w, "pause")
        /\ stray' = stray \/ Abandon(w)
        /\ \/ Q!Finish(loop[w].job.id, loop[w].job.token, At(w, "ackOk"))
           \/ UNCHANGED queueVars
    BY <1>3 DEF Acknowledge, NackRaises, At
  <2>2. Abandon(w) /\ issued' = issued
    BY <2>1, Quiet, IssuedKept
  <2> QED BY <1>1, <2>1, <2>2, ProceedStep
<1>4. ASSUME AckRaises(w) PROVE WorkerInv'
  <2> DEFINE s == [loop[w] EXCEPT !.pc = "record", !.verdict = "failed"]
  <2>1. /\ loop[w].pc = "ackOk" /\ Abandon(w) /\ fate' = fate /\ UNCHANGED queueVars
        /\ loop[w].task = "none" /\ loop[w].renewal = "none"
    BY <1>4 DEF AckRaises, At, LoopsTyped
  <2>2. loop' = [loop EXCEPT ![w] = s]
    BY <1>4 DEF AckRaises, LoopsTyped, LoopState
  <2>3. /\ s \in LoopState /\ s.job = loop[w].job /\ s.pc = "record" /\ s.task = "none"
        /\ s.renewal = "none" /\ s.verdict = "failed"
    BY <1>1, <2>1 DEF LoopState
  <2> HIDE DEF s
  <2>4. Truthful(s, fate')
    BY <2>1, <2>3 DEF Truthful
  <2>5. PICK S \in SUBSET InFlight(w) : /\ stray' = stray \cup S
                                       /\ Cardinality(stray \cup S) <= MaxStray
    BY <2>1 DEF Abandon
  <2>6. loop[w].pc \in Holding /\ s.pc \notin {"begin", "action"}
        /\ s.job \in {loop[w].job, NoJob}
    BY <1>1, <2>1, <2>3
  <2> QED BY <2>1, <2>2, <2>3, <2>4, <2>5, <2>6, IssuedKept, LoopStep
<1> QED BY <1>2, <1>3, <1>4 DEF Settling

\* Whatever else happens to the queue: the loops stay where they are, abandoned
\* calls only leave, and a token that changes is one that nobody has.
LEMMA BystanderStep ==
  ASSUME WorkerInv, NEW gone \in SUBSET Token,
         \A w \in Loop : loop[w].job.token \notin gone,
         \A c \in stray : c.job.token \notin gone,
         loop' = loop, stray' \subseteq stray, issued \ gone \subseteq issued',
         fate' \in [Token -> Fate], \A t \in Token \ gone : fate'[t] = fate[t]
  PROVE  WorkerInv'
<1> LoopsTyped /\ ClaimsValid /\ TokensApart /\ FatesTold
  BY DEF WorkerInv
<1>1. LoopsTyped'
  <2>1. IsFiniteSet(stray) /\ Cardinality(stray) <= MaxStray /\ MaxStray \in Nat
    BY WorkerAssumption DEF LoopsTyped, WorkerAssumption
  <2>2. /\ IsFiniteSet(stray') /\ Cardinality(stray') <= Cardinality(stray)
        /\ Cardinality(stray) \in Nat /\ Cardinality(stray') \in Nat
    BY <2>1, FS_Subset, FS_CardinalityType
  <2>3. Cardinality(stray') <= MaxStray
    BY <2>1, <2>2
  <2> QED BY <2>2, <2>3 DEF LoopsTyped, At
<1>2. ClaimsValid'
  BY DEF ClaimsValid, Valid
<1>3. TokensApart'
  BY DEF TokensApart
<1>4. FatesTold'
  <2>1. ASSUME NEW w \in Loop PROVE Truthful(loop[w], fate')
    <3>1. CASE loop[w].pc \in Holding
      <4>1. loop[w].job.token \in Token \ gone
        BY <3>1, LoopFields DEF ClaimsValid, LoopsTyped
      <4> QED BY <4>1 DEF FatesTold, Truthful
    <3>2. CASE loop[w].pc \notin Holding
      BY <3>2 DEF Truthful, Holding
    <3> QED BY <3>1, <3>2
  <2>2. ASSUME NEW c \in stray', c.op = "finish" PROVE TruthfulCall(c, fate')
    <3>1. c.job.token \in Token \ gone
      BY <2>2 DEF ClaimsValid, LoopsTyped, Call, Claimed
    <3> QED BY <3>1 DEF FatesTold, TruthfulCall
  <2> QED BY <2>1, <2>2 DEF FatesTold, TruthfulCall
<1> QED BY <1>1, <1>2, <1>3, <1>4 DEF WorkerInv

\* Calls that land late or never, the API's watchdog, time, and a token that
\* nobody has any more.
LEMMA OutsideStep ==
  ASSUME WorkerInv,
         \/ \E c \in stray : StrayLands(c) \/ StrayLost(c)
         \/ Watchdog \/ TimePasses
         \/ \E t \in Token : Forget(t)
  PROVE  WorkerInv'
<1> LoopsTyped
  BY DEF WorkerInv
<1>0. ASSUME loop' = loop, stray' \subseteq stray, fate' = fate, issued \subseteq issued'
      PROVE  WorkerInv'
  <2> DEFINE gone == {}
  <2>1. /\ gone \in SUBSET Token /\ issued \ gone \subseteq issued'
        /\ \A w \in Loop : loop[w].job.token \notin gone
        /\ \A c \in stray : c.job.token \notin gone
    BY <1>0
  <2>2. fate' \in [Token -> Fate] /\ \A t \in Token \ gone : fate'[t] = fate[t]
    BY <1>0 DEF LoopsTyped
  <2> HIDE DEF gone
  <2> QED BY <1>0, <2>1, <2>2, BystanderStep
<1>1. ASSUME NEW c \in stray, StrayLands(c) PROVE WorkerInv'
  <2>1. issued \subseteq issued'
    <3>1. CASE \E t \in Token : Q!Claim(KindOf[c.loop], t)
      BY <3>1 DEF Q!Claim
    <3>2. CASE \/ Q!Reconcile \/ Q!Enqueue(KindOf[c.loop], Scheduler, Null, Every)
               \/ Q!Renew(c.job.id, c.job.token) \/ Q!Finish(c.job.id, c.job.token, c.ok)
      BY <3>2, IssuedKept
    <3> QED BY <1>1, <3>1, <3>2 DEF StrayLands
  <2>2. stray' = stray \ {c} /\ loop' = loop /\ fate' = fate
    BY <1>1 DEF StrayLands
  <2> QED BY <1>0, <2>1, <2>2
<1>2. ASSUME NEW c \in stray, StrayLost(c) PROVE WorkerInv'
  <2>1. stray' = stray \ {c} /\ loop' = loop /\ fate' = fate /\ issued' = issued
    BY <1>2 DEF StrayLost, queueVars
  <2> QED BY <1>0, <2>1
<1>3. ASSUME Watchdog \/ TimePasses PROVE WorkerInv'
  <2>1. stray' = stray /\ loop' = loop /\ fate' = fate /\ issued' = issued
    BY <1>3, IssuedKept DEF Watchdog, TimePasses
  <2> QED BY <1>0, <2>1
<1>4. ASSUME NEW t \in Token, Forget(t) PROVE WorkerInv'
  <2>1. /\ \A w \in Loop : loop[w].job.token \notin {t}
        /\ \A c \in stray : c.job.token \notin {t}
        /\ fate' = [fate EXCEPT ![t] = "none"] /\ loop' = loop /\ stray' = stray
        /\ issued' = issued \ {t}
    BY <1>4 DEF Forget, Q!Forget
  <2>2. /\ fate' \in [Token -> Fate] /\ \A u \in Token \ {t} : fate'[u] = fate[u]
    BY <2>1 DEF LoopsTyped, Fate
  <2> QED BY <2>1, <2>2, BystanderStep
<1> QED BY <1>1, <1>2, <1>3, <1>4

\* The loops start outside, with no claim and nothing in flight.
LEMMA WorkerInit == Init => WorkerInv
<1> SUFFICES ASSUME Init PROVE WorkerInv
  OBVIOUS
<1>1. /\ loop = [w \in Loop |-> OffLoop] /\ stray = {} /\ fate = [t \in Token |-> "none"]
  BY DEF Init
<1>2. /\ OffLoop \in LoopState /\ OffLoop.pc = "off" /\ OffLoop.job.token = Null
      /\ OffLoop.task = "none" /\ OffLoop.renewal = "none"
  <2>1. NoJob \in Claimed /\ "off" \in PC /\ NoJob.token = Null
    BY DEF NoJob, Claimed, PC
  <2> QED BY <2>1 DEF OffLoop, LoopState
<1>3. LoopsTyped
  <2>1. IsFiniteSet(stray) /\ Cardinality(stray) <= MaxStray
    BY <1>1, FS_EmptySet, WorkerAssumption DEF WorkerAssumption
  <2> QED BY <1>1, <1>2, <2>1 DEF LoopsTyped, At, Fate
<1>4. ClaimsValid /\ TokensApart
  BY <1>1, <1>2 DEF ClaimsValid, TokensApart, Valid, Holding
<1>5. FatesTold
  BY <1>1, <1>2 DEF FatesTold, Truthful
<1> QED BY <1>3, <1>4, <1>5 DEF WorkerInv

\* The worker's invariant is inductive.
LEMMA WorkerStep ==
  ASSUME WorkerInv, [Next]_vars
  PROVE  WorkerInv'
<1>1. CASE UNCHANGED vars
  BY <1>1 DEF vars, queueVars, WorkerInv, LoopsTyped, ClaimsValid, TokensApart, FatesTold,
              Valid, At
<1>2. CASE Next
  <2>1. \/ \E w \in Loop : Polling(w) \/ Working(w) \/ Settling(w) \/ Process(w)
        \/ \/ \E c \in stray : StrayLands(c) \/ StrayLost(c)
           \/ Watchdog \/ TimePasses
           \/ \E t \in Token : Forget(t)
    BY <1>2 DEF Next
  <2> QED BY <2>1, PollingStep, WorkingStep, SettlingStep, ProcessStep, OutsideStep
<1> QED BY <1>1, <1>2

\* What the loops hold, what they say of their runs and what is still in flight
\* fit together in every state of the worker processes.
THEOREM WorkerInvariant == Spec => []WorkerInv
<1> QED BY WorkerInit, WorkerStep, PTL DEF Spec

-----------------------------------------------------------------------------
\* The two instances of the queue, the one the loops use and the one its
\* theorems are about, are the same queue.
LEMMA SameBounds == P!QueueAssumption
BY QueueBounds DEF P!QueueAssumption, Q!QueueAssumption, P!IsFiniteSet, Q!IsFiniteSet

\* They have the same types and the same transactions.
LEMMA SameQueue ==
  /\ Q!Init <=> P!Init
  /\ Q!TypeOK <=> P!TypeOK
  /\ \A k, key, prio, repeat : Q!Enqueue(k, key, prio, repeat) <=> P!Enqueue(k, key, prio, repeat)
  /\ \A k, t : Q!Claim(k, t) <=> P!Claim(k, t)
  /\ \A j, t : Q!Renew(j, t) <=> P!Renew(j, t)
  /\ \A j, t, ok : Q!Finish(j, t, ok) <=> P!Finish(j, t, ok)
  /\ Q!Reconcile <=> P!Reconcile
  /\ \A j : Q!Prune(j) <=> P!Prune(j)
  /\ Q!Tick <=> P!Tick
  /\ \A t : Q!Forget(t) <=> P!Forget(t)
<1>1. Q!Init <=> P!Init
  BY DEF Q!Init, P!Init, Q!NoRow, P!NoRow
<1>2. Q!TypeOK <=> P!TypeOK
  BY DEF Q!TypeOK, P!TypeOK, Q!Row, P!Row, Q!Status, P!Status
<1>3. \A S : P!Cardinality(S) = Q!Cardinality(S)
  BY DEF P!Cardinality, Q!Cardinality, P!IsFiniteSet, Q!IsFiniteSet
<1>4. ASSUME NEW k, NEW key, NEW prio, NEW repeat
      PROVE  Q!Enqueue(k, key, prio, repeat) <=> P!Enqueue(k, key, prio, repeat)
  BY DEF Q!Enqueue, P!Enqueue, Q!Duplicates, P!Duplicates, Q!Active, P!Active, Q!FreeIds,
         P!FreeIds, Q!Resettled, P!Resettled, Q!Coalesce, P!Coalesce, Q!NewRow, P!NewRow
<1>5. ASSUME NEW k, NEW t
      PROVE  Q!Claim(k, t) <=> P!Claim(k, t)
  BY <1>3 DEF Q!Claim, P!Claim, Q!Running, P!Running, Q!Claimable, P!Claimable, Q!Due, P!Due,
              Q!Take, P!Take
<1>6. ASSUME NEW j, NEW t
      PROVE  Q!Renew(j, t) <=> P!Renew(j, t)
  BY DEF Q!Renew, P!Renew, Q!Owns, P!Owns
<1>7. ASSUME NEW S, NEW ok
      PROVE  Q!Release(S, ok) <=> P!Release(S, ok)
  BY DEF Q!Release, P!Release, Q!FreeIds, P!FreeIds, Q!Recurring, P!Recurring, Q!Terminal,
         P!Terminal, Q!Released, P!Released, Q!NextOccurrence, P!NextOccurrence, Q!NewRow,
         P!NewRow, Q!Bijection, P!Bijection, Q!Injection, P!Injection, Q!Surjection,
         P!Surjection, Q!IsInjective, P!IsInjective
<1>8. ASSUME NEW j, NEW t, NEW ok
      PROVE  Q!Finish(j, t, ok) <=> P!Finish(j, t, ok)
  BY <1>7 DEF Q!Finish, P!Finish, Q!Owns, P!Owns
<1>9. Q!Reconcile <=> P!Reconcile
  BY <1>3, <1>7 DEF Q!Reconcile, P!Reconcile, Q!Expired, P!Expired
<1>10. ASSUME NEW j PROVE Q!Prune(j) <=> P!Prune(j)
  BY DEF Q!Prune, P!Prune, Q!NoRow, P!NoRow
<1>11. Q!Tick <=> P!Tick
  BY DEF Q!Tick, P!Tick, Q!Countdown, P!Countdown
<1>12. ASSUME NEW t PROVE Q!Forget(t) <=> P!Forget(t)
  BY DEF Q!Forget, P!Forget
<1> QED BY <1>1, <1>2, <1>4, <1>5, <1>6, <1>8, <1>9, <1>10, <1>11, <1>12

\* How a step of the workers uses the queue: at most one transaction, with the
\* arguments the queue's contract allows; and when that acknowledges an attempt,
\* the run is over and the acknowledgement says how.
LEMMA WorkerUses ==
  ASSUME WorkerInv, [Next]_vars
  PROVE  \/ UNCHANGED <<jobs, issued, scheduled>>
         \/ \E k \in Kind, key \in Key, r \in Interval : Q!Enqueue(k, key, Null, r)
         \/ \E k \in Kind, t \in Token : Q!Claim(k, t)
         \/ \E j \in JobId, t \in issued : Q!Renew(j, t)
         \/ \E j \in JobId, t \in issued, ok \in BOOLEAN :
              /\ Q!Finish(j, t, ok)
              /\ fate[t] \in {"returned", "raised"}
              /\ ok => fate[t] = "returned"
         \/ Q!Reconcile
         \/ \E j \in JobId : Q!Prune(j)
         \/ Q!Tick
         \/ \E t \in Token : Q!Forget(t)
<1> DEFINE Uses ==
         \/ UNCHANGED <<jobs, issued, scheduled>>
         \/ \E k \in Kind, key \in Key, r \in Interval : Q!Enqueue(k, key, Null, r)
         \/ \E k \in Kind, t \in Token : Q!Claim(k, t)
         \/ \E j \in JobId, t \in issued : Q!Renew(j, t)
         \/ \E j \in JobId, t \in issued, ok \in BOOLEAN :
              /\ Q!Finish(j, t, ok)
              /\ fate[t] \in {"returned", "raised"}
              /\ ok => fate[t] = "returned"
         \/ Q!Reconcile
         \/ \E j \in JobId : Q!Prune(j)
         \/ Q!Tick
         \/ \E t \in Token : Q!Forget(t)
<1> SUFFICES Uses
  OBVIOUS
<1> LoopsTyped /\ ClaimsValid /\ FatesTold
  BY DEF WorkerInv
<1> (\A w \in Loop : KindOf[w] \in Kind) /\ Scheduler \in Key /\ Every \in Interval
  BY WorkerAssumption DEF WorkerAssumption
<1>1. \A w \in Loop : Q!Enqueue(KindOf[w], Scheduler, Null, Every) => Uses
  OBVIOUS
<1>2. \A w \in Loop, t \in Token : Q!Claim(KindOf[w], t) => Uses
  OBVIOUS
<1>3. ASSUME NEW w \in Loop, Polling(w) PROVE Uses
  <2>1. \/ UNCHANGED queueVars \/ Q!Reconcile
        \/ Q!Enqueue(KindOf[w], Scheduler, Null, Every)
        \/ \E t \in Token : Q!Claim(KindOf[w], t)
    BY <1>3 DEF Polling, SweepExpired, SwitchOn, SwitchOff, EnqueueCycle, ClaimCycle,
                NothingToClaim, PollFails, EndPause
  <2> QED BY <1>1, <1>2, <2>1 DEF queueVars
<1>4. ASSUME NEW w \in Loop, Working(w) PROVE Uses
  <2>1. ASSUME RenewLease(w) PROVE Uses
    <3>1. /\ Q!Renew(loop[w].job.id, loop[w].job.token)
          /\ loop[w].pc \in Holding
      BY <2>1 DEF RenewLease, LoopsTyped, At, Holding
    <3>2. loop[w].job.id \in JobId /\ loop[w].job.token \in issued
      BY <3>1 DEF ClaimsValid, Valid
    <3> QED BY <3>1, <3>2
  <2>2. ASSUME ~RenewLease(w) PROVE UNCHANGED queueVars
    BY <1>4, <2>2 DEF Working, BeginRun, ActionEnds, SendRenewal, RenewalFails, LeaseIsLost,
                      ActionReturns, ActionFails, EndLeasedAction
  <2> QED BY <2>1, <2>2 DEF queueVars
<1>5. ASSUME NEW w \in Loop, Settling(w) PROVE Uses
  <2>1. ASSUME Acknowledge(w), Q!Finish(loop[w].job.id, loop[w].job.token, At(w, "ackOk"))
        PROVE  Uses
    <3>1. /\ loop[w].pc \in {"ackOk", "ackFail"} /\ loop[w].pc \in Holding
          /\ At(w, "ackOk") \in BOOLEAN
      BY <2>1 DEF Acknowledge, Holding, At
    <3>2. loop[w].job.id \in JobId /\ loop[w].job.token \in issued
      BY <3>1 DEF ClaimsValid, Valid
    <3>3. /\ fate[loop[w].job.token] \in {"returned", "raised"}
          /\ At(w, "ackOk") => fate[loop[w].job.token] = "returned"
      BY <3>1 DEF FatesTold, Truthful, At
    <3> HIDE DEF At
    <3> QED BY <2>1, <3>1, <3>2, <3>3
  <2>2. \/ UNCHANGED queueVars
        \/ Acknowledge(w) /\ Q!Finish(loop[w].job.id, loop[w].job.token, At(w, "ackOk"))
    BY <1>5 DEF Settling, RecordRun, Acknowledge, AckRaises, NackRaises
  <2> QED BY <2>1, <2>2 DEF queueVars
<1>6. ASSUME NEW w \in Loop, Process(w) PROVE Uses
  <2>1. UNCHANGED queueVars
    BY <1>6 DEF Process, Start, Signal, DrainExpires, Crash
  <2> QED BY <2>1 DEF queueVars
<1>7. ASSUME NEW c \in stray, StrayLands(c) PROVE Uses
  <2>1. c \in Call /\ c.loop \in Loop /\ c.ok \in BOOLEAN
    BY DEF LoopsTyped, Call
  <2>2. CASE c.op \in {"renew", "finish"}
    <3>1. c.job.id \in JobId /\ c.job.token \in issued
      BY <2>2 DEF ClaimsValid, Valid
    <3>2. c.op = "finish" => /\ fate[c.job.token] \in {"returned", "raised"}
                             /\ c.ok => fate[c.job.token] = "returned"
      BY DEF FatesTold, TruthfulCall
    <3>3. CASE c.op = "renew" /\ Q!Renew(c.job.id, c.job.token)
      BY <3>1, <3>3
    <3>4. CASE c.op = "finish" /\ Q!Finish(c.job.id, c.job.token, c.ok)
      BY <2>1, <3>1, <3>2, <3>4
    <3> QED BY <1>7, <2>2, <3>3, <3>4 DEF StrayLands
  <2>3. CASE c.op \notin {"renew", "finish"}
    <3>1. \/ Q!Reconcile
          \/ Q!Enqueue(KindOf[c.loop], Scheduler, Null, Every)
          \/ \E t \in Token : Q!Claim(KindOf[c.loop], t)
      BY <1>7, <2>3 DEF StrayLands
    <3> QED BY <1>1, <1>2, <2>1, <3>1
  <2> QED BY <2>2, <2>3
<1>8. ASSUME NEW c \in stray, StrayLost(c) PROVE Uses
  BY <1>8 DEF StrayLost, queueVars
<1>9. ASSUME Watchdog \/ TimePasses \/ \E t \in Token : Forget(t) PROVE Uses
  BY <1>9 DEF Watchdog, TimePasses, Forget
<1>10. ASSUME UNCHANGED vars PROVE Uses
  BY <1>10 DEF vars, queueVars
<1> HIDE DEF Uses
<1> QED BY <1>3, <1>4, <1>5, <1>6, <1>7, <1>8, <1>9, <1>10 DEF Next

-----------------------------------------------------------------------------
\* Every step of the workers is a transaction of the queue, or none: the loops,
\* the watchdog and the calls that land late are legal callers.
THEOREM LoopsKeepContract == Spec => QueueContract
<1>1. Init => Q!Init
  BY DEF Init
<1>2. WorkerInv /\ [Next]_vars => [Q!Next]_(Q!queueVars)
  <2> SUFFICES ASSUME WorkerInv, [Next]_vars PROVE Q!Next \/ UNCHANGED Q!queueVars
    OBVIOUS
  <2> QED BY WorkerUses DEF Q!Next, Q!queueVars
<1> QED BY <1>1, <1>2, WorkerInvariant, PTL DEF Spec, QueueContract, Q!Spec

\* The queue the workers use is the queue the theorems of JobQueueProofs are about.
LEMMA WorkersAreCallers == Spec => P!Spec
<1>1. Q!Init => P!Init
  BY SameQueue
<1>2. [Q!Next]_(Q!queueVars) => [P!Next]_(P!queueVars)
  <2> SUFFICES ASSUME Q!Next PROVE P!Next
    BY DEF Q!queueVars, P!queueVars
  <2>1. \/ \E k \in Kind, key \in Key, r \in Interval : P!Enqueue(k, key, Null, r)
        \/ \E k \in Kind, p \in Priority : P!Enqueue(k, Null, p, Null)
        \/ \E k \in Kind, t \in Token : P!Claim(k, t)
        \/ \E j \in JobId, t \in issued : P!Renew(j, t)
        \/ \E j \in JobId, t \in issued, ok \in BOOLEAN : P!Finish(j, t, ok)
        \/ P!Reconcile
        \/ \E j \in JobId : P!Prune(j)
        \/ P!Tick
        \/ \E t \in Token : P!Forget(t)
    BY SameQueue DEF Q!Next
  <2> QED BY <2>1 DEF P!Next
<1> QED BY <1>1, <1>2, LoopsKeepContract, PTL DEF QueueContract, Q!Spec, P!Spec

\* What is proved of the queue for any callers is true of the queue the workers
\* use: its inductive invariant holds in every state of the worker processes.
THEOREM QueueInvariantsHold == Spec => []P!QueueInv
<1>1. P!Spec => []P!QueueInv
  BY SameBounds, P!QueueInvariant
<1> QED BY <1>1, WorkersAreCallers

\* And so does its promise: whatever the worker processes do, crash or leave in
\* flight, every schedule has one occurrence, tried max_attempts times at most.
THEOREM WorkersKeepSchedules == Spec => P!KeepsPromise
<1>1. P!Spec => P!KeepsPromise
  BY SameBounds, P!SchedulesKeepPromise
<1> QED BY <1>1, WorkersAreCallers

\* The queue's tables are well formed under the workers.
LEMMA QueueTyped == P!QueueInv => Q!TypeOK
BY SameQueue DEF P!QueueInv

\* The queue is a queue, the loops are in their states and the calls that are
\* in flight are calls.
THEOREM WorkerTyped == Spec => []TypeOK
<1>1. WorkerInv /\ P!QueueInv => TypeOK
  BY QueueTyped DEF WorkerInv, LoopsTyped, TypeOK
<1> QED BY <1>1, WorkerInvariant, QueueInvariantsHold, PTL

\* How a row that runs ends under the workers: by an acknowledgement that is
\* true of the run it names, or by a sweep after its lease.
LEMMA RowEnds ==
  ASSUME WorkerInv, P!QueueInv, [Next]_vars, NEW j \in JobId, jobs[j].status = "running"
  PROVE  \/ jobs'[j].status = "running"
         \/ /\ fate[jobs[j].token] \in {"returned", "raised"}
            /\ jobs'[j].status = "succeeded" => fate[jobs[j].token] = "returned"
         \/ jobs[j].lease = 0 /\ jobs'[j].status # "succeeded"
<1> P!TypeOK /\ P!QueueAssumption
  BY SameBounds DEF P!QueueInv
<1>1. CASE UNCHANGED <<jobs, issued, scheduled>>
  BY <1>1
<1>2. CASE \/ \E k \in Kind, key \in Key, r \in Interval : Q!Enqueue(k, key, Null, r)
           \/ \E k \in Kind, t \in Token : Q!Claim(k, t)
           \/ \E i \in JobId, t \in issued : Q!Renew(i, t)
           \/ \E i \in JobId : Q!Prune(i)
           \/ Q!Tick
           \/ \E t \in Token : Q!Forget(t)
  <2>1. \/ \E k, key, prio, repeat : P!Enqueue(k, key, prio, repeat)
        \/ \E k, t : P!Claim(k, t)
        \/ \E i, t : P!Renew(i, t)
        \/ \E i \in JobId : P!Prune(i)
        \/ P!Tick
        \/ \E t : P!Forget(t)
    BY <1>2, SameQueue
  <2> QED BY <2>1, P!RunningStays
<1>3. ASSUME NEW i \in JobId, NEW t \in issued, NEW ok \in BOOLEAN, Q!Finish(i, t, ok),
             fate[t] \in {"returned", "raised"}, ok => fate[t] = "returned"
      PROVE  \/ jobs'[j].status = "running"
             \/ /\ fate[jobs[j].token] \in {"returned", "raised"}
                /\ jobs'[j].status = "succeeded" => fate[jobs[j].token] = "returned"
  <2>1. P!Finish(i, t, ok)
    BY <1>3, SameQueue
  <2>2. \/ jobs'[j].status = "running"
        \/ j = i /\ jobs[j].token = t /\ (jobs'[j].status = "succeeded" => ok)
    BY <2>1, P!FinishEnds
  <2> QED BY <1>3, <2>2
<1>4. CASE Q!Reconcile
  BY <1>4, SameQueue, P!ReconcileEnds
<1> QED BY <1>1, <1>2, <1>3, <1>4, WorkerUses

\* A job succeeds only on work that was done: whatever crashed, timed out or
\* landed late, the attempt whose token the database accepts had returned.
THEOREM OnlyDoneWorkIsAcked == Spec => AckedWorkWasDone
<1> DEFINE Acked == \A j \in JobId :
                      jobs[j].status = "running" /\ jobs'[j].status = "succeeded"
                        => fate[jobs[j].token] = "returned"
<1>1. WorkerInv /\ P!QueueInv /\ [Next]_vars => [Acked]_vars
  <2> SUFFICES ASSUME WorkerInv, P!QueueInv, [Next]_vars, NEW j \in JobId,
                      jobs[j].status = "running", jobs'[j].status = "succeeded"
               PROVE  fate[jobs[j].token] = "returned"
    OBVIOUS
  <2> QED BY RowEnds
<1> HIDE DEF Acked
<1>2. Spec => [][Acked]_vars
  BY <1>1, WorkerInvariant, QueueInvariantsHold, PTL DEF Spec
<1> QED BY <1>2 DEF Acked, AckedWorkWasDone

\* An attempt that was cut off keeps its row until its lease is over: nobody,
\* however late, releases it before that.
THEOREM CutOffWorkWaits == Spec => CutOffWorkWaitsForExpiry
<1> DEFINE Waits == \A j \in JobId :
                      (/\ jobs[j].status = "running" /\ jobs[j].lease > 0
                       /\ fate[jobs[j].token] \in {"none", "running", "lost"})
                        => jobs'[j].status = "running"
<1>1. WorkerInv /\ P!QueueInv /\ [Next]_vars => [Waits]_vars
  <2> SUFFICES ASSUME WorkerInv, P!QueueInv, [Next]_vars, NEW j \in JobId,
                      jobs[j].status = "running", jobs[j].lease > 0,
                      fate[jobs[j].token] \in {"none", "running", "lost"}
               PROVE  jobs'[j].status = "running"
    OBVIOUS
  <2>1. jobs[j].lease # 0
    OBVIOUS
  <2> QED BY <2>1, RowEnds
<1> HIDE DEF Waits
<1>2. Spec => [][Waits]_vars
  BY <1>1, WorkerInvariant, QueueInvariantsHold, PTL DEF Spec
<1> QED BY <1>2 DEF Waits, CutOffWorkWaitsForExpiry
=============================================================================
