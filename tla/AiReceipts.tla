----------------------------- MODULE AiReceipts -----------------------------
(***************************************************************************)
(* Receipts for paid requests to an AI provider: the tables                *)
(* ai_request_receipts, ai_request_attempts and ai_request_retry_bindings  *)
(* and the functions that change them                                      *)
(* (backend/migrations/20261013040020_ai_receipts.sql).                    *)
(*                                                                         *)
(* A logical request has a first receipt and one more for every explicit   *)
(* retry that bought again; they are numbered in the order of created_at.  *)
(* A receipt allows two sends.  The token of a send is fresh, so a send is *)
(* named by its receipt and its place in it.  reserve_ai_* take one        *)
(* advisory lock, the others lock the receipt: each is one action.         *)
(*                                                                         *)
(* Time.  lease counts down to lease_expires_at, age counts up from        *)
(* started_at and stops at RetainTicks, past which nothing looks further.  *)
(***************************************************************************)
EXTENDS Integers, FiniteSets, Functions

CONSTANTS
  Logical,      \* logical requests: the identity of model, input and policy
  RetryKey,     \* explicit retries an administrator asked for
  RetryFor,     \* the request such a retry is about
  MaxGen,       \* bound: receipts of one logical request
  Null,
  Cost,         \* Cost[l]: the amount reserved for one send of l
  Window,       \* the rolling windows: minute, hour, day
  Span,         \* their lengths in ticks
  Budget,       \* what may be spent in each of them
  LeaseTicks,   \* the lease of a pending send
  RetainTicks   \* age from which stored payloads are pruned

ASSUME ReceiptAssumption ==
  /\ Logical # {}
  /\ Null \notin RetryKey
  /\ RetryFor \in [RetryKey -> Logical]
  /\ MaxGen \in Nat \ {0}
  /\ Cost \in [Logical -> Nat \ {0}]
  /\ Span \in [Window -> Nat \ {0}]
  /\ Budget \in [Window -> Nat]
  /\ LeaseTicks \in Nat \ {0}
  /\ RetainTicks \in Nat \ {0}
  /\ \A w \in Window : Span[w] <= RetainTicks

VARIABLES
  generations,   \* how many receipts each logical request has
  receipts,      \* ai_request_receipts
  sends,         \* ai_request_attempts
  bindings       \* ai_request_retry_bindings: the receipt of a retry, or 0

tableVars == <<generations, receipts, sends, bindings>>

MaxSends == 2
Receipt  == Logical \X (1..MaxGen)
Ticket   == Logical \X (1..MaxGen) \X (1..MaxSends)

Status == {"absent", "pending", "received", "completed", "failed", "unknown"}
\* A busy provider (429, 5xx) may be asked again; the other errors are final
\* (provider_http_error, provider_invalid_response) and treated alike.
Error  == {"retryable", "final"}
Answer == {"ok", "bad", "busy"}

ReceiptRow == [status : Status, by : RetryKey \cup {Null}, attempts : 0..MaxSends,
               lease : 0..LeaseTicks, error : Error \cup {Null}, result : BOOLEAN]
SendRow == [status : Status, charged : Nat, age : 0..RetainTicks,
            raw : Answer \cup {Null}]

NoReceipt == [status |-> "absent", by |-> Null, attempts |-> 0, lease |-> 0,
              error |-> Null, result |-> FALSE]
NoSend == [status |-> "absent", charged |-> 0, age |-> 0, raw |-> Null]

TableInit ==
  /\ generations = [l \in Logical |-> 0]
  /\ receipts = [r \in Receipt |-> NoReceipt]
  /\ sends = [t \in Ticket |-> NoSend]
  /\ bindings = [k \in RetryKey |-> 0]

-----------------------------------------------------------------------------
Retryable(r) ==
  /\ receipts[r].status = "failed"
  /\ receipts[r].error = "retryable"
  /\ receipts[r].attempts < MaxSends

\* A receipt that answers a reservation itself: nothing may be sent for it.
Settled(r) == receipts[r].status \in {"received", "completed", "failed"} /\ ~Retryable(r)

InProgress(r) == receipts[r].status = "pending" /\ receipts[r].lease > 0
Lapsed(r)     == receipts[r].status = "pending" /\ receipts[r].lease = 0
Uncertain(r)  == receipts[r].status = "unknown" \/ Lapsed(r)
Exhausted(r)  == Uncertain(r) /\ receipts[r].attempts >= MaxSends

\* Faulty variant: an uncertain receipt is sent again without a bound.
MaySendUncertain(r) ==
  receipts[r].status = "absent" \/ Retryable(r) \/ Uncertain(r)

MaySend(r) ==
  \/ receipts[r].status = "absent"
  \/ Retryable(r)
  \/ Uncertain(r) /\ ~Exhausted(r)

\* Reservations, uncertain sends and settled costs all count, from the moment
\* they were reserved.
Used(w) ==
  SumFunctionOnSet([t \in Ticket |-> sends[t].charged],
                   {t \in Ticket : sends[t].status # "absent" /\ sends[t].age < Span[w]})

Affordable(l) == \A w \in Window : Used(w) + Cost[l] <= Budget[w]

\* The receipt automatic work is about: the newest, or a first one.
Automatic(l) == IF generations[l] = 0 THEN 1 ELSE generations[l]

\* Faulty variant: any completed result may be bought again.
RenewableAlways(r) ==
  \/ receipts[r].status = "failed" /\ ~Retryable(r)
  \/ receipts[r].status = "completed"

\* What an explicit retry may buy again: a failure known to be final, or a
\* completed result that was pruned.
Renewable(r) ==
  \/ receipts[r].status = "failed" /\ ~Retryable(r)
  \/ receipts[r].status = "completed" /\ ~receipts[r].result

\* The receipt an explicit retry made or was bound to earlier.
Remembered(l, key) ==
  {n \in 1..generations[l] : bindings[key] = n \/ (n > 1 /\ receipts[<<l, n>>].by = key)}

\* Faulty variant: the binding is not looked up.
TargetUnbound(l, key) ==
  IF key # Null /\ generations[l] > 0 /\ Renewable(<<l, generations[l]>>)
  THEN generations[l] + 1
  ELSE Automatic(l)

\* The receipt a reservation is about: for automatic work, and for a retry bound
\* to the first receipt, the newest; otherwise the one the retry remembers, or
\* a new one if the newest may be bought again.
Target(l, key) ==
  IF key = Null \/ generations[l] = 0 THEN Automatic(l)
  ELSE IF Remembered(l, key) # {}
         THEN LET n == CHOOSE m \in Remembered(l, key) : TRUE
              IN IF n = 1 THEN Automatic(l) ELSE n
  ELSE IF Renewable(<<l, generations[l]>>) THEN generations[l] + 1
  ELSE generations[l]

Bind(key, n) ==
  bindings' = IF key # Null /\ bindings[key] = 0
              THEN [bindings EXCEPT ![key] = n] ELSE bindings

\* A pending send whose lease is over becomes unknown, here and in its receipt.
Expired(r) ==
  IF Lapsed(r) THEN [receipts[r] EXCEPT !.status = "unknown"] ELSE receipts[r]
ExpiredSends(r) ==
  [t \in Ticket |->
     IF Lapsed(r) /\ t = <<r[1], r[2], receipts[r].attempts>> /\ sends[t].status = "pending"
     THEN [sends[t] EXCEPT !.status = "unknown"] ELSE sends[t]]

(***************************************************************************)
(* reserve_ai_request (key = Null) and reserve_ai_retry, by their answer.  *)
(***************************************************************************)
ReserveCached(l, key) ==
  LET n == Target(l, key) IN
  /\ n <= MaxGen
  /\ Settled(<<l, n>>)
  /\ Bind(key, n)
  /\ UNCHANGED <<generations, receipts, sends>>

ReserveBusy(l, key) ==
  LET n == Target(l, key) IN
  /\ n <= MaxGen
  /\ InProgress(<<l, n>>)
  /\ Bind(key, n)
  /\ UNCHANGED <<generations, receipts, sends>>

ReservePaused(l, key) ==
  LET n == Target(l, key) IN
  /\ n <= MaxGen
  /\ Exhausted(<<l, n>>)
  /\ receipts' = [receipts EXCEPT ![<<l, n>>] = Expired(<<l, n>>)]
  /\ sends' = ExpiredSends(<<l, n>>)
  /\ Bind(key, n)
  /\ UNCHANGED generations

ReserveOverBudget(l, key) ==
  LET n == Target(l, key) IN
  /\ n <= MaxGen
  /\ MaySend(<<l, n>>)
  /\ ~Affordable(l)
  /\ receipts' = [receipts EXCEPT ![<<l, n>>] = Expired(<<l, n>>)]
  /\ sends' = ExpiredSends(<<l, n>>)
  /\ UNCHANGED <<generations, bindings>>

ReserveSend(l, key) ==
  LET n == Target(l, key)
      r == <<l, n>>
      k == receipts[r].attempts + 1
  IN
  /\ n <= MaxGen
  /\ MaySend(r)
  /\ Affordable(l)
  /\ generations' = [generations EXCEPT ![l] = IF n > @ THEN n ELSE @]
  /\ receipts' = [receipts EXCEPT ![r] =
                    [status |-> "pending", attempts |-> k, lease |-> LeaseTicks,
                     by |-> IF n > generations[l] THEN key ELSE receipts[r].by,
                     error |-> Null, result |-> receipts[r].result]]
  /\ sends' = [ExpiredSends(r) EXCEPT ![<<l, n, k>>] =
                 [status |-> "pending", charged |-> Cost[l], age |-> 0, raw |-> Null]]
  /\ Bind(key, n)

\* The ticket ReserveSend hands out.
NewTicket(l, key) ==
  <<l, Target(l, key), receipts[<<l, Target(l, key)>>].attempts + 1>>

\* Faulty variant: any token of the receipt is accepted.
CurrentByReceipt(t) == sends[t].status # "absent"

\* active_token: the last send of its receipt.
Current(t) == receipts[<<t[1], t[2]>>].attempts = t[3]

\* receive_ai_response, when it finds the receipt; its lease is not looked at.
Receive(t, answer) ==
  LET r == <<t[1], t[2]>> IN
  /\ Current(t) /\ receipts[r].status = "pending"
  /\ receipts' = [receipts EXCEPT ![r].status = "received"]
  /\ sends' = [sends EXCEPT ![t].status = "received", ![t].raw = answer]
  /\ UNCHANGED <<generations, bindings>>

Open(t) == Current(t) /\ receipts[<<t[1], t[2]>>].status \in {"pending", "received"}

\* Faulty variant: an uncertain send is not charged.
FinishRefundingUnknown(t, status, error, charge) ==
  LET r == <<t[1], t[2]>> IN
  /\ Open(t)
  /\ receipts' = [receipts EXCEPT ![r].status = status, ![r].error = error,
                                  ![r].result = (status = "completed"), ![r].lease = 0]
  /\ sends' = [sends EXCEPT ![t].status = status,
                            ![t].charged = IF status = "unknown" THEN 0 ELSE charge]
  /\ UNCHANGED <<generations, bindings>>

\* finish_ai_request, when it finds the receipt.
Finish(t, status, error, charge) ==
  LET r == <<t[1], t[2]>> IN
  /\ Open(t)
  /\ receipts' = [receipts EXCEPT ![r].status = status, ![r].error = error,
                                  ![r].result = (status = "completed"), ![r].lease = 0]
  /\ sends' = [sends EXCEPT ![t].status = status, ![t].charged = charge]
  /\ UNCHANGED <<generations, bindings>>

\* prune_ai_receipts: the stored answer, and the typed result, of old sends.
PruneRaw(t) ==
  /\ sends[t].raw # Null /\ sends[t].age = RetainTicks
  /\ sends' = [sends EXCEPT ![t].raw = Null]
  /\ UNCHANGED <<generations, receipts, bindings>>

PruneResult(r) ==
  /\ receipts[r].result /\ receipts[r].status \in {"completed", "failed"}
  /\ sends[<<r[1], r[2], receipts[r].attempts>>].age = RetainTicks
  /\ receipts' = [receipts EXCEPT ![r].result = FALSE]
  /\ UNCHANGED <<generations, sends, bindings>>

Older(age) == IF age < RetainTicks THEN age + 1 ELSE age

Tick ==
  /\ \/ \E r \in Receipt : receipts[r].lease > 0
     \/ \E t \in Ticket : sends[t].status # "absent" /\ sends[t].age < RetainTicks
  /\ receipts' = [r \in Receipt |->
                    [receipts[r] EXCEPT !.lease = IF @ > 0 THEN @ - 1 ELSE 0]]
  /\ sends' = [t \in Ticket |->
                 IF sends[t].status = "absent" THEN sends[t]
                 ELSE [sends[t] EXCEPT !.age = Older(@)]]
  /\ UNCHANGED <<generations, bindings>>

Reserve(l, key) ==
  \/ ReserveCached(l, key) \/ ReserveBusy(l, key) \/ ReservePaused(l, key)
  \/ ReserveOverBudget(l, key) \/ ReserveSend(l, key)

\* What a caller may finish a send as: the amount of a completed one is what the
\* provider reports, any other keeps its reservation.
Settle(t) ==
  \/ \E charge \in 0..Cost[t[1]] : Finish(t, "completed", Null, charge)
  \/ \E error \in Error : Finish(t, "failed", error, sends[t].charged)
  \/ Finish(t, "unknown", Null, sends[t].charged)

TableNext ==
  \/ \E l \in Logical : Reserve(l, Null)
  \/ \E key \in RetryKey : Reserve(RetryFor[key], key)
  \/ \E t \in Ticket, answer \in Answer : Receive(t, answer)
  \/ \E t \in Ticket : Settle(t) \/ PruneRaw(t)
  \/ \E r \in Receipt : PruneResult(r)
  \/ Tick

TableSpec == TableInit /\ [][TableNext]_tableVars
=============================================================================
