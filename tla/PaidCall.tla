------------------------------ MODULE PaidCall ------------------------------
(***************************************************************************)
(* execute_paid (backend/services/ai_runtime.py): callers that reserve,    *)
(* send, store the answer, then settle the receipt, with one more send     *)
(* after an uncertain or retryable one.  Callers run at the same time in   *)
(* the worker and in other processes, and may be cancelled or crash.       *)
(*                                                                         *)
(* A database call that was given up may commit later, while other calls   *)
(* run: it is the call of a caller that waits on and is then cut off.      *)
(* A send that raises or times out may have been billed.  The provider     *)
(* bills a send at most what was reserved for it: the reservation is an    *)
(* upper bound on the tokens of the request                                *)
(* (review_provider.build_request).                                        *)
(***************************************************************************)
EXTENDS AiReceipts

CONSTANT Caller    \* concurrent calls of execute_paid

VARIABLES
  call,       \* what each caller is doing
  billed,     \* history: what the provider may have charged for each send
  contacts    \* history: how often the provider was asked under each ticket

vars == <<tableVars, call, billed, contacts>>

(***************************************************************************)
(* A call: the await it is at, its request, whether it may still retry     *)
(* (_retry_allowed), the send it holds and the answer it got.              *)
(***************************************************************************)
PC == {"idle", "reserve", "send", "unknown", "receive", "load", "settle"}
NoTicket == <<>>
CallState == [pc : PC, logical : Logical, key : RetryKey \cup {Null}, again : BOOLEAN,
              ticket : Ticket \cup {NoTicket}, answer : Answer \cup {Null}]

Init ==
  /\ TableInit
  /\ call \in [Caller -> {[pc |-> "idle", logical |-> l, key |-> Null, again |-> TRUE,
                           ticket |-> NoTicket, answer |-> Null]
                          : l \in {CHOOSE l \in Logical : TRUE}}]
  /\ billed = [t \in Ticket |-> 0]
  /\ contacts = [t \in Ticket |-> 0]

At(c, label) == call[c].pc = label
Goto(c, label) == call' = [call EXCEPT ![c].pc = label]
Return(c) ==
  call' = [call EXCEPT ![c] = [@ EXCEPT !.pc = "idle", !.key = Null, !.again = TRUE,
                                        !.ticket = NoTicket, !.answer = Null]]

\* Faulty variant: the retry goes straight to the provider.
TryAgainUnreserved(c) ==
  call' = [call EXCEPT ![c] = [@ EXCEPT !.pc = "send", !.again = FALSE, !.answer = Null]]

\* The call runs execute_paid again, for the last time.
TryAgain(c) ==
  call' = [call EXCEPT ![c] = [@ EXCEPT !.pc = "reserve", !.again = FALSE,
                                        !.ticket = NoTicket, !.answer = Null]]

\* The reservation names the send, which decides whether the call may run again:
\* in its first run (_retry_allowed), for the first send of the receipt.  A call
\* that may not needs its retry key no more.
Hold(c, label, t) ==
  LET more == call[c].again /\ t[3] < MaxSends IN
  call' = [call EXCEPT ![c] = [@ EXCEPT !.pc = label, !.ticket = t, !.again = more,
                                        !.key = IF more THEN call[c].key ELSE Null]]

history == <<billed, contacts>>

-----------------------------------------------------------------------------
\* The worker's reviews call without a retry key, those an administrator asked to
\* retry with theirs, which they keep when they run again.
Begin(c) ==
  /\ At(c, "idle")
  /\ \E l \in Logical, key \in RetryKey \cup {Null} :
       /\ key # Null => RetryFor[key] = l
       /\ call' = [call EXCEPT ![c] = [@ EXCEPT !.pc = "reserve", !.logical = l, !.key = key]]
  /\ UNCHANGED <<tableVars, history>>

\* The reservation is refused, or the receipt is completed or failed: the call
\* returns or raises.
ReserveAnswers(c) ==
  LET l == call[c].logical
      key == call[c].key
  IN
  /\ At(c, "reserve")
  /\ \/ ReserveBusy(l, key) \/ ReservePaused(l, key) \/ ReserveOverBudget(l, key)
     \/ ReserveCached(l, key) /\ receipts[<<l, Target(l, key)>>].status # "received"
  /\ Return(c)
  /\ UNCHANGED history

\* An answer is stored that nobody settled: this call will.
ReserveFindsAnswer(c) ==
  LET l == call[c].logical
      r == <<l, Target(l, call[c].key)>>
  IN
  /\ At(c, "reserve")
  /\ ReserveCached(l, call[c].key)
  /\ receipts[r].status = "received"
  /\ Hold(c, "load", <<r[1], r[2], receipts[r].attempts>>)
  /\ UNCHANGED history

ReserveGrants(c) ==
  /\ At(c, "reserve")
  /\ ReserveSend(call[c].logical, call[c].key)
  /\ Hold(c, "send", NewTicket(call[c].logical, call[c].key))
  /\ UNCHANGED history

\* The stored answer is read by its token; it may have been pruned.
LoadAnswer(c) ==
  /\ At(c, "load")
  /\ IF sends[call[c].ticket].raw = Null THEN Return(c)
     ELSE call' = [call EXCEPT ![c].pc = "settle", ![c].answer = sends[call[c].ticket].raw]
  /\ UNCHANGED <<tableVars, history>>

\* The provider is asked under the ticket; what it bills is not known before an
\* answer of its is parsed, and until then is taken to be all that was reserved.
Contact(t) ==
  /\ billed' = [billed EXCEPT ![t] = @ + Cost[t[1]]]
  /\ contacts' = [contacts EXCEPT ![t] = @ + 1]

ProviderAnswers(c) ==
  /\ At(c, "send")
  /\ Contact(call[c].ticket)
  /\ \E a \in Answer :
       call' = [call EXCEPT ![c].pc = "receive", ![c].answer = a]
  /\ UNCHANGED tableVars

\* The send raises or runs into its timeout.
SendFails(c) ==
  /\ At(c, "send")
  /\ Contact(call[c].ticket)
  /\ Goto(c, "unknown")
  /\ UNCHANGED tableVars

\* The task is cancelled in the middle of the send: the uncertain outcome is
\* stored, and the call ends.
CancelSend(c) ==
  /\ At(c, "send")
  /\ Contact(call[c].ticket)
  /\ call' = [call EXCEPT ![c].pc = "unknown", ![c].again = FALSE,
                          ![c].key = Null]
  /\ UNCHANGED tableVars

\* Faulty variant: an uncertain outcome is reported as free of charge.
StoreUnknownFree(c) ==
  LET t == call[c].ticket IN
  /\ At(c, "unknown")
  /\ \/ Finish(t, "unknown", Null, 0)
        /\ IF call[c].again THEN TryAgain(c) ELSE Return(c)
     \/ ~Open(t) /\ UNCHANGED tableVars /\ Return(c)
  /\ UNCHANGED history

\* The uncertain outcome is stored, or refused because the send was taken over.
StoreUnknown(c) ==
  LET t == call[c].ticket IN
  /\ At(c, "unknown")
  /\ \/ Finish(t, "unknown", Null, sends[t].charged)
        /\ IF call[c].again THEN TryAgain(c) ELSE Return(c)
     \/ ~Open(t) /\ UNCHANGED tableVars /\ Return(c)
  /\ UNCHANGED history

StoreAnswer(c) ==
  LET t == call[c].ticket IN
  /\ At(c, "receive")
  /\ \/ Receive(t, call[c].answer) /\ Goto(c, "settle")
     \/ /\ ~(Current(t) /\ receipts[<<t[1], t[2]>>].status = "pending")
        /\ UNCHANGED tableVars /\ Return(c)
  /\ UNCHANGED history

\* How an answer settles its receipt: a parsed one with the cost it reports, any
\* other with what was reserved.
SettledAs(t, answer) ==
  \/ /\ answer = "ok"
     /\ \E amount \in 0..Cost[t[1]] :
          /\ Finish(t, "completed", Null, amount)
          /\ billed' = [billed EXCEPT ![t] = amount]
  \/ answer = "bad"  /\ Finish(t, "failed", "final", sends[t].charged) /\ UNCHANGED billed
  \/ answer = "busy" /\ Finish(t, "failed", "retryable", sends[t].charged) /\ UNCHANGED billed

SettleAnswer(c) ==
  LET t == call[c].ticket IN
  /\ At(c, "settle")
  /\ \/ SettledAs(t, call[c].answer)
        /\ IF call[c].answer = "busy" /\ call[c].again THEN TryAgain(c) ELSE Return(c)
     \/ ~Open(t) /\ UNCHANGED <<tableVars, billed>> /\ Return(c)
  /\ UNCHANGED contacts

\* A database call raises or times out, the task is cancelled there, or its
\* process crashes; an uncertain outcome that is not stored is left to the lease.
CutOff(c) ==
  /\ ~At(c, "idle")
  /\ IF At(c, "send") THEN Contact(call[c].ticket)
     ELSE UNCHANGED history
  /\ Return(c)
  /\ UNCHANGED tableVars

Housekeeping ==
  /\ \/ \E t \in Ticket : PruneRaw(t)
     \/ \E r \in Receipt : PruneResult(r)
     \/ Tick
  /\ UNCHANGED <<call, history>>

Next ==
  \/ \E c \in Caller :
       \/ Begin(c) \/ ReserveAnswers(c) \/ ReserveFindsAnswer(c) \/ ReserveGrants(c)
       \/ LoadAnswer(c) \/ ProviderAnswers(c) \/ SendFails(c) \/ CancelSend(c)
       \/ StoreUnknown(c) \/ StoreAnswer(c) \/ SettleAnswer(c) \/ CutOff(c)
  \/ Housekeeping

Spec == Init /\ [][Next]_vars

-----------------------------------------------------------------------------
\* The tables are well formed: receipts are numbered without gaps, a receipt has
\* exactly the sends it counts, and never more than two.
TypeOK ==
  /\ generations \in [Logical -> 0..MaxGen]
  /\ receipts \in [Receipt -> ReceiptRow]
  /\ sends \in [Ticket -> SendRow]
  /\ bindings \in [RetryKey -> 0..MaxGen]
  /\ call \in [Caller -> CallState]
  /\ \A r \in Receipt : receipts[r].status = "absent" <=> r[2] > generations[r[1]]
  /\ \A t \in Ticket :
       sends[t].status # "absent" <=> t[3] <= receipts[<<t[1], t[2]>>].attempts

\* No request goes out without its reservation, and none goes out twice: the
\* provider is asked at most once for each reserved send.
SentOnce ==
  \A t \in Ticket : contacts[t] <= IF sends[t].status = "absent" THEN 0 ELSE 1

\* What the provider really bills for the sends reserved in any window stays
\* within its budget, however many of them got lost, failed or are uncertain.
SpendWithinBudget ==
  \A w \in Window :
    SumFunctionOnSet(billed, {t \in Ticket : /\ sends[t].status # "absent"
                                             /\ sends[t].age < Span[w]}) <= Budget[w]

\* A send that another one of its receipt followed.
Superseded(t) == t[3] < receipts[<<t[1], t[2]>>].attempts

\* Nothing is bought twice: a second send follows only an uncertain or a busy
\* one, a further receipt only one that failed for good or whose result is gone,
\* also when several calls run, crash and retry at once.
NothingBoughtTwice ==
  /\ \A r \in Receipt :
       r[2] < generations[r[1]] =>
         \/ receipts[r].status = "completed" /\ ~receipts[r].result
         \/ receipts[r].status = "failed"
            /\ (receipts[r].error = "final" \/ receipts[r].attempts = MaxSends)
  /\ \A t \in Ticket :
       Superseded(t) =>
         /\ sends[t].status \in {"unknown", "failed"}
         /\ sends[t].raw \in {"busy", Null}

\* An explicit retry, however often it runs again, creates at most one receipt.
RetryBuysOnce ==
  \A key \in RetryKey :
    Cardinality({r \in Receipt : receipts[r].by = key}) <= 1

\* Late calls are fenced: a send that another one superseded, and a receipt that
\* is completed or has finally failed, keep their outcome and their charge.
LateCallsFenced ==
  [][/\ \A t \in Ticket :
          Superseded(t) =>
            sends'[t].status = sends[t].status /\ sends'[t].charged = sends[t].charged
     /\ \A r \in Receipt :
          Settled(r) /\ receipts[r].status # "received" =>
            receipts'[r].status = receipts[r].status]_vars

\* The calls change the tables only through the functions.
TableContract == TableSpec
=============================================================================
