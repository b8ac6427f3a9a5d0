--------------------------- MODULE PaidCallProofs ---------------------------
(***************************************************************************)
(* Safety of paid requests, for every number of requests, retries, callers *)
(* and receipts, any prices, budgets and lengths of leases.  The tables    *)
(* keep TableInv whoever calls their functions; CallInv adds what the      *)
(* callers of execute_paid contribute: a send has one sender, who is the   *)
(* only one that may call it uncertain or store its answer.  BudgetInv     *)
(* relates what is billed to what is charged, and that to the budgets; it  *)
(* needs a few facts about sums, which are proved here.                    *)
(***************************************************************************)
EXTENDS PaidCall, FiniteSetTheorems, WellFoundedInduction, NaturalsInduction, TLAPS

-----------------------------------------------------------------------------
(* The invariant.                                                            *)

Of(t)      == <<t[1], t[2]>>
Send(r, k) == <<r[1], r[2], k>>
Last(r)    == Send(r, receipts[r].attempts)

\* A receipt exists from its first send on, and shows the outcome of its last one.
ReceiptOK(r) ==
  /\ receipts[r].status = "absent" <=> r[2] > generations[r[1]]
  /\ receipts[r].status = "absent" => receipts[r].attempts = 0 /\ receipts[r].by = Null
  /\ receipts[r].status # "absent" =>
       receipts[r].attempts # 0 /\ sends[Last(r)].status = receipts[r].status
  /\ receipts[r].status = "failed" => receipts[r].error \in Error

\* A receipt that is not asked again: bought and gone, or failed for good.
Over(r) ==
  \/ receipts[r].status = "completed" /\ ~receipts[r].result
  \/ receipts[r].status = "failed" /\ (receipts[r].error = "final" \/ receipts[r].attempts = MaxSends)

OlderOver == \A r \in Receipt : r[2] < generations[r[1]] => Over(r)

ReceiptsInv ==
  /\ generations \in [Logical -> 0..MaxGen]
  /\ receipts \in [Receipt -> ReceiptRow] /\ \A r \in Receipt : ReceiptOK(r)
  /\ sends \in [Ticket -> SendRow]
  /\ \A t \in Ticket : sends[t].status # "absent" <=> t[3] <= receipts[Of(t)].attempts
  /\ OlderOver

\* A retry is bound to a receipt that exists, and to the one it made if it made one.
BindingsInv ==
  /\ bindings \in [RetryKey -> 0..MaxGen]
  /\ \A key \in RetryKey : bindings[key] <= generations[RetryFor[key]]
  /\ \A r \in Receipt : receipts[r].by \in RetryKey =>
       r = <<RetryFor[receipts[r].by], bindings[receipts[r].by]>>

TableInv == ReceiptsInv /\ BindingsInv

\* Between its reservation and the end of the wait for an answer a send has one
\* sender; afterwards any call may carry its stored answer.
Sends(x)   == x.pc \in {"send", "unknown", "receive"}
Carries(x) == x.pc \in {"load", "settle"}

SendOpen(y)     == y.status \in {"pending", "unknown"} /\ y.raw = Null
SendAnswered(y) == y.status \in {"received", "completed", "failed"}

\* A call in itself, against the sends S and the contacts C.
Fine(x, S, C) ==
  /\ x.key # Null => RetryFor[x.key] = x.logical
  /\ Sends(x) => x.ticket \in Ticket /\ SendOpen(S[x.ticket])
  /\ x.pc = "send" => C[x.ticket] = 0
  /\ Carries(x) => x.ticket \in Ticket /\ SendAnswered(S[x.ticket])
  /\ x.pc = "receive" => x.answer \in Answer
  /\ x.pc = "settle" => x.answer \in Answer /\ S[x.ticket].raw \in {x.answer, Null}

OneSender ==
  \A c, d \in Caller : Sends(call[c]) /\ Sends(call[d]) /\ call[c].ticket = call[d].ticket => c = d

\* What is stored of a send: an answer comes with its receipt, and only a busy one
\* leaves the receipt to be asked again.
SendOK(t) ==
  /\ sends[t].status \in {"pending", "unknown"} => sends[t].raw = Null
  /\ Current(t) /\ receipts[Of(t)].status = "failed" /\ receipts[Of(t)].error = "retryable" =>
       sends[t].raw \in {"busy", Null}
  /\ Superseded(t) => sends[t].status \in {"unknown", "failed"} /\ sends[t].raw \in {"busy", Null}

SendsOK == \A t \in Ticket : SendOK(t)

CallInv ==
  /\ call \in [Caller -> CallState] /\ contacts \in [Ticket -> Nat]
  /\ \A c \in Caller : Fine(call[c], sends, contacts)
  /\ OneSender /\ SentOnce
  /\ SendsOK

PaidInv == TableInv /\ CallInv

-----------------------------------------------------------------------------
(* Names of receipts and sends, and rows.                                    *)

\* A receipt is a request and a number, a send is a receipt and a number.
LEMMA ReceiptNames ==
  /\ \A r \in Receipt : r[1] \in Logical /\ r[2] \in 1..MaxGen /\ r = <<r[1], r[2]>>
  /\ \A l \in Logical, n \in 1..MaxGen : <<l, n>> \in Receipt
BY DEF Receipt
\* What names a send.
LEMMA SendNames ==
  /\ \A t \in Ticket : Of(t) \in Receipt /\ t[3] \in 1..MaxSends /\ t = Send(Of(t), t[3])
  /\ \A r \in Receipt, k \in 1..MaxSends :
       Send(r, k) \in Ticket /\ Of(Send(r, k)) = r /\ Send(r, k)[3] = k
BY DEF Receipt, Ticket, Of, Send

\* The columns of a receipt.
LEMMA ReceiptColumns ==
  ASSUME NEW x \in ReceiptRow
  PROVE  /\ x.status \in Status /\ x.by \in RetryKey \cup {Null} /\ x.attempts \in 0..MaxSends
         /\ x.error \in Error \cup {Null} /\ x.result \in BOOLEAN /\ x.lease \in 0..LeaseTicks
BY DEF ReceiptRow
\* The columns of a send.
LEMMA SendColumns ==
  ASSUME NEW x \in SendRow
  PROVE  /\ x.status \in Status /\ x.charged \in Nat /\ x.age \in 0..RetainTicks
         /\ x.raw \in Answer \cup {Null}
BY DEF SendRow

\* The last send of a receipt that exists.
LEMMA LastSend ==
  ASSUME ReceiptsInv, NEW r \in Receipt, receipts[r].status # "absent"
  PROVE  /\ receipts[r] \in ReceiptRow /\ receipts[r].attempts \in 1..MaxSends
         /\ Last(r) \in Ticket /\ Of(Last(r)) = r /\ Last(r)[3] = receipts[r].attempts
         /\ sends[Last(r)] \in SendRow /\ sends[Last(r)].status = receipts[r].status
<1>1. receipts[r] \in ReceiptRow /\ ReceiptOK(r)
  BY DEF ReceiptsInv
<1>2. receipts[r].attempts \in 1..MaxSends
  BY <1>1, ReceiptColumns DEF ReceiptOK, MaxSends
<1> QED BY <1>1, <1>2, SendNames DEF ReceiptsInv, ReceiptOK, Last

-----------------------------------------------------------------------------
(* What a step does to the tables.                                           *)

\* One receipt and its last send get another outcome.
Restates(r, row, send) ==
  /\ row \in ReceiptRow /\ send \in SendRow
  /\ row.status = send.status /\ row.status # "absent"
  /\ row.by = receipts[r].by /\ row.attempts = receipts[r].attempts
  /\ row.status = "failed" => row.error \in Error
  /\ receipts' = [receipts EXCEPT ![r] = row] /\ sends' = [sends EXCEPT ![Last(r)] = send]

\* An open receipt may get any outcome with its last send.
LEMMA RestateKeeps ==
  ASSUME ReceiptsInv, NEW r \in Receipt, receipts[r].status # "absent", ~Over(r),
         NEW row, NEW send, Restates(r, row, send), generations' = generations
  PROVE  /\ ReceiptsInv' /\ \A q \in Receipt : receipts'[q].by = receipts[q].by
         /\ \A q \in Receipt \ {r} : receipts'[q] = receipts[q]
         /\ \A t \in Ticket \ {Last(r)} : sends'[t] = sends[t]
         /\ receipts'[r] = row /\ sends'[Last(r)] = send
<1>1. /\ Last(r) \in Ticket /\ Of(Last(r)) = r /\ Last(r)[3] = receipts[r].attempts
      /\ receipts[r].attempts \in 1..MaxSends
  BY LastSend
<1>2. /\ receipts \in [Receipt -> ReceiptRow] /\ sends \in [Ticket -> SendRow]
      /\ \A t \in Ticket : sends[t].status # "absent" <=> t[3] <= receipts[Of(t)].attempts
      /\ \A q \in Receipt : ReceiptOK(q)
  BY DEF ReceiptsInv
<1>3. /\ receipts' \in [Receipt -> ReceiptRow] /\ sends' \in [Ticket -> SendRow]
      /\ \A q \in Receipt \ {r} : receipts'[q] = receipts[q]
      /\ \A t \in Ticket \ {Last(r)} : sends'[t] = sends[t]
      /\ receipts'[r] = row /\ sends'[Last(r)] = send
  BY <1>1, <1>2 DEF Restates
<1>4. \A q \in Receipt : receipts'[q].by = receipts[q].by /\ receipts'[q].attempts = receipts[q].attempts
  BY <1>3 DEF Restates
<1>5. \A t \in Ticket : sends'[t].status # "absent" <=> t[3] <= receipts'[Of(t)].attempts
  <2> SUFFICES ASSUME NEW t \in Ticket
               PROVE  sends'[t].status # "absent" <=> t[3] <= receipts'[Of(t)].attempts
    OBVIOUS
  <2>1. receipts'[Of(t)].attempts = receipts[Of(t)].attempts
    BY <1>4, SendNames
  <2>2. CASE t = Last(r)
    BY <1>1, <1>3, <2>1, <2>2 DEF Restates, MaxSends
  <2>3. CASE t # Last(r)
    BY <1>2, <1>3, <2>1, <2>3
  <2> QED BY <2>2, <2>3
<1>6. \A q \in Receipt : ReceiptOK(q)'
  <2> SUFFICES ASSUME NEW q \in Receipt PROVE ReceiptOK(q)'
    OBVIOUS
  <2>1. Last(q)' = Last(q)
    BY <1>4 DEF Last, Send
  <2>2. CASE q = r
    BY <1>1, <1>2, <1>3, <2>1, <2>2 DEF Restates, ReceiptOK, MaxSends
  <2>3. CASE q # r
    <3>1. receipts[q].status # "absent" => Last(q) \in Ticket /\ Last(q) # Last(r)
      BY <1>1, <2>3, LastSend
    <3> QED BY <1>2, <1>3, <2>1, <2>3, <3>1 DEF ReceiptOK
  <2> QED BY <2>2, <2>3
<1>7. OlderOver'
  BY <1>3 DEF ReceiptsInv, OlderOver, Over
<1> QED BY <1>3, <1>4, <1>5, <1>6, <1>7 DEF ReceiptsInv

\* A step that only ages rows, or drops what they store.
Ages ==
  /\ receipts' \in [Receipt -> ReceiptRow] /\ sends' \in [Ticket -> SendRow]
  /\ \A r \in Receipt :
       /\ receipts'[r].status = receipts[r].status /\ receipts'[r].by = receipts[r].by
       /\ receipts'[r].attempts = receipts[r].attempts /\ receipts'[r].error = receipts[r].error
       /\ receipts'[r].result => receipts[r].result
  /\ \A t \in Ticket :
       /\ sends'[t].status = sends[t].status /\ sends'[t].charged = sends[t].charged
       /\ sends'[t].raw \in {sends[t].raw, Null}
  /\ UNCHANGED <<generations, bindings>>

\* Ageing keeps the tables in order.
LEMMA AgeKeeps ==
  ASSUME TableInv, Ages
  PROVE  TableInv'
<1>1. \A r \in Receipt : ReceiptOK(r)'
  <2> SUFFICES ASSUME NEW r \in Receipt PROVE ReceiptOK(r)'
    OBVIOUS
  <2>1. Last(r)' = Last(r) /\ ReceiptOK(r)
    BY DEF Last, Send, Ages, TableInv, ReceiptsInv
  <2>2. receipts[r].status # "absent" => Last(r) \in Ticket
    BY LastSend DEF TableInv
  <2> QED BY <2>1, <2>2 DEF Ages, ReceiptOK
<1>2. \A t \in Ticket : sends'[t].status # "absent" <=> t[3] <= receipts'[Of(t)].attempts
  BY SendNames DEF TableInv, ReceiptsInv, Ages
<1>3. OlderOver'
  BY ReceiptColumns DEF TableInv, ReceiptsInv, Ages, OlderOver, Over
<1>4. BindingsInv'
  BY DEF TableInv, BindingsInv, Ages
<1> QED BY <1>1, <1>2, <1>3, <1>4 DEF TableInv, ReceiptsInv, Ages

\* prune_ai_receipts, and the clock.
LEMMA HousekeepingAges ==
  ASSUME TableInv, (\E t \in Ticket : PruneRaw(t)) \/ (\E r \in Receipt : PruneResult(r)) \/ Tick
  PROVE  Ages
<1>1. receipts \in [Receipt -> ReceiptRow] /\ sends \in [Ticket -> SendRow]
  BY DEF TableInv, ReceiptsInv
<1>2. ASSUME NEW t \in Ticket, PruneRaw(t) PROVE Ages
  <2> DEFINE row == [sends[t] EXCEPT !.raw = Null]
  <2>1. row \in SendRow /\ row.status = sends[t].status /\ row.charged = sends[t].charged /\ row.raw = Null
    BY <1>1 DEF SendRow
  <2>2. sends' = [sends EXCEPT ![t] = row]
    BY <1>2 DEF PruneRaw
  <2> HIDE DEF row
  <2> QED BY <1>1, <1>2, <2>1, <2>2 DEF Ages, PruneRaw
<1>3. ASSUME NEW r \in Receipt, PruneResult(r) PROVE Ages
  <2> DEFINE row == [receipts[r] EXCEPT !.result = FALSE]
  <2>1. /\ row \in ReceiptRow /\ row.status = receipts[r].status /\ row.by = receipts[r].by
        /\ row.attempts = receipts[r].attempts /\ row.error = receipts[r].error /\ ~row.result
    BY <1>1 DEF ReceiptRow
  <2>2. receipts' = [receipts EXCEPT ![r] = row]
    BY <1>3 DEF PruneResult
  <2> HIDE DEF row
  <2> QED BY <1>1, <1>3, <2>1, <2>2 DEF Ages, PruneResult
<1>4. CASE Tick
  <2>1. ASSUME NEW r \in Receipt
        PROVE  LET row == [receipts[r] EXCEPT !.lease = IF @ > 0 THEN @ - 1 ELSE 0]
               IN  /\ row \in ReceiptRow /\ row.status = receipts[r].status /\ row.by = receipts[r].by
                   /\ row.attempts = receipts[r].attempts /\ row.error = receipts[r].error
                   /\ row.result = receipts[r].result
    <3>1. receipts[r] \in ReceiptRow /\ receipts[r].lease \in 0..LeaseTicks /\ LeaseTicks \in Nat
      BY <1>1, ReceiptColumns, ReceiptAssumption DEF ReceiptAssumption
    <3>2. (IF receipts[r].lease > 0 THEN receipts[r].lease - 1 ELSE 0) \in 0..LeaseTicks
      BY <3>1
    <3> QED BY <3>1, <3>2 DEF ReceiptRow
  <2>2. ASSUME NEW t \in Ticket
        PROVE  LET row == [sends[t] EXCEPT !.age = Older(@)]
               IN  /\ row \in SendRow /\ row.status = sends[t].status /\ row.charged = sends[t].charged
                   /\ row.raw = sends[t].raw
    <3>1. sends[t] \in SendRow /\ sends[t].age \in 0..RetainTicks /\ RetainTicks \in Nat
      BY <1>1, SendColumns, ReceiptAssumption DEF ReceiptAssumption
    <3>2. Older(sends[t].age) \in 0..RetainTicks
      BY <3>1 DEF Older
    <3> QED BY <3>1, <3>2 DEF SendRow
  <2>3. receipts' \in [Receipt -> ReceiptRow] /\ sends' \in [Ticket -> SendRow]
    BY <1>1, <1>4, <2>1, <2>2 DEF Tick
  <2>4. \A r \in Receipt :
          /\ receipts'[r].status = receipts[r].status /\ receipts'[r].by = receipts[r].by
          /\ receipts'[r].attempts = receipts[r].attempts /\ receipts'[r].error = receipts[r].error
          /\ receipts'[r].result => receipts[r].result
    BY <1>4, <2>1 DEF Tick
  <2>5. \A t \in Ticket :
          /\ sends'[t].status = sends[t].status /\ sends'[t].charged = sends[t].charged
          /\ sends'[t].raw \in {sends[t].raw, Null}
    BY <1>4, <2>2 DEF Tick
  <2> QED BY <1>4, <2>3, <2>4, <2>5 DEF Ages, Tick
<1> QED BY <1>2, <1>3, <1>4

-----------------------------------------------------------------------------
(* Reservations.                                                             *)

\* A reservation: automatic work, or a retry of its own request.
Asked(l, key) == l \in Logical /\ key \in RetryKey \cup {Null} /\ (key # Null => RetryFor[key] = l)

\* A receipt that exists may be bound to a retry that has none.
LEMMA BindKeeps ==
  ASSUME ReceiptsInv, BindingsInv, NEW l, NEW key, Asked(l, key), NEW n \in 1..generations[l],
         Bind(key, n), generations' = generations,
         \A r \in Receipt : receipts'[r].by = receipts[r].by
  PROVE  BindingsInv'
<1>1. n \in 1..MaxGen /\ RetryFor \in [RetryKey -> Logical] /\ Null \notin RetryKey
  BY ReceiptAssumption DEF Asked, ReceiptsInv, ReceiptAssumption
<1>2. CASE key # Null /\ bindings[key] = 0
  <2>1. bindings' = [bindings EXCEPT ![key] = n] /\ key \in RetryKey
    BY <1>2 DEF Bind, Asked
  <2>2. \A r \in Receipt : receipts[r].by # key
    BY <1>2, <2>1, ReceiptNames DEF BindingsInv
  <2> QED BY <1>1, <2>1, <2>2 DEF BindingsInv, Asked
<1>3. CASE ~(key # Null /\ bindings[key] = 0)
  BY <1>3 DEF Bind, BindingsInv
<1> QED BY <1>2, <1>3

\* The receipt of a reservation exists, or is the next one of its request; then
\* the newest may be bought again, and the retry that asked has no receipt yet.
LEMMA TargetFacts ==
  ASSUME ReceiptsInv, BindingsInv, NEW l, NEW key, Asked(l, key)
  PROVE  /\ Target(l, key) \in 1..(generations[l] + 1)
         /\ Target(l, key) > generations[l] =>
              /\ generations[l] # 0 => Renewable(<<l, generations[l]>>)
              /\ key # Null => bindings[key] = 0
<1>1. generations[l] \in 0..MaxGen /\ l \in Logical
  BY DEF Asked, ReceiptsInv
<1>2. CASE key = Null \/ generations[l] = 0
  BY <1>1, <1>2 DEF Target, Automatic, BindingsInv, Asked
<1>3. CASE ~(key = Null \/ generations[l] = 0) /\ Remembered(l, key) # {}
  <2> DEFINE n == CHOOSE m \in Remembered(l, key) : TRUE
  <2>1. n \in Remembered(l, key)
    BY <1>3
  <2>2. n \in 1..generations[l]
    BY <2>1 DEF Remembered
  <2>3. Target(l, key) = IF n = 1 THEN Automatic(l) ELSE n
    BY <1>3 DEF Target
  <2> HIDE DEF n
  <2> QED BY <1>1, <1>3, <2>2, <2>3 DEF Automatic
<1>4. CASE ~(key = Null \/ generations[l] = 0) /\ Remembered(l, key) = {}
  <2>1. Target(l, key) = IF Renewable(<<l, generations[l]>>) THEN generations[l] + 1 ELSE generations[l]
    BY <1>4 DEF Target
  <2>2. bindings[key] \in 0..MaxGen /\ bindings[key] <= generations[l]
    BY <1>4 DEF BindingsInv, Asked
  <2>3. bindings[key] \notin 1..generations[l]
    BY <1>4 DEF Remembered
  <2> QED BY <1>1, <1>4, <2>1, <2>2, <2>3
<1> QED BY <1>2, <1>3, <1>4

\* The expiry of a lease restates its receipt as unknown.
Unknown(x) == [x EXCEPT !.status = "unknown"]
\* What expiry does before a reservation answers.
LEMMA ExpiryRestates ==
  ASSUME ReceiptsInv, NEW r \in Receipt
  PROVE  /\ Lapsed(r) => /\ Expired(r) = Unknown(receipts[r])
                         /\ ExpiredSends(r) = [sends EXCEPT ![Last(r)] = Unknown(sends[Last(r)])]
                         /\ Expired(r) \in ReceiptRow /\ Unknown(sends[Last(r)]) \in SendRow
         /\ ~Lapsed(r) => Expired(r) = receipts[r] /\ ExpiredSends(r) = sends
<1>1. sends \in [Ticket -> SendRow] /\ receipts \in [Receipt -> ReceiptRow]
  BY DEF ReceiptsInv
<1>2. CASE Lapsed(r)
  <2>1. Last(r) \in Ticket /\ sends[Last(r)].status = "pending" /\ Last(r) = <<r[1], r[2], receipts[r].attempts>>
    BY <1>2, LastSend DEF Lapsed, Last, Send
  <2>2. Unknown(sends[Last(r)]) \in SendRow /\ Unknown(receipts[r]) \in ReceiptRow
    BY <1>1, <2>1 DEF Unknown, SendRow, ReceiptRow, Status
  <2>3. ExpiredSends(r) = [sends EXCEPT ![Last(r)] = Unknown(sends[Last(r)])]
    BY <1>1, <1>2, <2>1 DEF ExpiredSends, Unknown
  <2> QED BY <1>2, <2>2, <2>3 DEF Expired, Unknown
<1>3. CASE ~Lapsed(r)
  BY <1>1, <1>3 DEF Expired, ExpiredSends
<1> QED BY <1>2, <1>3

\* What a step that is no call's own does to a send: its lease may end, its answer may
\* be dropped, or it is reserved.
SendSoft(x, y) ==
  /\ \/ y.status = x.status
     \/ x.status = "pending" /\ y.status = "unknown"
     \/ x.status = "absent" /\ y.status = "pending" /\ y.raw = Null
  /\ y.raw \in {x.raw, Null}
Soft == (\A t \in Ticket : SendSoft(sends[t], sends'[t])) /\ SendsOK'

\* LateCallsFenced, of one step.
Fenced ==
  /\ \A t \in Ticket :
       Superseded(t) => sends'[t].status = sends[t].status /\ sends'[t].charged = sends[t].charged
  /\ \A r \in Receipt :
       Settled(r) /\ receipts[r].status # "received" => receipts'[r].status = receipts[r].status

\* Nothing changes.
LEMMA Nothing ==
  ASSUME TableInv, SendsOK, UNCHANGED tableVars
  PROVE  TableInv' /\ Soft /\ Fenced
<1>1. Ages
  BY DEF Ages, tableVars, TableInv, ReceiptsInv
<1>2. SendsOK'
  BY DEF tableVars, SendsOK, SendOK, Current, Superseded
<1> QED BY <1>1, <1>2, AgeKeeps DEF Soft, SendSoft, Fenced, tableVars

\* Ageing, for the calls.
LEMMA AgeSoft ==
  ASSUME TableInv, SendsOK, Ages
  PROVE  TableInv' /\ Soft /\ Fenced
<1>1. SendsOK'
  <2> SUFFICES ASSUME NEW t \in Ticket PROVE SendOK(t)'
    BY DEF SendsOK
  <2>1. /\ receipts'[Of(t)].attempts = receipts[Of(t)].attempts /\ receipts'[Of(t)].status = receipts[Of(t)].status
        /\ receipts'[Of(t)].error = receipts[Of(t)].error
    BY SendNames DEF Ages
  <2>2. sends'[t].status = sends[t].status /\ sends'[t].raw \in {sends[t].raw, Null} /\ SendOK(t)
    BY DEF Ages, SendsOK
  <2> QED BY <2>1, <2>2 DEF SendOK, Current, Superseded, Of
<1> QED BY <1>1, AgeKeeps DEF Ages, Soft, SendSoft, Fenced

\* What is last or superseded depends on the receipt alone.
LEMMA LastOrSuperseded ==
  ASSUME ReceiptsInv, NEW t \in Ticket
  PROVE  /\ Current(t) <=> t = Last(Of(t))
         /\ Superseded(t) <=> t[3] < receipts[Of(t)].attempts
         /\ Superseded(t) => ~Current(t)
<1>1. t = Send(Of(t), t[3]) /\ Of(t) \in Receipt /\ t[3] \in 1..MaxSends
  BY SendNames
<1>2. t = Last(Of(t)) => t[3] = receipts[Of(t)].attempts
  BY DEF Last, Send
<1>3. receipts[Of(t)].attempts \in 0..MaxSends
  BY <1>1, ReceiptColumns DEF ReceiptsInv
<1> QED BY <1>1, <1>2, <1>3 DEF Current, Superseded, Last, Of, MaxSends

\* The expiry of a lease, for the tables and the calls.
LEMMA ExpiryKeeps ==
  ASSUME ReceiptsInv, NEW r \in Receipt, generations' = generations,
         receipts' = [receipts EXCEPT ![r] = Expired(r)], sends' = ExpiredSends(r)
  PROVE  /\ ReceiptsInv' /\ (\A q \in Receipt : receipts'[q].by = receipts[q].by)
         /\ Fenced /\ (SendsOK => Soft)
<1> DEFINE u == Last(r)
<1>1. CASE Lapsed(r)
  <2>1. /\ Restates(r, Unknown(receipts[r]), Unknown(sends[u]))
        /\ Unknown(sends[u]).raw = sends[u].raw
        /\ Unknown(sends[u]).status = "unknown" /\ Unknown(receipts[r]).status = "unknown"
        /\ Unknown(receipts[r]).attempts = receipts[r].attempts
        /\ receipts[r].status = "pending" /\ u \in Ticket /\ sends[u].status = "pending" /\ Of(u) = r
    <3>1. /\ receipts[r].status = "pending" /\ u \in Ticket /\ sends[u].status = "pending" /\ Of(u) = r
          /\ sends[u] \in SendRow /\ receipts[r] \in ReceiptRow
      BY <1>1, LastSend DEF Lapsed
    <3>2. /\ Unknown(sends[u]).status = "unknown" /\ Unknown(sends[u]).raw = sends[u].raw
          /\ Unknown(receipts[r]).status = "unknown" /\ Unknown(receipts[r]).by = receipts[r].by
          /\ Unknown(receipts[r]).attempts = receipts[r].attempts
      BY <3>1 DEF Unknown, SendRow, ReceiptRow
    <3> QED BY <1>1, <3>1, <3>2, ExpiryRestates DEF Restates
  <2>2. /\ ReceiptsInv' /\ (\A q \in Receipt : receipts'[q].by = receipts[q].by)
        /\ \A q \in Receipt \ {r} : receipts'[q] = receipts[q]
        /\ \A t \in Ticket \ {u} : sends'[t] = sends[t]
        /\ receipts'[r] = Unknown(receipts[r]) /\ sends'[u] = Unknown(sends[u])
    BY <2>1, RestateKeeps DEF Over
  <2>3. \A t \in Ticket : SendSoft(sends[t], sends'[t])
    BY <2>1, <2>2 DEF SendSoft
  <2>4. SendsOK => SendsOK'
    <3> SUFFICES ASSUME SendsOK, NEW t \in Ticket PROVE SendOK(t)'
      BY DEF SendsOK
    <3>1. /\ receipts'[Of(t)].attempts = receipts[Of(t)].attempts
          /\ receipts'[Of(t)] = receipts[Of(t)] \/ receipts'[Of(t)].status = "unknown"
      BY <2>1, <2>2, SendNames
    <3>2. SendOK(t)
      BY DEF SendsOK
    <3>3. CASE t = u
      <4>1. sends'[t].status = "unknown" /\ sends'[t].raw = Null
        BY <2>1, <2>2, <3>2, <3>3 DEF SendOK
      <4> QED BY <4>1 DEF SendOK
    <3>4. CASE t # u
      <4>1. sends'[t] = sends[t]
        BY <2>2, <3>4
      <4> QED BY <3>1, <3>2, <4>1 DEF SendOK, Current, Superseded, Of
    <3> QED BY <3>3, <3>4
  <2>5. Fenced
    <3>1. ASSUME NEW t \in Ticket, Superseded(t) PROVE t # u
      BY <2>1, <3>1, LastOrSuperseded
    <3> QED BY <2>1, <2>2, <3>1 DEF Fenced, Settled
  <2> QED BY <2>2, <2>3, <2>4, <2>5 DEF Soft
<1>2. CASE ~Lapsed(r)
  <2>1. receipts' = receipts /\ sends' = sends
    BY <1>2, ExpiryRestates DEF ReceiptsInv
  <2>2. ReceiptsInv'
    BY <2>1 DEF ReceiptsInv, ReceiptOK, Last, OlderOver, Over
  <2>3. Fenced /\ (SendsOK => Soft)
    BY <2>1 DEF Soft, SendSoft, Fenced, SendsOK, SendOK, Current, Superseded
  <2> QED BY <2>1, <2>2, <2>3
<1> QED BY <1>1, <1>2

\* A reservation that is answered without a send.
LEMMA RefusalKeeps ==
  ASSUME TableInv, NEW l, NEW key, Asked(l, key),
         ReserveCached(l, key) \/ ReserveBusy(l, key) \/ ReservePaused(l, key) \/ ReserveOverBudget(l, key)
  PROVE  TableInv' /\ Fenced /\ (SendsOK => Soft)
<1> DEFINE n == Target(l, key)
           r == <<l, n>>
<1>0. /\ n \in 1..(generations[l] + 1) /\ l \in Logical /\ generations[l] \in 0..MaxGen
      /\ ReceiptsInv /\ BindingsInv
  BY TargetFacts DEF Asked, TableInv, ReceiptsInv
<1>1. n <= MaxGen => r \in Receipt /\ r[1] = l /\ r[2] = n
  BY <1>0, ReceiptNames
<1>2. n <= MaxGen /\ receipts[r].status # "absent" => n \in 1..generations[l]
  BY <1>0, <1>1 DEF ReceiptsInv, ReceiptOK
<1> HIDE DEF n
<1>3. CASE ReserveCached(l, key) \/ ReserveBusy(l, key)
  <2>1. /\ n <= MaxGen /\ receipts[r].status # "absent" /\ Bind(key, n)
        /\ UNCHANGED <<generations, receipts, sends>>
    BY <1>3 DEF ReserveCached, ReserveBusy, Settled, InProgress, n
  <2>2. BindingsInv'
    BY <1>0, <1>2, <2>1, BindKeeps
  <2>3. ReceiptsInv'
    BY <1>0, <2>1 DEF ReceiptsInv, ReceiptOK, Last, OlderOver, Over
  <2>4. Fenced /\ (SendsOK => Soft)
    BY <2>1 DEF Soft, SendSoft, Fenced, SendsOK, SendOK, Current, Superseded
  <2> QED BY <2>2, <2>3, <2>4 DEF TableInv
<1>4. CASE ReservePaused(l, key)
  <2>1. /\ n <= MaxGen /\ receipts[r].status # "absent" /\ Bind(key, n) /\ generations' = generations
        /\ receipts' = [receipts EXCEPT ![r] = Expired(r)] /\ sends' = ExpiredSends(r)
    BY <1>4 DEF ReservePaused, Exhausted, Uncertain, Lapsed, n
  <2>2. ReceiptsInv' /\ (\A q \in Receipt : receipts'[q].by = receipts[q].by) /\ Fenced /\ (SendsOK => Soft)
    BY <1>0, <1>1, <2>1, ExpiryKeeps
  <2>3. BindingsInv'
    BY <1>0, <1>2, <2>1, <2>2, BindKeeps
  <2> QED BY <2>2, <2>3 DEF TableInv
<1>5. CASE ReserveOverBudget(l, key)
  <2>1. /\ n <= MaxGen /\ UNCHANGED <<generations, bindings>>
        /\ receipts' = [receipts EXCEPT ![r] = Expired(r)] /\ sends' = ExpiredSends(r)
    BY <1>5 DEF ReserveOverBudget, n
  <2>2. ReceiptsInv' /\ (\A q \in Receipt : receipts'[q].by = receipts[q].by) /\ Fenced /\ (SendsOK => Soft)
    BY <1>0, <1>1, <2>1, ExpiryKeeps
  <2>3. BindingsInv'
    BY <1>0, <2>1, <2>2 DEF BindingsInv
  <2> QED BY <2>2, <2>3 DEF TableInv
<1> QED BY <1>3, <1>4, <1>5

\* A receipt that may be sent for is the newest, or a new one, and has a send left.
LEMMA MaySendFacts ==
  ASSUME ReceiptsInv, NEW r \in Receipt, MaySend(r)
  PROVE  /\ receipts[r].attempts \in 0..1 /\ ~Settled(r) /\ ~Over(r)
         /\ receipts[r].status # "absent" => r[2] = generations[r[1]]
         /\ receipts[r].status \in {"absent", "failed", "unknown"} \/ Lapsed(r)
         /\ receipts[r].status = "failed" => receipts[r].error = "retryable"
<1>1. receipts[r] \in ReceiptRow /\ ReceiptOK(r) /\ r[1] \in Logical /\ r[2] \in 1..MaxGen
      /\ generations[r[1]] \in 0..MaxGen
  BY ReceiptNames DEF ReceiptsInv
<1>2. receipts[r].attempts \in 0..2
  BY <1>1, ReceiptColumns DEF MaxSends
<1>3. receipts[r].attempts \in 0..1
  BY <1>1, <1>2 DEF MaySend, ReceiptOK, Retryable, Uncertain, Exhausted, MaxSends
<1>4. ~Settled(r)
  BY DEF MaySend, Settled, Retryable, Uncertain, Lapsed
<1>5. ~Over(r)
  BY <1>3 DEF MaySend, Over, Retryable, Uncertain, Lapsed, MaxSends
<1>6. receipts[r].status # "absent" => r[2] = generations[r[1]]
  <2>1. receipts[r].status # "absent" => ~(r[2] > generations[r[1]])
    BY <1>1 DEF ReceiptOK
  <2>2. ~(r[2] < generations[r[1]])
    BY <1>5 DEF ReceiptsInv, OlderOver
  <2> QED BY <1>1, <2>1, <2>2
<1> QED BY <1>3, <1>4, <1>5, <1>6 DEF MaySend, Retryable, Uncertain, Lapsed

\* A reservation that grants a send: reserve_ai_request and reserve_ai_retry reserve the
\* next send of a receipt, which nobody holds.
Grants(l, n, key, r, v, row, new) ==
  /\ row = [status |-> "pending", attempts |-> v[3], lease |-> LeaseTicks,
            by |-> IF n > generations[l] THEN key ELSE receipts[r].by,
            error |-> Null, result |-> receipts[r].result]
  /\ new = [status |-> "pending", charged |-> Cost[l], age |-> 0, raw |-> Null]
  /\ r = <<l, n>> /\ r \in Receipt /\ r[1] = l /\ r[2] = n /\ MaySend(r)
  /\ v = Send(r, receipts[r].attempts + 1) /\ v[3] = receipts[r].attempts + 1
  /\ v \in Ticket /\ Of(v) = r /\ receipts[r].attempts \in 0..1
  /\ n \in 1..MaxGen /\ generations[l] \in 0..MaxGen /\ l \in Logical
  /\ n = generations[l] \/ n = generations[l] + 1
  /\ generations' = [generations EXCEPT ![l] = n]
  /\ receipts' = [receipts EXCEPT ![r] = row]
  /\ sends' = [ExpiredSends(r) EXCEPT ![v] = new]
  /\ row \in ReceiptRow /\ new \in SendRow

\* A granted reservation has this form.
LEMMA GrantForm ==
  ASSUME TableInv, NEW l, NEW key, Asked(l, key), ReserveSend(l, key)
  PROVE  \E r, v, row, new :
           Grants(l, Target(l, key), key, r, v, row, new) /\ v = NewTicket(l, key) /\ Bind(key, Target(l, key))
<1> DEFINE n == Target(l, key)
           r == <<l, n>>
           k == receipts[r].attempts + 1
           row == [status |-> "pending", attempts |-> k, lease |-> LeaseTicks,
                   by |-> IF n > generations[l] THEN key ELSE receipts[r].by,
                   error |-> Null, result |-> receipts[r].result]
           new == [status |-> "pending", charged |-> Cost[l], age |-> 0, raw |-> Null]
<1>1. /\ n \in 1..(generations[l] + 1) /\ l \in Logical /\ generations[l] \in 0..MaxGen /\ MaxGen \in Nat
      /\ key \in RetryKey \cup {Null} /\ ReceiptsInv
  BY TargetFacts, ReceiptAssumption DEF Asked, TableInv, ReceiptsInv, ReceiptAssumption
<1>2. /\ n <= MaxGen /\ MaySend(r) /\ Bind(key, n)
      /\ generations' = [generations EXCEPT ![l] = IF n > @ THEN n ELSE @]
      /\ receipts' = [receipts EXCEPT ![r] = row]
      /\ sends' = [ExpiredSends(r) EXCEPT ![<<l, n, k>>] = new]
      /\ NewTicket(l, key) = <<l, n, k>>
  BY DEF ReserveSend, NewTicket
<1> HIDE DEF n
<1>3. n \in 1..MaxGen /\ r \in Receipt /\ r[1] = l /\ r[2] = n
  BY <1>1, <1>2, ReceiptNames
<1>4. receipts[r] \in ReceiptRow /\ receipts[r].attempts \in 0..1
  BY <1>1, <1>2, <1>3, MaySendFacts DEF ReceiptsInv
<1>5. n = generations[l] \/ n = generations[l] + 1
  <2>1. receipts[r].status = "absent" => n > generations[l]
    BY <1>1, <1>3 DEF ReceiptsInv, ReceiptOK
  <2>2. receipts[r].status # "absent" => n = generations[l]
    BY <1>1, <1>2, <1>3, MaySendFacts
  <2> QED BY <1>1, <2>1, <2>2
<1>6. k \in 1..MaxSends /\ <<l, n, k>> = Send(r, k)
  BY <1>3, <1>4 DEF MaxSends, Send
<1>7. Send(r, k) \in Ticket /\ Of(Send(r, k)) = r /\ Send(r, k)[3] = k
  BY <1>3, <1>6, SendNames
<1>8. generations' = [generations EXCEPT ![l] = n]
  <2>1. (IF n > generations[l] THEN n ELSE generations[l]) = n
    BY <1>1, <1>5
  <2> QED BY <1>2, <2>1
<1>9. row \in ReceiptRow
  <2>1. LeaseTicks \in 0..LeaseTicks /\ k \in 0..MaxSends
    BY <1>6, ReceiptAssumption DEF ReceiptAssumption, MaxSends
  <2>2. "pending" \in Status /\ receipts[r].by \in RetryKey \cup {Null} /\ receipts[r].result \in BOOLEAN
    BY <1>4, ReceiptColumns DEF Status
  <2> HIDE DEF k
  <2> QED BY <1>1, <2>1, <2>2 DEF ReceiptRow
<1>10. new \in SendRow
  <2>1. Cost[l] \in Nat /\ 0 \in 0..RetainTicks /\ "pending" \in Status
    BY <1>1, ReceiptAssumption DEF ReceiptAssumption, Status
  <2> QED BY <2>1 DEF SendRow
<1>11. row = [status |-> "pending", attempts |-> Send(r, k)[3], lease |-> LeaseTicks,
              by |-> IF n > generations[l] THEN key ELSE receipts[r].by,
              error |-> Null, result |-> receipts[r].result]
  BY <1>7
<1>12. Grants(l, n, key, r, Send(r, k), row, new)
  <2>1. receipts[r].attempts \in 0..1
    BY <1>1, <1>2, <1>3, MaySendFacts
  <2> HIDE DEF row, new
  <2> QED BY <1>1, <1>2, <1>3, <1>5, <1>6, <1>7, <1>8, <1>9, <1>10, <1>11, <2>1 DEF Grants, new
<1> QED BY <1>2, <1>6, <1>12 DEF n

\* A granted reservation keeps the tables in order, and is fenced as the others are.
LEMMA GrantKeeps ==
  ASSUME TableInv, NEW l, NEW key, Asked(l, key), NEW r, NEW v, NEW row, NEW new,
         Grants(l, Target(l, key), key, r, v, row, new), Bind(key, Target(l, key))
  PROVE  /\ TableInv' /\ Fenced /\ (SendsOK => Soft)
         /\ v \in Ticket /\ sends[v].status = "absent" /\ sends'[v].status = "pending" /\ sends'[v].raw = Null
<1> DEFINE n == Target(l, key)
           a == receipts[r].attempts
           u == Last(r)
           E == ExpiredSends(r)
<1>1. /\ r = <<l, n>> /\ r \in Receipt /\ r[1] = l /\ r[2] = n /\ MaySend(r)
      /\ v = Send(r, a + 1) /\ v[3] = a + 1 /\ v \in Ticket /\ Of(v) = r /\ a \in 0..1
      /\ n \in 1..MaxGen /\ generations[l] \in 0..MaxGen /\ l \in Logical
      /\ n = generations[l] \/ n = generations[l] + 1
      /\ generations' = [generations EXCEPT ![l] = n]
      /\ receipts' = [receipts EXCEPT ![r] = row] /\ sends' = [E EXCEPT ![v] = new]
      /\ row \in ReceiptRow /\ new \in SendRow
  BY DEF Grants
<1>2. /\ row.status = "pending" /\ row.attempts = a + 1 /\ row.by = IF n > generations[l] THEN key ELSE receipts[r].by
      /\ new.status = "pending" /\ new.raw = Null
  BY <1>1 DEF Grants
<1>3. /\ generations \in [Logical -> 0..MaxGen] /\ receipts \in [Receipt -> ReceiptRow]
      /\ sends \in [Ticket -> SendRow] /\ ReceiptsInv /\ BindingsInv
      /\ \A t \in Ticket : sends[t].status # "absent" <=> t[3] <= receipts[Of(t)].attempts
      /\ \A q \in Receipt : ReceiptOK(q)
  BY DEF TableInv, ReceiptsInv
<1>4. /\ n > generations[l] => /\ generations[l] # 0 => Renewable(<<l, generations[l]>>)
                               /\ key # Null => bindings[key] = 0
  BY <1>3, TargetFacts
<1> HIDE DEF n
<1>5. /\ E \in [Ticket -> SendRow]
      /\ \A t \in Ticket : \/ E[t] = sends[t]
                           \/ /\ t = u /\ Lapsed(r) /\ sends[t].status = "pending"
                              /\ E[t].status = "unknown" /\ E[t].raw = sends[t].raw
  <2>1. CASE Lapsed(r)
    <3>1. /\ E = [sends EXCEPT ![u] = Unknown(sends[u])] /\ u \in Ticket /\ Unknown(sends[u]) \in SendRow
          /\ sends[u].status = "pending" /\ sends[u] \in SendRow
      BY <1>1, <1>3, <2>1, LastSend, ExpiryRestates DEF Lapsed
    <3>2. Unknown(sends[u]).status = "unknown" /\ Unknown(sends[u]).raw = sends[u].raw
      BY <3>1 DEF Unknown, SendRow
    <3> HIDE DEF E, u
    <3> QED BY <1>3, <2>1, <3>1, <3>2
  <2>2. CASE ~Lapsed(r)
    BY <1>1, <1>3, <2>2, ExpiryRestates
  <2> QED BY <2>1, <2>2
<1> HIDE DEF E
<1>6. sends[v].status = "absent" /\ E[v] = sends[v]
  BY <1>1, <1>3, <1>5 DEF MaxSends
<1>7. /\ sends' \in [Ticket -> SendRow] /\ sends'[v] = new
      /\ \A t \in Ticket \ {v} : sends'[t] = E[t]
      /\ receipts' \in [Receipt -> ReceiptRow] /\ receipts'[r] = row
      /\ \A q \in Receipt \ {r} : receipts'[q] = receipts[q]
      /\ generations' \in [Logical -> 0..MaxGen] /\ generations'[l] = n
      /\ \A m \in Logical \ {l} : generations'[m] = generations[m]
  <2>1. n \in 0..MaxGen
    BY <1>1
  <2> QED BY <1>1, <1>3, <1>5, <2>1
<1>8. \A t \in Ticket : sends'[t].status # "absent" <=> t[3] <= receipts'[Of(t)].attempts
  <2> SUFFICES ASSUME NEW t \in Ticket
               PROVE  sends'[t].status # "absent" <=> t[3] <= receipts'[Of(t)].attempts
    OBVIOUS
  <2>1. Of(t) \in Receipt /\ t[3] \in 1..MaxSends /\ t = Send(Of(t), t[3])
    BY SendNames
  <2>2. CASE t = v
    BY <1>1, <1>2, <1>7, <2>2
  <2>3. CASE t # v
    <3>1. sends'[t].status # "absent" <=> t[3] <= receipts[Of(t)].attempts
      BY <1>3, <1>5, <1>7, <2>3
    <3>2. CASE Of(t) = r
      <4>1. t[3] # a + 1
        BY <1>1, <2>1, <2>3, <3>2
      <4> QED BY <1>1, <1>2, <1>7, <2>1, <3>1, <3>2, <4>1 DEF MaxSends
    <3>3. CASE Of(t) # r
      BY <1>7, <2>1, <3>1, <3>3
    <3> QED BY <3>2, <3>3
  <2> QED BY <2>2, <2>3
<1>9. \A q \in Receipt : ReceiptOK(q)'
  <2> SUFFICES ASSUME NEW q \in Receipt PROVE ReceiptOK(q)'
    OBVIOUS
  <2>1. q[1] \in Logical /\ q[2] \in 1..MaxGen /\ q = <<q[1], q[2]>>
    BY ReceiptNames
  <2>2. CASE q = r
    <3>1. Last(q)' = v
      BY <1>1, <1>2, <1>7, <2>2 DEF Last, Send
    <3> QED BY <1>1, <1>2, <1>7, <2>2, <3>1 DEF ReceiptOK
  <2>3. CASE q # r
    <3>1. Last(q)' = Last(q) /\ receipts'[q] = receipts[q] /\ ReceiptOK(q)
      BY <1>3, <1>7, <2>3 DEF Last, Send
    <3>2. q[2] > generations'[q[1]] <=> q[2] > generations[q[1]]
      <4>1. CASE q[1] = l
        <5>1. q[2] # n
          BY <1>1, <2>1, <2>3, <4>1
        <5> QED BY <1>1, <1>7, <2>1, <4>1, <5>1
      <4>2. CASE q[1] # l
        BY <1>7, <2>1, <4>2
      <4> QED BY <4>1, <4>2
    <3>3. receipts[q].status # "absent" => sends'[Last(q)] = sends[Last(q)]
      <4> SUFFICES ASSUME receipts[q].status # "absent" PROVE sends'[Last(q)] = sends[Last(q)]
        OBVIOUS
      <4>1. Last(q) \in Ticket /\ Of(Last(q)) = q
        BY <1>3, LastSend
      <4>2. Last(q) # v
        BY <1>1, <2>3, <4>1
      <4>3. Lapsed(r) => Of(u) = r
        BY <1>1, <1>3, LastSend DEF Lapsed
      <4> HIDE DEF u
      <4> QED BY <1>5, <1>7, <2>3, <4>1, <4>2, <4>3
    <3> QED BY <3>1, <3>2, <3>3 DEF ReceiptOK
  <2> QED BY <2>2, <2>3
<1>10. OlderOver'
  <2> SUFFICES ASSUME NEW q \in Receipt, q[2] < generations'[q[1]] PROVE Over(q)'
    BY DEF OlderOver
  <2>1. q[1] \in Logical /\ q[2] \in 1..MaxGen /\ q = <<q[1], q[2]>>
    BY ReceiptNames
  <2>2. q # r
    BY <1>1, <1>7
  <2>3. Over(q)
    <3>1. CASE q[2] < generations[q[1]]
      BY <1>3, <3>1 DEF ReceiptsInv, OlderOver
    <3>2. CASE ~(q[2] < generations[q[1]])
      <4>1. q[1] = l /\ n > generations[l] /\ q = <<l, generations[l]>> /\ generations[l] # 0
        BY <1>1, <1>7, <2>1, <3>2
      <4>2. Renewable(q) /\ ReceiptOK(q) /\ receipts[q] \in ReceiptRow
        BY <1>3, <1>4, <4>1
      <4>3. receipts[q].attempts \in 0..MaxSends
        BY <4>2, ReceiptColumns
      <4> QED BY <4>2, <4>3 DEF Renewable, Retryable, Over, ReceiptOK, Error, MaxSends
    <3> QED BY <3>1, <3>2
  <2> QED BY <1>7, <2>2, <2>3 DEF Over
<1>11. BindingsInv'
  <2>1. RetryFor \in [RetryKey -> Logical] /\ Null \notin RetryKey
    BY ReceiptAssumption DEF ReceiptAssumption
  <2>2. \A m \in Logical : generations[m] \in 0..MaxGen /\ generations[m] <= generations'[m]
    BY <1>1, <1>3, <1>7
  <2>3. CASE key # Null /\ bindings[key] = 0
    <3>1. bindings' = [bindings EXCEPT ![key] = n] /\ key \in RetryKey /\ RetryFor[key] = l
      BY <2>3 DEF Bind, Asked, n
    <3>2. bindings' \in [RetryKey -> 0..MaxGen]
      BY <1>1, <1>3, <3>1 DEF BindingsInv
    <3>3. \A k \in RetryKey : bindings'[k] <= generations'[RetryFor[k]]
      <4> SUFFICES ASSUME NEW k \in RetryKey PROVE bindings'[k] <= generations'[RetryFor[k]]
        OBVIOUS
      <4>1. bindings[k] \in 0..MaxGen /\ bindings[k] <= generations[RetryFor[k]] /\ RetryFor[k] \in Logical
        BY <1>3, <2>1 DEF BindingsInv
      <4>2. generations'[RetryFor[k]] \in 0..MaxGen
        BY <1>7, <4>1
      <4>3. CASE k = key
        BY <1>1, <1>3, <1>7, <3>1, <4>3 DEF BindingsInv
      <4>4. CASE k # key
        <5>1. bindings'[k] = bindings[k]
          BY <3>1, <4>4 DEF BindingsInv
        <5> QED BY <2>2, <4>1, <4>2, <5>1
      <4> QED BY <4>3, <4>4
    <3>4. \A q \in Receipt : receipts[q].by # key
      BY <1>3, <2>3, <3>1, ReceiptNames DEF BindingsInv
    <3>5. \A q \in Receipt : receipts'[q].by \in RetryKey =>
            q = <<RetryFor[receipts'[q].by], bindings'[receipts'[q].by]>>
      <4> SUFFICES ASSUME NEW q \in Receipt, receipts'[q].by \in RetryKey
                   PROVE  q = <<RetryFor[receipts'[q].by], bindings'[receipts'[q].by]>>
        OBVIOUS
      <4>1. CASE q = r /\ n > generations[l]
        BY <1>1, <1>2, <1>3, <1>7, <3>1, <4>1 DEF BindingsInv
      <4>2. CASE ~(q = r /\ n > generations[l])
        <5>1. receipts'[q].by = receipts[q].by
          BY <1>2, <1>7, <4>2
        <5> QED BY <1>3, <3>1, <3>4, <5>1 DEF BindingsInv
      <4> QED BY <4>1, <4>2
    <3> QED BY <3>2, <3>3, <3>5 DEF BindingsInv
  <2>4. CASE ~(key # Null /\ bindings[key] = 0)
    <3>1. bindings' = bindings
      BY <2>4 DEF Bind
    <3>2. \A q \in Receipt : receipts'[q].by \in RetryKey => receipts'[q].by = receipts[q].by
      BY <1>2, <1>4, <1>7, <2>1, <2>4
    <3>3. \A k \in RetryKey : bindings[k] <= generations'[RetryFor[k]]
      <4> SUFFICES ASSUME NEW k \in RetryKey PROVE bindings[k] <= generations'[RetryFor[k]]
        OBVIOUS
      <4>1. bindings[k] \in 0..MaxGen /\ bindings[k] <= generations[RetryFor[k]] /\ RetryFor[k] \in Logical
        BY <1>3, <2>1 DEF BindingsInv
      <4>2. generations'[RetryFor[k]] \in 0..MaxGen
        BY <1>7, <4>1
      <4> QED BY <2>2, <4>1, <4>2
    <3> QED BY <1>3, <3>1, <3>2, <3>3 DEF BindingsInv
  <2> QED BY <2>3, <2>4
<1>12. \A t \in Ticket : SendSoft(sends[t], sends'[t])
  BY <1>2, <1>5, <1>6, <1>7 DEF SendSoft
<1>13. SendsOK => SendsOK'
  <2> SUFFICES ASSUME SendsOK, NEW t \in Ticket PROVE SendOK(t)'
    BY DEF SendsOK
  <2>1. Of(t) \in Receipt /\ t[3] \in 1..MaxSends /\ t = Send(Of(t), t[3]) /\ SendOK(t)
    BY SendNames DEF SendsOK
  <2>2. CASE t = v
    <3>1. ~Superseded(t)' /\ receipts'[Of(t)].status = "pending"
      BY <1>1, <1>2, <1>7, <2>2 DEF Superseded, Of
    <3> QED BY <1>2, <1>7, <2>2, <3>1 DEF SendOK
  <2>3. CASE t # v /\ Of(t) # r
    <3>1. /\ receipts'[Of(t)] = receipts[Of(t)]
      BY <1>7, <2>1, <2>3
    <3>2. sends'[t] = sends[t]
      <4>1. Lapsed(r) => Of(u) = r
        BY <1>1, <1>3, LastSend DEF Lapsed
      <4> HIDE DEF u
      <4> QED BY <1>5, <1>7, <2>3, <4>1
    <3> QED BY <2>1, <3>1, <3>2 DEF SendOK, Current, Superseded, Of
  <2>4. CASE t # v /\ Of(t) = r
    <3>1. receipts'[Of(t)].status = "pending" /\ receipts'[Of(t)].attempts = a + 1
      BY <1>2, <1>7, <2>4
    <3>2. t[3] # a + 1 /\ ~Current(t)'
      BY <1>1, <2>1, <2>4, <3>1 DEF Current, Of
    <3>3. sends'[t].raw = sends[t].raw /\ (sends'[t].status \in {"pending", "unknown"} => sends[t].status \in {"pending", "unknown"})
      BY <1>5, <1>7, <2>4
    <3>4. Superseded(t)' => sends'[t].status \in {"unknown", "failed"} /\ sends'[t].raw \in {"busy", Null}
      <4> SUFFICES ASSUME Superseded(t)'
                   PROVE  sends'[t].status \in {"unknown", "failed"} /\ sends'[t].raw \in {"busy", Null}
        OBVIOUS
      <4>1. t[3] <= a /\ a = 1 /\ t = u
        BY <1>1, <2>1, <2>4, <3>1, <3>2 DEF Superseded, Of, Last, MaxSends
      <4>2. receipts[r].status # "absent" /\ sends[t].status = receipts[r].status /\ Current(t)
        BY <1>1, <1>3, <2>4, <4>1, LastSend, LastOrSuperseded DEF ReceiptOK
      <4>3. receipts[r].status \in {"failed", "unknown"} \/ (Lapsed(r) /\ receipts[r].status = "pending")
        BY <1>1, <1>3, <4>2, MaySendFacts DEF Lapsed
      <4>4. receipts[r].status = "failed" => receipts[r].error = "retryable"
        BY <1>1, <1>3, MaySendFacts
      <4>5. Lapsed(r) => E[t].status = "unknown"
        <5>1. Lapsed(r) => E = [sends EXCEPT ![u] = Unknown(sends[u])] /\ Unknown(sends[u]).status = "unknown"
          <6>1. Unknown(sends[u]).status = "unknown"
            BY <1>3, <4>1 DEF Unknown, SendRow
          <6> QED BY <1>1, <1>3, <6>1, ExpiryRestates DEF E
        <5> QED BY <1>3, <4>1, <5>1
      <4>6. sends'[t] = E[t]
        BY <1>7, <2>4
      <4>7. CASE Lapsed(r)
        BY <2>1, <2>4, <3>3, <4>2, <4>5, <4>6, <4>7 DEF SendOK, Lapsed
      <4>8. CASE ~Lapsed(r)
        <5>1. sends'[t] = sends[t]
          BY <1>5, <4>6, <4>8
        <5> QED BY <2>1, <2>4, <4>2, <4>3, <4>4, <4>8, <5>1 DEF SendOK
      <4> QED BY <4>7, <4>8
    <3> QED BY <2>1, <3>2, <3>3, <3>4 DEF SendOK
  <2> QED BY <2>2, <2>3, <2>4
<1>14. Fenced
  <2>1. ASSUME NEW t \in Ticket, Superseded(t) PROVE sends'[t] = sends[t]
    <3>1. t # v /\ t # u
      <4>1. ~Current(t) /\ sends[t].status # "absent"
        BY <1>3, <2>1, SendNames, LastOrSuperseded, ReceiptColumns DEF MaxSends
      <4>2. Of(u) = r
        BY <1>1 DEF Last, Send, Of
      <4>3. t # u
        BY <2>1, <4>1, <4>2, LastOrSuperseded, <1>3
      <4> QED BY <1>6, <4>1, <4>3
    <3> QED BY <1>5, <1>7, <3>1
  <2>2. ~Settled(r)
    BY <1>1, <1>3, MaySendFacts
  <2> QED BY <1>7, <2>1, <2>2 DEF Fenced
<1>15. ReceiptsInv'
  BY <1>7, <1>8, <1>9, <1>10 DEF ReceiptsInv
<1> QED BY <1>1, <1>2, <1>6, <1>7, <1>11, <1>12, <1>13, <1>14, <1>15 DEF TableInv, Soft

-----------------------------------------------------------------------------
(* Outcomes.                                                                 *)

\* A receipt and its last send get an outcome, from whoever calls.
Settles(t, row, send) ==
  /\ Restates(Of(t), row, send) /\ Current(t) /\ Open(t) /\ t \in Ticket
  /\ UNCHANGED <<generations, bindings>>

\* The outcome execute_paid gives them says what the stored answer is.
Outcome(t, row, send) ==
  /\ Settles(t, row, send)
  /\ send.status \in {"pending", "unknown"} => send.raw = Null
  /\ row.status = "failed" /\ row.error = "retryable" => send.raw \in {"busy", Null}

\* An outcome of an open receipt keeps the tables in order.
LEMMA OutcomeKeeps ==
  ASSUME TableInv, NEW t, NEW row, NEW send, Settles(t, row, send)
  PROVE  /\ TableInv' /\ Fenced /\ (SendsOK /\ Outcome(t, row, send) => SendsOK')
         /\ sends'[t] = send /\ \A u \in Ticket \ {t} : sends'[u] = sends[u]
<1> DEFINE r == Of(t)
<1>1. /\ t \in Ticket /\ r \in Receipt /\ t = Last(r) /\ receipts[r].status \in {"pending", "received"}
      /\ ReceiptsInv /\ Restates(r, row, send)
  BY SendNames, LastOrSuperseded DEF Settles, Open, TableInv, Of
<1>2. /\ ReceiptsInv' /\ \A q \in Receipt : receipts'[q].by = receipts[q].by
      /\ \A q \in Receipt \ {r} : receipts'[q] = receipts[q]
      /\ \A u \in Ticket \ {t} : sends'[u] = sends[u]
      /\ receipts'[r] = row /\ sends'[t] = send
  BY <1>1, RestateKeeps DEF Settles, Over
<1>3. BindingsInv'
  BY <1>2 DEF TableInv, BindingsInv, Settles
<1>4. SendsOK /\ Outcome(t, row, send) => SendsOK'
  <2> SUFFICES ASSUME SendsOK, Outcome(t, row, send), NEW u \in Ticket PROVE SendOK(u)'
    BY DEF SendsOK
  <2>1. receipts'[Of(u)].attempts = receipts[Of(u)].attempts /\ SendOK(u)
    BY <1>1, <1>2, SendNames DEF Restates, SendsOK
  <2>2. CASE u = t
    <3>1. ~Superseded(u)'
      BY <1>1, <2>1, <2>2, LastOrSuperseded DEF Superseded, Of
    <3> QED BY <1>2, <2>2, <3>1 DEF SendOK, Outcome
  <2>3. CASE u # t
    <3>1. sends'[u] = sends[u] /\ (receipts'[Of(u)] = receipts[Of(u)] \/ ~Current(u))
      BY <1>1, <1>2, <2>3, SendNames, LastOrSuperseded
    <3> QED BY <2>1, <3>1 DEF SendOK, Current, Superseded, Of
  <2> QED BY <2>2, <2>3
<1>5. Fenced
  <2>1. \A u \in Ticket : Superseded(u) => sends'[u] = sends[u]
    BY <1>1, <1>2, LastOrSuperseded
  <2>2. ~(Settled(r) /\ receipts[r].status # "received")
    BY <1>1 DEF Settled
  <2> QED BY <1>2, <2>1, <2>2 DEF Fenced
<1> QED BY <1>2, <1>3, <1>4, <1>5 DEF TableInv

\* receive_ai_response: the answer of an open send.
LEMMA ReceiveForm ==
  ASSUME TableInv, NEW t \in Ticket, NEW answer \in Answer, Receive(t, answer)
  PROVE  \E row, send : Outcome(t, row, send) /\ send.status = "received" /\ send.raw = answer
<1> DEFINE r == Of(t)
           row == [receipts[r] EXCEPT !.status = "received"]
           send == [sends[t] EXCEPT !.status = "received", !.raw = answer]
<1>1. /\ r \in Receipt /\ t = Last(r) /\ receipts[r] \in ReceiptRow /\ sends[t] \in SendRow
      /\ receipts \in [Receipt -> ReceiptRow] /\ sends \in [Ticket -> SendRow]
  BY SendNames, LastOrSuperseded DEF TableInv, ReceiptsInv, Receive
<1>2. /\ row \in ReceiptRow /\ row.status = "received" /\ row.by = receipts[r].by /\ row.attempts = receipts[r].attempts
  BY <1>1 DEF ReceiptRow, Status
<1>3. send \in SendRow /\ send.status = "received" /\ send.raw = answer
  BY <1>1 DEF SendRow, Status
<1>4. receipts' = [receipts EXCEPT ![r] = row] /\ sends' = [sends EXCEPT ![t] = send]
  <2>1. receipts' = [receipts EXCEPT ![r].status = "received"]
        /\ sends' = [sends EXCEPT ![t].status = "received", ![t].raw = answer]
    BY DEF Receive, Of
  <2>2. [sends EXCEPT ![t].status = "received", ![t].raw = answer] = [sends EXCEPT ![t] = send]
    BY <1>1 DEF SendRow
  <2> QED BY <2>1, <2>2
<1>5. Current(t) /\ Open(t) /\ UNCHANGED <<generations, bindings>>
  BY DEF Receive, Open
<1> HIDE DEF row, send
<1>6. Outcome(t, row, send)
  BY <1>1, <1>2, <1>3, <1>4, <1>5 DEF Outcome, Settles, Restates
<1> QED BY <1>3, <1>6

\* finish_ai_request, whatever its caller passes: the outcome of an open send.
LEMMA FinishSettles ==
  ASSUME TableInv, NEW t \in Ticket, NEW status \in {"completed", "failed", "unknown"},
         NEW error \in Error \cup {Null}, NEW charge \in Nat, Finish(t, status, error, charge),
         status = "failed" => error \in Error
  PROVE  \E row, send : /\ Settles(t, row, send) /\ row.status = status /\ row.error = error
                        /\ send.status = status /\ send.raw = sends[t].raw
<1> DEFINE r == Of(t)
           row == [receipts[r] EXCEPT !.status = status, !.error = error, !.result = (status = "completed"), !.lease = 0]
           send == [sends[t] EXCEPT !.status = status, !.charged = charge]
<1>1. /\ r \in Receipt /\ t = Last(r) /\ receipts[r] \in ReceiptRow /\ sends[t] \in SendRow
      /\ receipts \in [Receipt -> ReceiptRow] /\ sends \in [Ticket -> SendRow] /\ status \in Status /\ 0 \in 0..LeaseTicks
  BY SendNames, LastOrSuperseded, ReceiptAssumption
     DEF TableInv, ReceiptsInv, Finish, Open, Status, ReceiptAssumption
<1>2. /\ row \in ReceiptRow /\ row.status = status /\ row.by = receipts[r].by
      /\ row.attempts = receipts[r].attempts /\ row.error = error
  BY <1>1 DEF ReceiptRow
<1>3. send \in SendRow /\ send.status = status /\ send.raw = sends[t].raw
  BY <1>1 DEF SendRow
<1>4. receipts' = [receipts EXCEPT ![r] = row] /\ sends' = [sends EXCEPT ![t] = send]
  <2>1. /\ receipts' = [receipts EXCEPT ![r].status = status, ![r].error = error,
                                        ![r].result = (status = "completed"), ![r].lease = 0]
        /\ sends' = [sends EXCEPT ![t].status = status, ![t].charged = charge]
    BY DEF Finish, Of
  <2>2. [sends EXCEPT ![t].status = status, ![t].charged = charge] = [sends EXCEPT ![t] = send]
    BY <1>1 DEF SendRow
  <2>3. [receipts EXCEPT ![r].status = status, ![r].error = error,
                         ![r].result = (status = "completed"), ![r].lease = 0] = [receipts EXCEPT ![r] = row]
    BY <1>1 DEF ReceiptRow
  <2> QED BY <2>1, <2>2, <2>3
<1>5. Current(t) /\ Open(t) /\ UNCHANGED <<generations, bindings>>
  BY DEF Finish, Open
<1> HIDE DEF row, send
<1>6. Settles(t, row, send)
  BY <1>1, <1>2, <1>3, <1>4, <1>5 DEF Settles, Restates
<1> QED BY <1>2, <1>3, <1>6

\* finish_ai_request, as execute_paid calls it.
LEMMA FinishForm ==
  ASSUME TableInv, NEW t \in Ticket, NEW status \in {"completed", "failed", "unknown"},
         NEW error \in Error \cup {Null}, NEW charge \in Nat, Finish(t, status, error, charge),
         status = "failed" => error \in Error,
         status = "unknown" => sends[t].raw = Null,
         status = "failed" /\ error = "retryable" => sends[t].raw \in {"busy", Null}
  PROVE  \E row, send : Outcome(t, row, send) /\ send.status = status /\ send.raw = sends[t].raw
BY FinishSettles DEF Outcome

-----------------------------------------------------------------------------
(* Calls.                                                                    *)

\* A step of one call: the others stay fine, and it holds no send somebody else sends.
LEMMA CallStep ==
  ASSUME CallInv, NEW c \in Caller, NEW x \in CallState, call' = [call EXCEPT ![c] = x],
         contacts' \in [Ticket -> Nat], SentOnce', SendsOK', Fine(x, sends', contacts'),
         \A d \in Caller \ {c} : Fine(call[d], sends', contacts'),
         Sends(x) => \A d \in Caller \ {c} : Sends(call[d]) => call[d].ticket # x.ticket
  PROVE  CallInv'
<1>1. call \in [Caller -> CallState] /\ OneSender
  BY DEF CallInv
<1>2. call' \in [Caller -> CallState] /\ call'[c] = x /\ \A d \in Caller \ {c} : call'[d] = call[d]
  BY <1>1
<1>3. \A d \in Caller : Fine(call'[d], sends', contacts')
  BY <1>2
<1>4. OneSender'
  <2> SUFFICES ASSUME NEW d \in Caller, NEW e \in Caller, Sends(call'[d]), Sends(call'[e]),
                      call'[d].ticket = call'[e].ticket
               PROVE  d = e
    BY DEF OneSender
  <2>1. CASE d # c /\ e # c
    BY <1>1, <1>2, <2>1 DEF OneSender
  <2>2. CASE d = c \/ e = c
    BY <1>2, <2>2
  <2> QED BY <2>1, <2>2
<1> QED BY <1>2, <1>3, <1>4 DEF CallInv

\* A step on the tables that is soft for the sends leaves every call fine.
LEMMA SoftFine ==
  ASSUME CallInv, Soft, contacts' = contacts
  PROVE  /\ \A x : Fine(x, sends, contacts) => Fine(x, sends', contacts')
         /\ SentOnce' /\ SendsOK' /\ contacts' \in [Ticket -> Nat]
<1>1. ASSUME NEW x, Fine(x, sends, contacts) PROVE Fine(x, sends', contacts')
  <2>1. x.ticket \in Ticket => SendSoft(sends[x.ticket], sends'[x.ticket])
    BY DEF Soft
  <2>2. Sends(x) => SendOpen(sends'[x.ticket])
    BY <1>1, <2>1 DEF Fine, SendSoft, SendOpen
  <2>3. Carries(x) => SendAnswered(sends'[x.ticket]) /\ sends'[x.ticket].raw \in {sends[x.ticket].raw, Null}
    BY <1>1, <2>1 DEF Fine, SendSoft, SendAnswered
  <2> QED BY <1>1, <2>2, <2>3 DEF Fine, Carries
<1>2. SentOnce'
  <2> SUFFICES ASSUME NEW t \in Ticket PROVE contacts[t] <= IF sends'[t].status = "absent" THEN 0 ELSE 1
    BY DEF SentOnce
  <2>1. contacts[t] \in Nat /\ contacts[t] <= IF sends[t].status = "absent" THEN 0 ELSE 1
    BY DEF CallInv, SentOnce
  <2>2. sends'[t].status = "absent" => sends[t].status = "absent"
    BY DEF Soft, SendSoft
  <2> QED BY <2>1, <2>2
<1> QED BY <1>1, <1>2 DEF Soft, CallInv

\* A soft step of a call that sends nothing afterwards, or what it sent before.
LEMMA SoftStep ==
  ASSUME PaidInv, NEW c \in Caller, NEW x \in CallState, call' = [call EXCEPT ![c] = x],
         contacts' = contacts, TableInv', Soft, Fine(x, sends', contacts'),
         ~Sends(x) \/ (Sends(call[c]) /\ x.ticket = call[c].ticket)
  PROVE  PaidInv'
<1>1. CallInv /\ OneSender
  BY DEF PaidInv, CallInv
<1>2. /\ \A d \in Caller : Fine(call[d], sends', contacts')
      /\ SentOnce' /\ SendsOK' /\ contacts' \in [Ticket -> Nat]
  BY <1>1, SoftFine DEF CallInv
<1>3. Sends(x) => \A d \in Caller \ {c} : Sends(call[d]) => call[d].ticket # x.ticket
  BY <1>1 DEF OneSender
<1> QED BY <1>1, <1>2, <1>3, CallStep DEF PaidInv

\* The states a call returns to, or starts again from.
Back(x)  == [x EXCEPT !.pc = "idle", !.key = Null, !.again = TRUE, !.ticket = NoTicket, !.answer = Null]
Again(x) == [x EXCEPT !.pc = "reserve", !.again = FALSE, !.ticket = NoTicket, !.answer = Null]
\* A call that holds no send is fine.
LEMMA ReturnForm ==
  ASSUME NEW c \in Caller, call \in [Caller -> CallState]
  PROVE  /\ Return(c) => call' = [call EXCEPT ![c] = Back(call[c])]
         /\ TryAgain(c) => call' = [call EXCEPT ![c] = Again(call[c])]
         /\ Back(call[c]) \in CallState /\ ~Sends(Back(call[c])) /\ \A S, C : Fine(Back(call[c]), S, C)
         /\ Again(call[c]) \in CallState /\ ~Sends(Again(call[c]))
         /\ \A S, C, T, D : Fine(call[c], S, C) => Fine(Again(call[c]), T, D)
<1> DEFINE x == Back(call[c])
           y == Again(call[c])
<1>1. call[c] \in CallState
  OBVIOUS
<1>2. x \in CallState /\ x.pc = "idle" /\ x.key = Null
  BY <1>1 DEF Back, CallState, PC
<1>3. y \in CallState /\ y.pc = "reserve" /\ y.key = call[c].key /\ y.logical = call[c].logical
  BY <1>1 DEF Again, CallState, PC
<1>4. /\ Return(c) => call' = [call EXCEPT ![c] = x]
      /\ TryAgain(c) => call' = [call EXCEPT ![c] = y]
  BY DEF Return, TryAgain, Back, Again
<1> HIDE DEF x, y
<1>5. /\ ~Sends(x) /\ \A S, C : Fine(x, S, C)
      /\ ~Sends(y) /\ \A S, C, T, D : Fine(call[c], S, C) => Fine(y, T, D)
  BY <1>2, <1>3 DEF Sends, Carries, Fine
<1> QED BY <1>2, <1>3, <1>4, <1>5 DEF x, y

\* A call returns, or tries again, after a soft step.
LEMMA SoftReturn ==
  ASSUME PaidInv, NEW c \in Caller, Return(c) \/ TryAgain(c), contacts' = contacts, TableInv', Soft
  PROVE  PaidInv'
<1>1. call \in [Caller -> CallState] /\ Fine(call[c], sends, contacts)
  BY DEF PaidInv, CallInv
<1>2. CASE Return(c)
  <2> DEFINE x == Back(call[c])
  <2>1. call' = [call EXCEPT ![c] = x] /\ x \in CallState /\ ~Sends(x) /\ Fine(x, sends', contacts')
    BY <1>1, <1>2, ReturnForm
  <2> HIDE DEF x
  <2> QED BY <2>1, SoftStep
<1>3. CASE TryAgain(c)
  <2> DEFINE x == Again(call[c])
  <2>1. call' = [call EXCEPT ![c] = x] /\ x \in CallState /\ ~Sends(x) /\ Fine(x, sends', contacts')
    BY <1>1, <1>3, ReturnForm
  <2> HIDE DEF x
  <2> QED BY <2>1, SoftStep
<1> QED BY <1>2, <1>3

\* The provider is asked under a ticket that nobody else sends, for the first time.
LEMMA ContactStep ==
  ASSUME PaidInv, NEW c \in Caller, At(c, "send"), Contact(call[c].ticket), NEW x \in CallState,
         call' = [call EXCEPT ![c] = x], x.pc # "send", UNCHANGED tableVars,
         \A S, C, D : Fine(call[c], S, C) => Fine(x, S, D),
         Sends(x) => x.ticket = call[c].ticket
  PROVE  PaidInv'
<1> DEFINE t == call[c].ticket
<1>1. /\ CallInv /\ TableInv /\ OneSender /\ Fine(call[c], sends, contacts) /\ Sends(call[c]) /\ SentOnce
      /\ t \in Ticket /\ contacts[t] = 0 /\ SendOpen(sends[t]) /\ contacts \in [Ticket -> Nat] /\ SendsOK
  BY DEF PaidInv, CallInv, At, Fine, Sends
<1>2. contacts' = [contacts EXCEPT ![t] = @ + 1] /\ sends' = sends
  BY DEF Contact, tableVars
<1>3. contacts' \in [Ticket -> Nat] /\ contacts'[t] = 1 /\ \A u \in Ticket \ {t} : contacts'[u] = contacts[u]
  BY <1>1, <1>2
<1>4. SentOnce'
  BY <1>1, <1>2, <1>3 DEF SentOnce, SendOpen
<1>5. TableInv' /\ SendsOK'
  BY <1>1, Nothing DEF Soft
<1>6. \A d \in Caller \ {c} : Fine(call[d], sends', contacts')
  <2> SUFFICES ASSUME NEW d \in Caller \ {c} PROVE Fine(call[d], sends', contacts')
    OBVIOUS
  <2>1. Fine(call[d], sends, contacts)
    BY <1>1 DEF CallInv
  <2>2. call[d].pc = "send" => Sends(call[d]) /\ call[d].ticket # t /\ call[d].ticket \in Ticket
    BY <1>1, <2>1 DEF OneSender, Sends, Fine
  <2> QED BY <1>2, <1>3, <2>1, <2>2 DEF Fine
<1>7. Fine(x, sends', contacts')
  BY <1>1, <1>2
<1>8. Sends(x) => \A d \in Caller \ {c} : Sends(call[d]) => call[d].ticket # x.ticket
  BY <1>1 DEF OneSender
<1> QED BY <1>1, <1>3, <1>4, <1>5, <1>6, <1>7, <1>8, CallStep DEF PaidInv

\* A call that gave the outcome of its own send: others who carry it keep an answer.
LEMMA OutcomeStep ==
  ASSUME PaidInv, NEW c \in Caller, NEW row, NEW send, Outcome(call[c].ticket, row, send),
         NEW x \in CallState, call' = [call EXCEPT ![c] = x], contacts' = contacts,
         \/ Sends(call[c])
         \/ Carries(call[c]) /\ SendAnswered(send) /\ send.raw = sends[call[c].ticket].raw,
         Fine(x, sends', contacts'), ~Sends(x)
  PROVE  PaidInv'
<1> DEFINE t == call[c].ticket
<1>1. CallInv /\ TableInv /\ OneSender /\ Fine(call[c], sends, contacts) /\ SentOnce /\ SendsOK
  BY DEF PaidInv, CallInv
<1>2. /\ TableInv' /\ SendsOK' /\ sends'[t] = send /\ \A u \in Ticket \ {t} : sends'[u] = sends[u]
  BY <1>1, OutcomeKeeps DEF Outcome
<1>3. t \in Ticket /\ send.status # "absent" /\ sends[t].status # "absent"
  <2>1. t \in Ticket /\ send.status # "absent"
    BY DEF Outcome, Settles, Restates
  <2>2. t = Last(Of(t)) /\ receipts[Of(t)].status # "absent" /\ Of(t) \in Receipt
    BY <1>1, <2>1, SendNames, LastOrSuperseded DEF Outcome, Settles, Open, Of, TableInv
  <2> QED BY <1>1, <2>1, <2>2, LastSend DEF TableInv
<1>4. SentOnce'
  BY <1>1, <1>2, <1>3 DEF SentOnce
<1>5. \A d \in Caller \ {c} : Fine(call[d], sends', contacts')
  <2> SUFFICES ASSUME NEW d \in Caller \ {c} PROVE Fine(call[d], sends', contacts')
    OBVIOUS
  <2>1. Fine(call[d], sends, contacts)
    BY <1>1 DEF CallInv
  <2>2. CASE Sends(call[c])
    <3>1. (Sends(call[d]) \/ Carries(call[d])) => call[d].ticket # t
      BY <1>1, <2>1, <2>2 DEF OneSender, Fine, SendOpen, SendAnswered
    <3> QED BY <1>2, <2>1, <3>1 DEF Fine, Sends, Carries
  <2>3. CASE Carries(call[c]) /\ SendAnswered(send) /\ send.raw = sends[t].raw
    <3>1. Sends(call[d]) => call[d].ticket # t
      BY <1>1, <2>1, <2>3 DEF Fine, SendOpen, SendAnswered
    <3>2. Carries(call[d]) => SendAnswered(sends'[call[d].ticket]) /\ sends'[call[d].ticket].raw = sends[call[d].ticket].raw
      BY <1>2, <1>3, <2>1, <2>3 DEF Fine
    <3> QED BY <1>2, <2>1, <3>1, <3>2 DEF Fine, Sends, Carries
  <2> QED BY <2>2, <2>3
<1>6. contacts' \in [Ticket -> Nat]
  BY <1>1 DEF CallInv
<1> QED BY <1>1, <1>2, <1>4, <1>5, <1>6, CallStep DEF PaidInv

\* A call returns, or tries again, after the outcome of its own send.
LEMMA OutcomeReturn ==
  ASSUME PaidInv, NEW c \in Caller, NEW row, NEW send, Outcome(call[c].ticket, row, send),
         Return(c) \/ TryAgain(c), contacts' = contacts,
         \/ Sends(call[c])
         \/ Carries(call[c]) /\ SendAnswered(send) /\ send.raw = sends[call[c].ticket].raw
  PROVE  PaidInv'
<1>1. call \in [Caller -> CallState] /\ Fine(call[c], sends, contacts)
  BY DEF PaidInv, CallInv
<1>2. CASE Return(c)
  <2> DEFINE x == Back(call[c])
  <2>1. call' = [call EXCEPT ![c] = x] /\ x \in CallState /\ ~Sends(x) /\ Fine(x, sends', contacts')
    BY <1>1, <1>2, ReturnForm
  <2> HIDE DEF x
  <2> QED BY <2>1, OutcomeStep
<1>3. CASE TryAgain(c)
  <2> DEFINE x == Again(call[c])
  <2>1. call' = [call EXCEPT ![c] = x] /\ x \in CallState /\ ~Sends(x) /\ Fine(x, sends', contacts')
    BY <1>1, <1>3, ReturnForm
  <2> HIDE DEF x
  <2> QED BY <2>1, OutcomeStep
<1> QED BY <1>2, <1>3

-----------------------------------------------------------------------------
(* The steps.                                                                *)

\* What every step does: the invariant holds, late calls are fenced, and the tables
\* change only through their functions.
Kept == PaidInv' /\ Fenced /\ [TableNext]_tableVars

\* What is known of a call before its step.
LEMMA CallFacts ==
  ASSUME PaidInv, NEW c \in Caller
  PROVE  /\ call \in [Caller -> CallState] /\ call[c] \in CallState /\ Fine(call[c], sends, contacts)
         /\ Asked(call[c].logical, call[c].key) /\ TableInv /\ SendsOK /\ CallInv
         /\ call[c].pc \in PC
<1>1. call \in [Caller -> CallState] /\ Fine(call[c], sends, contacts)
  BY DEF PaidInv, CallInv
<1>2. call[c].logical \in Logical /\ call[c].key \in RetryKey \cup {Null} /\ call[c].pc \in PC
  BY <1>1 DEF CallState
<1> QED BY <1>1, <1>2 DEF Asked, Fine, PaidInv, CallInv

\* A step that leaves the tables alone.
LEMMA TablesKept ==
  ASSUME PaidInv, UNCHANGED tableVars
  PROVE  TableInv' /\ Soft /\ Fenced /\ [TableNext]_tableVars /\ sends' = sends
BY Nothing DEF PaidInv, CallInv, tableVars

\* A call starts.
LEMMA BeginKeeps ==
  ASSUME PaidInv, NEW c \in Caller, Begin(c)
  PROVE  Kept
<1>1. PICK l \in Logical, key \in RetryKey \cup {Null} :
        /\ key # Null => RetryFor[key] = l
        /\ call' = [call EXCEPT ![c] = [call[c] EXCEPT !.pc = "reserve", !.logical = l, !.key = key]]
  BY DEF Begin
<1> DEFINE x == [call[c] EXCEPT !.pc = "reserve", !.logical = l, !.key = key]
<1>2. x \in CallState /\ x.pc = "reserve" /\ x.logical = l /\ x.key = key
  BY CallFacts DEF CallState, PC
<1>3. call' = [call EXCEPT ![c] = x] /\ contacts' = contacts /\ UNCHANGED tableVars
  BY <1>1 DEF Begin, history
<1> HIDE DEF x
<1>4. ~Sends(x) /\ Fine(x, sends', contacts')
  BY <1>1, <1>2 DEF Sends, Carries, Fine
<1> QED BY <1>2, <1>3, <1>4, TablesKept, SoftStep DEF Kept

\* A reservation is refused, or answered by a settled receipt.
LEMMA ReserveAnswersKeeps ==
  ASSUME PaidInv, NEW c \in Caller, ReserveAnswers(c)
  PROVE  Kept
<1> DEFINE l == call[c].logical
           key == call[c].key
<1>1. /\ ReserveCached(l, key) \/ ReserveBusy(l, key) \/ ReservePaused(l, key) \/ ReserveOverBudget(l, key)
      /\ Return(c) /\ contacts' = contacts
  BY DEF ReserveAnswers, history
<1>2. Asked(l, key) /\ TableInv /\ SendsOK
  BY CallFacts
<1>3. Reserve(l, key)
  BY <1>1 DEF Reserve
<1>4. TableNext
  BY <1>2, <1>3 DEF TableNext, Asked
<1> HIDE DEF l, key
<1>5. TableInv' /\ Soft /\ Fenced
  BY <1>1, <1>2, RefusalKeeps
<1> QED BY <1>1, <1>4, <1>5, SoftReturn DEF Kept

\* A call that holds a send.
Holding(x, label, t, more) ==
  [x EXCEPT !.pc = label, !.ticket = t, !.again = more, !.key = IF more THEN @ ELSE Null]
\* What holding a send does to a call.
LEMMA HoldForm ==
  ASSUME NEW c, NEW label, NEW t, Hold(c, label, t)
  PROVE  call' = [call EXCEPT ![c] = Holding(call[c], label, t, call[c].again /\ t[3] < MaxSends)]
BY DEF Hold, Holding

\* A stored answer that nobody settled is found.
LEMMA ReserveFindsAnswerKeeps ==
  ASSUME PaidInv, NEW c \in Caller, ReserveFindsAnswer(c)
  PROVE  Kept
<1> DEFINE l == call[c].logical
           key == call[c].key
           r == <<l, Target(l, key)>>
           t == Last(r)
           more == call[c].again /\ t[3] < MaxSends
           x == Holding(call[c], "load", t, more)
<1>1. /\ ReserveCached(l, key) /\ receipts[r].status = "received" /\ Hold(c, "load", t)
      /\ contacts' = contacts
  BY DEF ReserveFindsAnswer, history, Last, Send
<1>2. /\ Asked(l, key) /\ TableInv /\ SendsOK /\ call[c] \in CallState /\ Fine(call[c], sends, contacts)
      /\ ReceiptsInv /\ BindingsInv
  BY CallFacts DEF TableInv
<1>3. r \in Receipt
  <2>1. Target(l, key) \in 1..(generations[l] + 1) /\ Target(l, key) <= MaxGen /\ l \in Logical
    BY <1>1, <1>2, TargetFacts DEF ReserveCached, Asked
  <2>2. generations[l] \in 0..MaxGen /\ MaxGen \in Nat
    BY <1>2, <2>1, ReceiptAssumption DEF ReceiptsInv, ReceiptAssumption
  <2> QED BY <2>1, <2>2, ReceiptNames
<1>4. t \in Ticket /\ sends[t].status = "received"
  BY <1>1, <1>2, <1>3, LastSend
<1>5. /\ x \in CallState /\ x.pc = "load" /\ x.ticket = t /\ x.key \in {call[c].key, Null}
      /\ x.logical = call[c].logical
  <2>1. more \in BOOLEAN
    BY <1>2 DEF CallState
  <2>2. (IF more THEN call[c].key ELSE Null) \in RetryKey \cup {Null}
    BY <1>2 DEF CallState
  <2> HIDE DEF more, t
  <2> QED BY <1>2, <1>4, <2>1, <2>2 DEF CallState, PC, Holding
<1>6. call' = [call EXCEPT ![c] = x]
  BY <1>1, HoldForm
<1>7. sends' = sends /\ TableNext
  BY <1>1, <1>2 DEF ReserveCached, TableNext, Reserve, Asked
<1>8. TableInv' /\ Soft /\ Fenced
  BY <1>1, <1>2, RefusalKeeps
<1> HIDE DEF l, key, r, t, more, x
<1>9. ~Sends(x) /\ Fine(x, sends', contacts')
  BY <1>2, <1>4, <1>5, <1>7 DEF Sends, Carries, Fine, SendAnswered
<1> QED BY <1>1, <1>5, <1>6, <1>7, <1>8, <1>9, SoftStep DEF Kept

\* A send is granted: nobody else has its ticket, and the provider was not asked
\* under it.
LEMMA ReserveGrantsKeeps ==
  ASSUME PaidInv, NEW c \in Caller, ReserveGrants(c)
  PROVE  Kept
<1> DEFINE l == call[c].logical
           key == call[c].key
           v == NewTicket(l, key)
           more == call[c].again /\ v[3] < MaxSends
           x == Holding(call[c], "send", v, more)
<1>1. ReserveSend(l, key) /\ Hold(c, "send", v) /\ contacts' = contacts
  BY DEF ReserveGrants, history
<1>2. /\ Asked(l, key) /\ TableInv /\ SendsOK /\ call[c] \in CallState /\ Fine(call[c], sends, contacts)
      /\ CallInv /\ OneSender
  BY CallFacts DEF CallInv
<1>3. /\ TableInv' /\ Soft /\ Fenced
      /\ v \in Ticket /\ sends[v].status = "absent" /\ sends'[v].status = "pending" /\ sends'[v].raw = Null
  <2> HIDE DEF l, key, v
  <2> QED BY <1>1, <1>2, GrantForm, GrantKeeps DEF v
<1>4. /\ x \in CallState /\ x.pc = "send" /\ x.ticket = v /\ x.key \in {call[c].key, Null}
      /\ x.logical = call[c].logical
  <2>1. more \in BOOLEAN
    BY <1>2 DEF CallState
  <2>2. (IF more THEN call[c].key ELSE Null) \in RetryKey \cup {Null}
    BY <1>2 DEF CallState
  <2> HIDE DEF more, v
  <2> QED BY <1>2, <1>3, <2>1, <2>2 DEF CallState, PC, Holding
<1>5. call' = [call EXCEPT ![c] = x]
  BY <1>1, HoldForm
<1>6. TableNext
  BY <1>1, <1>2 DEF TableNext, Reserve, Asked
<1>7. contacts[v] = 0
  BY <1>2, <1>3 DEF CallInv, SentOnce
<1>8. /\ \A d \in Caller : Fine(call[d], sends', contacts')
      /\ SentOnce' /\ SendsOK' /\ contacts' \in [Ticket -> Nat]
  BY <1>1, <1>2, <1>3, SoftFine DEF CallInv
<1>9. \A d \in Caller \ {c} : Sends(call[d]) => call[d].ticket # v
  BY <1>2, <1>3 DEF CallInv, Fine, SendOpen
<1> HIDE DEF l, key, v, more, x
<1>10. Fine(x, sends', contacts')
  BY <1>1, <1>2, <1>3, <1>4, <1>7 DEF Fine, Sends, Carries, SendOpen
<1>11. CallInv'
  BY <1>2, <1>4, <1>5, <1>8, <1>9, <1>10, CallStep
<1> QED BY <1>3, <1>6, <1>11 DEF Kept, PaidInv

\* A stored answer is read, or is gone.
LEMMA LoadAnswerKeeps ==
  ASSUME PaidInv, NEW c \in Caller, LoadAnswer(c)
  PROVE  Kept
<1> DEFINE t == call[c].ticket
           x == [call[c] EXCEPT !.pc = "settle", !.answer = sends[t].raw]
<1>1. /\ call[c] \in CallState /\ call[c].pc = "load" /\ Fine(call[c], sends, contacts) /\ TableInv
      /\ UNCHANGED tableVars /\ contacts' = contacts
  BY CallFacts DEF LoadAnswer, At, history
<1>2. TableInv' /\ Soft /\ Fenced /\ [TableNext]_tableVars /\ sends' = sends
  BY <1>1, TablesKept
<1>3. CASE Return(c)
  BY <1>1, <1>2, <1>3, SoftReturn DEF Kept
<1>4. CASE sends[t].raw # Null /\ call' = [call EXCEPT ![c].pc = "settle", ![c].answer = sends[t].raw]
  <2>1. t \in Ticket /\ sends[t] \in SendRow /\ SendAnswered(sends[t])
    BY <1>1 DEF Fine, Carries, TableInv, ReceiptsInv
  <2>2. sends[t].raw \in Answer
    BY <1>4, <2>1, SendColumns
  <2>3. /\ x \in CallState /\ x.pc = "settle" /\ x.answer = sends[t].raw /\ x.ticket = t
        /\ x.key = call[c].key /\ x.logical = call[c].logical
    BY <1>1, <2>2 DEF CallState, PC
  <2>4. call' = [call EXCEPT ![c] = x]
    BY <1>4, <1>1, CallFacts DEF CallState
  <2> HIDE DEF x, t
  <2>5. ~Sends(x) /\ Fine(x, sends', contacts')
    BY <1>1, <1>2, <2>1, <2>2, <2>3 DEF Fine, Sends, Carries
  <2> QED BY <1>1, <1>2, <2>3, <2>4, <2>5, SoftStep DEF Kept
<1> QED BY <1>3, <1>4 DEF LoadAnswer

\* The provider answers, fails, or the task is cancelled in the middle of the send.
LEMMA SendKeeps ==
  ASSUME PaidInv, NEW c \in Caller, ProviderAnswers(c) \/ SendFails(c) \/ CancelSend(c)
  PROVE  Kept
<1>1. /\ call \in [Caller -> CallState] /\ call[c] \in CallState /\ call[c].pc = "send" /\ At(c, "send")
      /\ Contact(call[c].ticket) /\ UNCHANGED tableVars
  BY CallFacts DEF ProviderAnswers, SendFails, CancelSend, At
<1>2. CASE ProviderAnswers(c)
  <2>1. PICK a \in Answer : call' = [call EXCEPT ![c].pc = "receive", ![c].answer = a]
    BY <1>2 DEF ProviderAnswers
  <2> DEFINE x == [call[c] EXCEPT !.pc = "receive", !.answer = a]
  <2>2. /\ x \in CallState /\ x.pc = "receive" /\ x.answer = a /\ x.ticket = call[c].ticket
        /\ x.key = call[c].key /\ x.logical = call[c].logical
    BY <1>1 DEF CallState, PC
  <2>3. call' = [call EXCEPT ![c] = x]
    BY <1>1, <2>1 DEF CallState
  <2> HIDE DEF x
  <2>4. \A S, C, D : Fine(call[c], S, C) => Fine(x, S, D)
    BY <1>1, <2>2 DEF Fine, Sends, Carries
  <2> QED BY <1>1, <2>2, <2>3, <2>4, ContactStep, TablesKept DEF Kept
<1>3. CASE SendFails(c)
  <2> DEFINE x == [call[c] EXCEPT !.pc = "unknown"]
  <2>2. /\ x \in CallState /\ x.pc = "unknown" /\ x.ticket = call[c].ticket
        /\ x.key = call[c].key /\ x.logical = call[c].logical
    BY <1>1 DEF CallState, PC
  <2>3. call' = [call EXCEPT ![c] = x]
    BY <1>3 DEF SendFails, Goto
  <2> HIDE DEF x
  <2>4. \A S, C, D : Fine(call[c], S, C) => Fine(x, S, D)
    BY <1>1, <2>2 DEF Fine, Sends, Carries
  <2> QED BY <1>1, <2>2, <2>3, <2>4, ContactStep, TablesKept DEF Kept
<1>4. CASE CancelSend(c)
  <2> DEFINE x == [call[c] EXCEPT !.pc = "unknown", !.again = FALSE, !.key = Null]
  <2>2. x \in CallState /\ x.pc = "unknown" /\ x.ticket = call[c].ticket /\ x.key = Null
    BY <1>1 DEF CallState, PC
  <2>3. call' = [call EXCEPT ![c] = x]
    BY <1>1, <1>4 DEF CancelSend, CallState
  <2> HIDE DEF x
  <2>4. \A S, C, D : Fine(call[c], S, C) => Fine(x, S, D)
    BY <1>1, <2>2 DEF Fine, Sends, Carries
  <2> QED BY <1>1, <2>2, <2>3, <2>4, ContactStep, TablesKept DEF Kept
<1> QED BY <1>2, <1>3, <1>4

\* The uncertain outcome of a send is stored, or refused because it was taken over.
LEMMA StoreUnknownKeeps ==
  ASSUME PaidInv, NEW c \in Caller, StoreUnknown(c)
  PROVE  Kept
<1> DEFINE t == call[c].ticket
<1>1. /\ call[c].pc = "unknown" /\ Fine(call[c], sends, contacts) /\ TableInv /\ SendsOK
      /\ contacts' = contacts /\ Sends(call[c])
  BY CallFacts DEF StoreUnknown, At, history, Sends
<1>2. t \in Ticket /\ sends[t].raw = Null /\ sends[t] \in SendRow
  BY <1>1 DEF Fine, SendOpen, TableInv, ReceiptsInv
<1>3. CASE Finish(t, "unknown", Null, sends[t].charged) /\ (Return(c) \/ TryAgain(c))
  <2>1. sends[t].charged \in Nat
    BY <1>2, SendColumns
  <2> HIDE DEF t
  <2>2. PICK row, send : Outcome(t, row, send) /\ send.status = "unknown"
    BY <1>1, <1>2, <1>3, <2>1, FinishForm
  <2>3. PaidInv'
    BY <1>1, <1>3, <2>2, OutcomeReturn DEF t
  <2>4. TableNext
    BY <1>2, <1>3 DEF TableNext, Settle
  <2> QED BY <1>1, <2>2, <2>3, <2>4, OutcomeKeeps DEF Kept, Outcome
<1>4. CASE UNCHANGED tableVars /\ Return(c)
  BY <1>1, <1>4, TablesKept, SoftReturn DEF Kept
<1> QED BY <1>3, <1>4 DEF StoreUnknown

\* The answer is stored, or refused because the send was taken over.
LEMMA StoreAnswerKeeps ==
  ASSUME PaidInv, NEW c \in Caller, StoreAnswer(c)
  PROVE  Kept
<1> DEFINE t == call[c].ticket
           a == call[c].answer
           x == [call[c] EXCEPT !.pc = "settle"]
<1>1. /\ call[c] \in CallState /\ call[c].pc = "receive" /\ Fine(call[c], sends, contacts) /\ TableInv /\ SendsOK
      /\ contacts' = contacts /\ Sends(call[c])
  BY CallFacts DEF StoreAnswer, At, history, Sends
<1>2. t \in Ticket /\ a \in Answer
  BY <1>1 DEF Fine
<1>3. CASE Receive(t, a) /\ Goto(c, "settle")
  <2>1. PICK row, send : Outcome(t, row, send) /\ send.status = "received" /\ send.raw = a
    <3> HIDE DEF t, a
    <3> QED BY <1>1, <1>2, <1>3, ReceiveForm
  <2>2. sends'[t] = send /\ Fenced
    BY <1>1, <2>1, OutcomeKeeps DEF Outcome
  <2>3. /\ x \in CallState /\ x.pc = "settle" /\ x.answer = a /\ x.ticket = t
        /\ x.key = call[c].key /\ x.logical = call[c].logical
    BY <1>1 DEF CallState, PC
  <2>4. call' = [call EXCEPT ![c] = x]
    BY <1>3 DEF Goto
  <2>5. TableNext
    BY <1>2, <1>3 DEF TableNext
  <2> HIDE DEF x
  <2>6. ~Sends(x) /\ Fine(x, sends', contacts')
    BY <1>1, <1>2, <2>1, <2>2, <2>3 DEF Fine, Sends, Carries, SendAnswered
  <2> QED BY <1>1, <2>1, <2>2, <2>3, <2>4, <2>5, <2>6, OutcomeStep DEF Kept
<1>4. CASE UNCHANGED tableVars /\ Return(c)
  BY <1>1, <1>4, TablesKept, SoftReturn DEF Kept
<1> QED BY <1>3, <1>4 DEF StoreAnswer

\* An answer settles its receipt, or was settled by somebody else.
LEMMA SettleAnswerKeeps ==
  ASSUME PaidInv, NEW c \in Caller, SettleAnswer(c)
  PROVE  Kept
<1> DEFINE t == call[c].ticket
           a == call[c].answer
<1>1. /\ call[c].pc = "settle" /\ Fine(call[c], sends, contacts) /\ TableInv /\ SendsOK
      /\ contacts' = contacts /\ Carries(call[c])
  BY CallFacts DEF SettleAnswer, At, Carries
<1>2. t \in Ticket /\ a \in Answer /\ sends[t].raw \in {a, Null} /\ sends[t] \in SendRow
  BY <1>1 DEF Fine, TableInv, ReceiptsInv
<1>3. CASE SettledAs(t, a) /\ (Return(c) \/ TryAgain(c))
  <2>1. PICK status, error, charge :
          /\ status \in {"completed", "failed"} /\ error \in Error \cup {Null} /\ charge \in Nat
          /\ Finish(t, status, error, charge)
          /\ status = "failed" => error \in Error
          /\ status = "failed" /\ error = "retryable" => a = "busy"
          /\ TableNext
    <3>1. Cost[t[1]] \in Nat /\ sends[t].charged \in Nat
      <4>1. t[1] \in Logical
        BY <1>2 DEF Ticket
      <4> QED BY <1>2, <4>1, SendColumns, ReceiptAssumption DEF ReceiptAssumption
    <3>2. CASE \E amount \in 0..Cost[t[1]] : Finish(t, "completed", Null, amount)
      <4>1. PICK amount \in 0..Cost[t[1]] : Finish(t, "completed", Null, amount)
        BY <3>2
      <4>2. TableNext
        BY <1>2, <4>1 DEF TableNext, Settle
      <4> HIDE DEF t, a
      <4> QED BY <3>1, <4>1, <4>2
    <3>3. CASE Finish(t, "failed", "final", sends[t].charged)
      <4>1. TableNext
        BY <1>2, <3>3 DEF TableNext, Settle, Error
      <4> QED BY <3>1, <3>3, <4>1 DEF Error
    <3>4. CASE a = "busy" /\ Finish(t, "failed", "retryable", sends[t].charged)
      <4>1. TableNext
        BY <1>2, <3>4 DEF TableNext, Settle, Error
      <4> QED BY <3>1, <3>4, <4>1 DEF Error
    <3> QED BY <1>3, <3>2, <3>3, <3>4 DEF SettledAs
  <2> HIDE DEF t, a
  <2>2. PICK row, send : Outcome(t, row, send) /\ send.status = status /\ send.raw = sends[t].raw
    <3>1. status = "failed" /\ error = "retryable" => sends[t].raw \in {"busy", Null}
      BY <1>2, <2>1
    <3>2. status \in {"completed", "failed", "unknown"} /\ (status = "unknown" => sends[t].raw = Null)
      BY <2>1
    <3>3. /\ error \in Error \cup {Null} /\ charge \in Nat /\ Finish(t, status, error, charge)
          /\ (status = "failed" => error \in Error)
      BY <2>1
    <3> QED BY <1>1, <1>2, <3>1, <3>2, <3>3, FinishForm
  <2>3. SendAnswered(send)
    BY <2>1, <2>2 DEF SendAnswered
  <2>4. PaidInv'
    BY <1>1, <1>3, <2>2, <2>3, OutcomeReturn DEF t
  <2> QED BY <1>1, <2>1, <2>2, <2>4, OutcomeKeeps DEF Kept, Outcome
<1>4. CASE UNCHANGED tableVars /\ Return(c)
  BY <1>1, <1>4, TablesKept, SoftReturn DEF Kept
<1> QED BY <1>3, <1>4 DEF SettleAnswer

\* A call is cut off, wherever it is.
LEMMA CutOffKeeps ==
  ASSUME PaidInv, NEW c \in Caller, CutOff(c)
  PROVE  Kept
<1>1. /\ UNCHANGED tableVars /\ Return(c) /\ call \in [Caller -> CallState]
      /\ IF At(c, "send") THEN Contact(call[c].ticket) ELSE UNCHANGED history
  BY CallFacts DEF CutOff
<1>2. CASE At(c, "send")
  <2> DEFINE x == Back(call[c])
  <2>1. call' = [call EXCEPT ![c] = x] /\ x \in CallState /\ ~Sends(x) /\ \A S, D : Fine(x, S, D)
    BY <1>1, ReturnForm
  <2> HIDE DEF x
  <2>2. x.pc # "send"
    BY <2>1 DEF Sends
  <2> QED BY <1>1, <1>2, <2>1, <2>2, ContactStep, TablesKept DEF Kept
<1>3. CASE ~At(c, "send")
  BY <1>1, <1>3, TablesKept, SoftReturn DEF Kept, history
<1> QED BY <1>2, <1>3

\* Pruning and the clock, which no call makes.
LEMMA HousekeepingKeeps ==
  ASSUME PaidInv, Housekeeping
  PROVE  Kept
<1>1. /\ TableInv /\ CallInv /\ SendsOK /\ call' = call /\ contacts' = contacts
      /\ (\E t \in Ticket : PruneRaw(t)) \/ (\E r \in Receipt : PruneResult(r)) \/ Tick
  BY DEF PaidInv, CallInv, Housekeeping, history
<1>2. TableInv' /\ Soft /\ Fenced
  BY <1>1, HousekeepingAges, AgeSoft
<1>3. CallInv'
  BY <1>1, <1>2, SoftFine DEF CallInv, OneSender
<1>4. TableNext
  BY <1>1 DEF TableNext
<1> QED BY <1>2, <1>3, <1>4 DEF Kept, PaidInv

-----------------------------------------------------------------------------
(* The first state and every step.                                           *)

\* Empty tables are in order.
LEMMA InitTables == TableInit => TableInv
<1> SUFFICES ASSUME TableInit PROVE TableInv
  OBVIOUS
<1>1. MaxGen \in Nat /\ LeaseTicks \in Nat /\ RetainTicks \in Nat /\ Null \notin RetryKey
  BY ReceiptAssumption DEF ReceiptAssumption
<1>2. NoReceipt \in ReceiptRow /\ NoSend \in SendRow
  BY <1>1 DEF NoReceipt, ReceiptRow, NoSend, SendRow, Status, MaxSends
<1>3. ReceiptsInv
  <2>1. \A t \in Ticket : Of(t) \in Receipt /\ t[3] \in 1..MaxSends
    BY SendNames
  <2> QED BY <1>1, <1>2, <2>1, ReceiptNames
          DEF TableInit, ReceiptsInv, ReceiptOK, OlderOver, NoReceipt, NoSend
<1>4. BindingsInv
  BY <1>1, ReceiptAssumption DEF TableInit, BindingsInv, NoReceipt, ReceiptAssumption
<1> QED BY <1>3, <1>4 DEF TableInv

\* Init: nothing reserved, nothing sent, every call idle.
LEMMA InitInv == Init => PaidInv
<1> SUFFICES ASSUME Init PROVE PaidInv
  OBVIOUS
<1>1. Logical # {} /\ TableInv
  BY InitTables, ReceiptAssumption DEF Init, ReceiptAssumption
<1>2. \A c \in Caller : call[c] \in CallState /\ call[c].pc = "idle" /\ call[c].key = Null
  <2> SUFFICES ASSUME NEW c \in Caller
               PROVE  call[c] \in CallState /\ call[c].pc = "idle" /\ call[c].key = Null
    OBVIOUS
  <2>1. (CHOOSE l \in Logical : TRUE) \in Logical
    BY <1>1
  <2>2. PICK l \in Logical : call[c] = [pc |-> "idle", logical |-> l, key |-> Null, again |-> TRUE,
                                       ticket |-> NoTicket, answer |-> Null]
    BY <2>1 DEF Init
  <2> QED BY <2>2 DEF CallState, PC
<1>3. CallInv
  <2>1. call \in [Caller -> CallState]
    BY <1>2 DEF Init
  <2>2. /\ contacts \in [Ticket -> Nat] /\ SentOnce
    BY DEF Init, SentOnce
  <2>3. SendsOK
    <3> SUFFICES ASSUME NEW t \in Ticket PROVE SendOK(t)
      BY DEF SendsOK
    <3>1. sends[t] = NoSend /\ receipts[Of(t)] = NoReceipt /\ t[3] \in 1..MaxSends
      BY SendNames DEF Init, TableInit
    <3>2. ~Superseded(t)
      BY <3>1 DEF Superseded, Of, NoReceipt, MaxSends
    <3> QED BY <3>1, <3>2 DEF SendOK, NoSend, NoReceipt
  <2>4. OneSender /\ \A c \in Caller : Fine(call[c], sends, contacts)
    BY <1>2 DEF OneSender, Fine, Sends, Carries
  <2> QED BY <2>1, <2>2, <2>3, <2>4 DEF CallInv
<1> QED BY <1>1, <1>3 DEF PaidInv

\* Every step keeps the invariant, fences late calls and respects the tables.
LEMMA StepKeeps ==
  ASSUME PaidInv, [Next]_vars
  PROVE  Kept
<1>1. CASE UNCHANGED vars
  <2>1. TableInv' /\ Soft /\ Fenced /\ [TableNext]_tableVars
    BY <1>1, TablesKept DEF vars
  <2>2. CallInv'
    BY <1>1, <2>1, SoftFine DEF vars, PaidInv, CallInv, OneSender
  <2> QED BY <2>1, <2>2 DEF Kept, PaidInv
<1>2. CASE Housekeeping
  BY <1>2, HousekeepingKeeps
<1>3. ASSUME NEW c \in Caller,
             \/ Begin(c) \/ ReserveAnswers(c) \/ ReserveFindsAnswer(c) \/ ReserveGrants(c)
             \/ LoadAnswer(c) \/ ProviderAnswers(c) \/ SendFails(c) \/ CancelSend(c)
             \/ StoreUnknown(c) \/ StoreAnswer(c) \/ SettleAnswer(c) \/ CutOff(c)
      PROVE  Kept
  BY <1>3, BeginKeeps, ReserveAnswersKeeps, ReserveFindsAnswerKeeps, ReserveGrantsKeeps, LoadAnswerKeeps,
     SendKeeps, StoreUnknownKeeps, StoreAnswerKeeps, SettleAnswerKeeps, CutOffKeeps
<1> QED BY <1>1, <1>2, <1>3 DEF Next

-----------------------------------------------------------------------------
(* Sums.  SumFunctionOnSet is a recursion over the subsets of a set, which   *)
(* takes an element somehow chosen away: that it is defined, whatever is     *)
(* chosen, that the order does not matter, and that it grows with the set    *)
(* and with its terms.                                                       *)

Some(s) == CHOOSE x \in s : TRUE
Natural(f, S) == \A x \in S : f[x] \in Nat
\* g gives the sum of f over each subset of S.
Sums(f, S, g) == g = [s \in SUBSET S |-> IF s = {} THEN 0 ELSE f[Some(s)] + g[s \ {Some(s)}]]

\* The sum is what such a table says.
LEMMA SumByTable ==
  ASSUME NEW f, NEW S
  PROVE  SumFunctionOnSet(f, S) = (CHOOSE g : Sums(f, S, g))[S]
BY DEF SumFunctionOnSet, FoldFunctionOnSet, MapThenFoldSet, Sums, Some

\* A set of natural numbers has a least one.
LEMMA LeastOf ==
  ASSUME NEW S \in SUBSET Nat, S # {}
  PROVE  \E m \in S : \A k \in S : m <= k
<1>1. PICK m \in S : \A k \in S : ~(<<k, m>> \in OpToRel(<, Nat))
  BY NatLessThanWellFounded, WFMin
<1>2. \A k \in S : ~(k < m)
  BY <1>1 DEF OpToRel
<1> QED BY <1>2

\* What holds of the empty set, and of a set whenever of it without one element, holds of
\* every subset of a finite set.
LEMMA SubsetInduction ==
  ASSUME NEW S, IsFiniteSet(S), NEW Good, {} \in Good,
         \A s \in SUBSET S : s # {} /\ (\A x \in s : s \ {x} \in Good) => s \in Good
  PROVE  \A s \in SUBSET S : s \in Good
<1> DEFINE Bad == {n \in Nat : \E s \in SUBSET S : s \notin Good /\ Cardinality(s) = n}
<1>1. \A s \in SUBSET S : IsFiniteSet(s) /\ Cardinality(s) \in Nat
  BY FS_Subset, FS_CardinalityType
<1>2. SUFFICES ASSUME Bad # {} PROVE FALSE
  BY <1>1
<1>3. PICK n \in Bad : \A k \in Bad : n <= k
  <2>1. Bad \in SUBSET Nat
    OBVIOUS
  <2> HIDE DEF Bad
  <2> QED BY <1>2, <2>1, LeastOf
<1>4. PICK s \in SUBSET S : s \notin Good /\ Cardinality(s) = n
  OBVIOUS
<1>5. ASSUME NEW x \in s PROVE s \ {x} \in Good
  <2>1. IsFiniteSet(s) /\ Cardinality(s \ {x}) = Cardinality(s) - 1 /\ s \ {x} \in SUBSET S
    BY <1>1, FS_RemoveElement
  <2>2. Cardinality(s \ {x}) \in Nat /\ n \in Nat
    BY <1>1, <2>1
  <2>3. ~(n <= Cardinality(s \ {x}))
    BY <1>4, <2>1, <2>2
  <2>4. Cardinality(s \ {x}) \notin Bad
    <3> HIDE DEF Bad
    <3> QED BY <1>3, <2>3
  <2> QED BY <2>1, <2>2, <2>4
<1> QED BY <1>4, <1>5

\* There is such a table: were there none for the subsets of up to some size, there
\* would be a least such size.
LEMMA SumExists ==
  ASSUME NEW S, IsFiniteSet(S), NEW f, Natural(f, S)
  PROVE  \E g : Sums(f, S, g)
<1> DEFINE Small(n) == {s \in SUBSET S : Cardinality(s) <= n}
<1> DEFINE Row(g, s) == IF s = {} THEN 0 ELSE f[Some(s)] + g[s \ {Some(s)}]
<1> DEFINE Good(n) == \E g : g = [s \in Small(n) |-> Row(g, s)]
<1> DEFINE Bad == {n \in Nat : ~Good(n)}
<1>1. \A s \in SUBSET S : IsFiniteSet(s) /\ Cardinality(s) \in Nat /\ Cardinality(s) <= Cardinality(S)
  BY FS_Subset, FS_CardinalityType
<1>2. \A s \in SUBSET S : s # {} => /\ Some(s) \in s /\ s \ {Some(s)} \in SUBSET S
                                    /\ Cardinality(s \ {Some(s)}) = Cardinality(s) - 1
  BY <1>1, FS_RemoveElement DEF Some
<1>3. Good(0)
  <2> DEFINE g == [s \in Small(0) |-> 0]
  <2>1. \A s \in Small(0) : s = {}
    BY <1>1, FS_EmptySet
  <2>2. g = [s \in Small(0) |-> Row(g, s)]
    BY <2>1
  <2> QED BY <2>2
<1>4. ASSUME NEW n \in Nat, Good(n) PROVE Good(n + 1)
  <2>1. PICK g : g = [s \in Small(n) |-> Row(g, s)]
    BY <1>4
  <2> DEFINE h == [s \in Small(n + 1) |-> Row(g, s)]
  <2>2. ASSUME NEW s \in Small(n + 1) PROVE Row(h, s) = Row(g, s)
    <3>1. CASE s = {}
      BY <3>1
    <3>2. CASE s # {}
      <4> DEFINE t == s \ {Some(s)}
      <4>1. t \in SUBSET S /\ Cardinality(t) <= n
        BY <1>1, <1>2, <3>2
      <4>2. t \in Small(n) /\ t \in Small(n + 1)
        BY <1>1, <4>1
      <4>3. g[t] = Row(g, t) /\ h[t] = Row(g, t)
        <5> HIDE DEF Small, Row, t
        <5>1. h[t] = Row(g, t)
          BY <4>2
        <5>2. g[t] = Row(g, t)
          BY <2>1, <4>2
        <5> QED BY <5>1, <5>2
      <4> QED BY <3>2, <4>3
    <3> QED BY <3>1, <3>2
  <2>3. h = [s \in Small(n + 1) |-> Row(h, s)]
    <3> HIDE DEF Row, Small
    <3> QED BY <2>2
  <2> QED BY <2>3
<1>5. Bad = {}
  <2> SUFFICES ASSUME Bad # {} PROVE FALSE
    OBVIOUS
  <2>1. PICK n \in Bad : \A k \in Bad : n <= k
    <3>1. Bad \in SUBSET Nat
      OBVIOUS
    <3> HIDE DEF Bad
    <3> QED BY <3>1, LeastOf
  <2>2. n \in Nat /\ ~Good(n)
    OBVIOUS
  <2>3. n # 0
    <3> HIDE DEF Good
    <3> QED BY <1>3, <2>2
  <2>4. n - 1 \in Nat /\ ~(n <= n - 1) /\ (n - 1) + 1 = n
    BY <2>2, <2>3
  <2>5. Good(n - 1)
    <3> HIDE DEF Good
    <3> QED BY <2>1, <2>4
  <2> HIDE DEF Good
  <2> QED BY <1>4, <2>2, <2>4, <2>5
<1>6. Good(Cardinality(S)) /\ Small(Cardinality(S)) = SUBSET S
  <2>1. Small(Cardinality(S)) = SUBSET S
    BY <1>1
  <2>2. Cardinality(S) \in Nat
    BY FS_CardinalityType
  <2> HIDE DEF Good, Small
  <2> QED BY <1>5, <2>1, <2>2
<1>7. PICK g : g = [s \in Small(Cardinality(S)) |-> Row(g, s)]
  BY <1>6
<1>8. g = [s \in SUBSET S |-> Row(g, s)]
  <2> HIDE DEF Row, Small
  <2> QED BY <1>6, <1>7
<1> QED BY <1>8 DEF Sums

\* A table of sums has natural numbers, and does not depend on which element is taken away.
LEMMA SumTables ==
  ASSUME NEW S, IsFiniteSet(S), NEW f, Natural(f, S), NEW g, Sums(f, S, g)
  PROVE  /\ g[{}] = 0 /\ \A s \in SUBSET S : g[s] \in Nat
         /\ \A s \in SUBSET S : \A x \in s : g[s] = f[x] + g[s \ {x}]
<1>1. \A s \in SUBSET S : g[s] = IF s = {} THEN 0 ELSE f[Some(s)] + g[s \ {Some(s)}]
  BY DEF Sums
<1>2. \A s \in SUBSET S : s # {} => Some(s) \in s
  BY DEF Some
<1>3. g[{}] = 0
  BY <1>1
<1> DEFINE Good == {s \in SUBSET S : g[s] \in Nat}
<1>4. \A s \in SUBSET S : s \in Good
  <2>1. {} \in Good
    BY <1>3
  <2>2. ASSUME NEW s \in SUBSET S, s # {}, \A x \in s : s \ {x} \in Good PROVE s \in Good
    <3>1. Some(s) \in s /\ f[Some(s)] \in Nat /\ g[s \ {Some(s)}] \in Nat
      BY <1>2, <2>2 DEF Natural
    <3> QED BY <1>1, <2>2, <3>1
  <2> HIDE DEF Good
  <2> QED BY <2>1, <2>2, SubsetInduction
<1> DEFINE Free == {s \in SUBSET S : \A x \in s : g[s] = f[x] + g[s \ {x}]}
<1>5. \A s \in SUBSET S : s \in Free
  <2>1. {} \in Free
    OBVIOUS
  <2>2. ASSUME NEW s \in SUBSET S, s # {}, \A x \in s : s \ {x} \in Free PROVE s \in Free
    <3> SUFFICES ASSUME NEW x \in s PROVE g[s] = f[x] + g[s \ {x}]
      OBVIOUS
    <3> DEFINE p == Some(s)
    <3>1. p \in s /\ g[s] = f[p] + g[s \ {p}]
      BY <1>1, <1>2, <2>2
    <3> HIDE DEF p
    <3>2. CASE x = p
      BY <3>1, <3>2
    <3>3. CASE x # p
      <4> DEFINE b == (s \ {p}) \ {x}
      <4>1. x \in s \ {p} /\ p \in s \ {x} /\ (s \ {x}) \ {p} = b /\ b \in SUBSET S
        BY <3>1, <3>3
      <4>2. g[s \ {p}] = f[x] + g[b] /\ g[s \ {x}] = f[p] + g[b]
        BY <2>2, <3>1, <4>1
      <4>3. f[x] \in Nat /\ f[p] \in Nat /\ g[b] \in Nat
        BY <1>4, <3>1, <4>1 DEF Natural
      <4> HIDE DEF b
      <4> QED BY <3>1, <4>2, <4>3
    <3> QED BY <3>2, <3>3
  <2> HIDE DEF Free
  <2> QED BY <2>1, <2>2, SubsetInduction
<1> QED BY <1>3, <1>4, <1>5

\* A larger set with larger terms has no smaller sum.
LEMMA TablesGrow ==
  ASSUME NEW S, NEW T, IsFiniteSet(T), S \subseteq T, NEW f, NEW h, Natural(f, S), Natural(h, T),
         \A x \in S : f[x] <= h[x], NEW g, NEW k, Sums(f, S, g), Sums(h, T, k)
  PROVE  g[S] <= k[T]
<1>0. IsFiniteSet(S)
  BY FS_Subset
<1>1. /\ g[{}] = 0 /\ \A s \in SUBSET S : g[s] \in Nat
      /\ \A s \in SUBSET S : \A x \in s : g[s] = f[x] + g[s \ {x}]
  BY <1>0, SumTables
<1>2. /\ \A t \in SUBSET T : k[t] \in Nat
      /\ \A t \in SUBSET T : \A x \in t : k[t] = h[x] + k[t \ {x}]
  BY SumTables
<1> DEFINE Good == {t \in SUBSET T : \A s \in SUBSET S : s \subseteq t => g[s] <= k[t]}
<1>3. \A t \in SUBSET T : t \in Good
  <2>1. {} \in Good
    <3>1. k[{}] \in Nat /\ \A s \in SUBSET S : s \subseteq {} => s = {}
      BY <1>2
    <3>2. 0 <= k[{}]
      BY <3>1
    <3> QED BY <1>1, <3>1, <3>2
  <2>2. ASSUME NEW t \in SUBSET T, t # {}, \A x \in t : t \ {x} \in Good PROVE t \in Good
    <3> SUFFICES ASSUME NEW s \in SUBSET S, s \subseteq t PROVE g[s] <= k[t]
      OBVIOUS
    <3>1. CASE s = {}
      <4>1. k[t] \in Nat
        BY <1>2
      <4> QED BY <1>1, <3>1, <4>1
    <3>2. CASE s # {}
      <4>1. PICK x : x \in s
        BY <3>2
      <4>2. /\ g[s] = f[x] + g[s \ {x}] /\ k[t] = h[x] + k[t \ {x}] /\ g[s \ {x}] <= k[t \ {x}]
        BY <1>1, <1>2, <2>2, <4>1
      <4>3. /\ f[x] \in Nat /\ h[x] \in Nat /\ f[x] <= h[x] /\ g[s \ {x}] \in Nat /\ k[t \ {x}] \in Nat
        BY <1>1, <1>2, <4>1 DEF Natural
      <4> QED BY <4>2, <4>3
    <3> QED BY <3>1, <3>2
  <2> HIDE DEF Good
  <2> QED BY <2>1, <2>2, SubsetInduction
<1> QED BY <1>3

\* The sum is one of these.
LEMMA SumTable ==
  ASSUME NEW S, IsFiniteSet(S), NEW f, Natural(f, S)
  PROVE  \E g : Sums(f, S, g) /\ SumFunctionOnSet(f, S) = g[S]
<1> DEFINE c == CHOOSE g : Sums(f, S, g)
<1>1. Sums(f, S, c)
  BY SumExists
<1>2. SumFunctionOnSet(f, S) = c[S]
  BY SumByTable
<1> HIDE DEF c
<1> QED BY <1>1, <1>2

\* A sum of natural numbers is one; none over the empty set.
LEMMA SumNatural ==
  ASSUME NEW S, IsFiniteSet(S), NEW f, Natural(f, S)
  PROVE  SumFunctionOnSet(f, S) \in Nat /\ (S = {} => SumFunctionOnSet(f, S) = 0)
<1>1. PICK g : Sums(f, S, g) /\ SumFunctionOnSet(f, S) = g[S]
  BY SumTable
<1>2. g[{}] = 0 /\ \A s \in SUBSET S : g[s] \in Nat
  BY <1>1, SumTables
<1> QED BY <1>1, <1>2

\* A sum grows with its set and its terms.
LEMMA SumGrows ==
  ASSUME NEW S, NEW T, IsFiniteSet(T), S \subseteq T, NEW f, NEW h, Natural(f, S), Natural(h, T),
         \A x \in S : f[x] <= h[x]
  PROVE  SumFunctionOnSet(f, S) <= SumFunctionOnSet(h, T)
<1>1. IsFiniteSet(S)
  BY FS_Subset
<1>2. PICK g : Sums(f, S, g) /\ SumFunctionOnSet(f, S) = g[S]
  BY <1>1, SumTable
<1>3. PICK k : Sums(h, T, k) /\ SumFunctionOnSet(h, T) = k[T]
  BY SumTable
<1>4. g[S] <= k[T]
  BY <1>2, <1>3, TablesGrow
<1> QED BY <1>2, <1>3, <1>4

\* One element less takes its own term away.
LEMMA SumWithout ==
  ASSUME NEW S, IsFiniteSet(S), NEW v \in S, NEW f, Natural(f, S)
  PROVE  SumFunctionOnSet(f, S) = SumFunctionOnSet(f, S \ {v}) + f[v]
<1> DEFINE R == S \ {v}
<1>1. IsFiniteSet(R) /\ Natural(f, R) /\ R \subseteq S /\ f[v] \in Nat
  BY FS_Subset DEF Natural
<1>2. PICK g : Sums(f, S, g) /\ SumFunctionOnSet(f, S) = g[S]
  BY SumTable
<1>3. g[S] = f[v] + g[R] /\ g[R] \in Nat
  BY <1>1, <1>2, SumTables
<1>4. PICK k : Sums(f, R, k) /\ SumFunctionOnSet(f, R) = k[R]
  <2> HIDE DEF R
  <2> QED BY <1>1, SumTable
<1> DEFINE j == [s \in SUBSET R |-> g[s]]
<1>5. Sums(f, R, j) /\ j[R] = g[R]
  <2>1. ASSUME NEW s \in SUBSET R
        PROVE  j[s] = IF s = {} THEN 0 ELSE f[Some(s)] + j[s \ {Some(s)}]
    <3>1. s \in SUBSET S /\ s \ {Some(s)} \in SUBSET R
      BY <1>1
    <3>2. g[s] = IF s = {} THEN 0 ELSE f[Some(s)] + g[s \ {Some(s)}]
      BY <1>2, <3>1 DEF Sums
    <3> HIDE DEF R
    <3> QED BY <3>1, <3>2
  <2> HIDE DEF R
  <2> QED BY <2>1 DEF Sums
<1>6. k[R] = j[R]
  <2> HIDE DEF R, j
  <2>1. \A x \in R : f[x] <= f[x]
    BY <1>1 DEF Natural
  <2>2. k[R] <= j[R] /\ j[R] <= k[R]
    BY <1>1, <1>4, <1>5, <2>1, TablesGrow
  <2>3. k[R] \in Nat /\ j[R] \in Nat
    BY <1>1, <1>4, <1>5, SumTables
  <2> QED BY <2>2, <2>3
<1> QED BY <1>1, <1>2, <1>3, <1>4, <1>5, <1>6

-----------------------------------------------------------------------------
(* The budget.                                                               *)

Owing == {"pending", "received", "unknown"}

\* What the reservations of any window add up to is within its budget, and a send
\* without an outcome that settles it is charged in full.
WithinWindows ==
  /\ IsFiniteSet({t \in Ticket : sends[t].status # "absent"})
  /\ \A w \in Window : Used(w) <= Budget[w]
  /\ \A t \in Ticket : sends[t].status \in Owing => sends[t].charged = Cost[t[1]]

\* A send costs at most what it is charged, and nothing before the provider is asked.
BilledCovered ==
  /\ billed \in [Ticket -> Nat]
  /\ \A t \in Ticket : /\ billed[t] <= sends[t].charged
                       /\ sends[t].status = "absent" => billed[t] = 0
  /\ \A c \in Caller : call[c].pc = "send" => billed[call[c].ticket] = 0

BudgetInv == WithinWindows /\ BilledCovered

\* The sends a window counts.
Counts(w) == {t \in Ticket : sends[t].status # "absent" /\ sends[t].age < Span[w]}
Charges   == [t \in Ticket |-> sends[t].charged]

\* What is used of a window is a sum of natural numbers over finitely many sends.
LEMMA UsedSums ==
  ASSUME ReceiptsInv, WithinWindows, NEW w \in Window
  PROVE  /\ Used(w) = SumFunctionOnSet(Charges, Counts(w)) /\ Used(w) \in Nat
         /\ IsFiniteSet(Counts(w)) /\ Natural(Charges, Ticket) /\ Natural(Charges, Counts(w))
         /\ Used(w) <= Budget[w] /\ Budget[w] \in Nat /\ Span[w] \in Nat \ {0}
<1>1. Natural(Charges, Ticket) /\ Natural(Charges, Counts(w))
  <2>1. \A t \in Ticket : sends[t].charged \in Nat
    BY SendColumns DEF ReceiptsInv
  <2> QED BY <2>1 DEF Natural, Charges, Counts
<1>2. IsFiniteSet(Counts(w))
  <2>1. Counts(w) \subseteq {t \in Ticket : sends[t].status # "absent"}
    BY DEF Counts
  <2> QED BY <2>1, FS_Subset DEF WithinWindows
<1>3. Used(w) = SumFunctionOnSet(Charges, Counts(w))
  BY DEF Used, Charges, Counts
<1>4. Used(w) \in Nat
  BY <1>1, <1>2, <1>3, SumNatural
<1> QED BY <1>1, <1>2, <1>3, <1>4, ReceiptAssumption DEF WithinWindows, ReceiptAssumption

\* A step that reserves nothing: charges do not grow, sends do not get younger.
Eases ==
  \A t \in Ticket :
    /\ sends'[t].status = "absent" <=> sends[t].status = "absent"
    /\ sends'[t].charged <= sends[t].charged /\ sends[t].age <= sends'[t].age
    /\ sends'[t].status \in Owing => sends[t].status \in Owing /\ sends'[t].charged = sends[t].charged

\* Such a step keeps every window within its budget.
LEMMA EasesBudget ==
  ASSUME ReceiptsInv, ReceiptsInv', WithinWindows, Eases
  PROVE  WithinWindows'
<1>1. {t \in Ticket : sends'[t].status # "absent"} = {t \in Ticket : sends[t].status # "absent"}
  BY DEF Eases
<1>2. \A t \in Ticket : sends[t].age \in Nat /\ sends'[t].age \in Nat /\ sends'[t].charged \in Nat
  BY SendColumns, ReceiptAssumption DEF ReceiptsInv, ReceiptAssumption
<1>3. ASSUME NEW w \in Window PROVE Used(w)' <= Budget[w]
  <2> DEFINE S == Counts(w)'
             f == Charges'
  <2>1. /\ Used(w) = SumFunctionOnSet(Charges, Counts(w)) /\ IsFiniteSet(Counts(w)) /\ Natural(Charges, Counts(w))
        /\ Used(w) <= Budget[w] /\ Budget[w] \in Nat /\ Used(w) \in Nat /\ Span[w] \in Nat
    BY UsedSums
  <2>2. S \subseteq Counts(w)
    BY <1>2, <2>1 DEF Eases, Counts
  <2>3. Natural(f, S) /\ \A t \in S : f[t] <= Charges[t]
    BY <1>2 DEF Natural, Counts, Charges, Eases
  <2>4. Used(w)' = SumFunctionOnSet(f, S)
    BY DEF Used, Charges, Counts
  <2>5. IsFiniteSet(S)
    BY <2>1, <2>2, FS_Subset
  <2> HIDE DEF S, f
  <2>6. SumFunctionOnSet(f, S) <= SumFunctionOnSet(Charges, Counts(w)) /\ SumFunctionOnSet(f, S) \in Nat
    BY <2>1, <2>2, <2>3, <2>5, SumGrows, SumNatural
  <2> QED BY <2>1, <2>4, <2>6
<1>4. \A t \in Ticket : sends'[t].status \in Owing => sends'[t].charged = Cost[t[1]]
  BY DEF Eases, WithinWindows
<1> QED BY <1>1, <1>3, <1>4 DEF WithinWindows

\* A send that becomes unknown keeps its charge and its age.
LEMMA ExpiryEases ==
  ASSUME ReceiptsInv, NEW r, NEW t \in Ticket
  PROVE  /\ ExpiredSends(r)[t].status = "absent" <=> sends[t].status = "absent"
         /\ ExpiredSends(r)[t].charged = sends[t].charged /\ ExpiredSends(r)[t].age = sends[t].age
         /\ ExpiredSends(r)[t].status \in Owing => sends[t].status \in Owing
<1>1. sends[t] \in SendRow
  BY DEF ReceiptsInv
<1>2. CASE Lapsed(r) /\ t = <<r[1], r[2], receipts[r].attempts>> /\ sends[t].status = "pending"
  <2>1. ExpiredSends(r)[t] = [sends[t] EXCEPT !.status = "unknown"]
    BY <1>2 DEF ExpiredSends
  <2> QED BY <1>1, <1>2, <2>1 DEF SendRow, Owing
<1>3. CASE ~(Lapsed(r) /\ t = <<r[1], r[2], receipts[r].attempts>> /\ sends[t].status = "pending")
  BY <1>3 DEF ExpiredSends
<1> QED BY <1>2, <1>3

\* Refused and answered reservations reserve nothing.
LEMMA RefusalEases ==
  ASSUME ReceiptsInv, NEW l, NEW key,
         ReserveCached(l, key) \/ ReserveBusy(l, key) \/ ReservePaused(l, key) \/ ReserveOverBudget(l, key)
  PROVE  Eases /\ \A t \in Ticket : sends'[t].charged = sends[t].charged
<1>1. sends' = sends \/ \E r : sends' = ExpiredSends(r)
  BY DEF ReserveCached, ReserveBusy, ReservePaused, ReserveOverBudget
<1>2. \A t \in Ticket : sends[t].charged \in Nat /\ sends[t].age \in Nat
  BY SendColumns, ReceiptAssumption DEF ReceiptsInv, ReceiptAssumption
<1>3. CASE sends' = sends
  BY <1>2, <1>3 DEF Eases
<1>4. ASSUME NEW r, sends' = ExpiredSends(r)
      PROVE  Eases /\ \A t \in Ticket : sends'[t].charged = sends[t].charged
  <2> SUFFICES ASSUME NEW t \in Ticket
               PROVE  /\ sends'[t].status = "absent" <=> sends[t].status = "absent"
                      /\ sends'[t].charged = sends[t].charged /\ sends'[t].age = sends[t].age
                      /\ sends'[t].status \in Owing => sends[t].status \in Owing
    BY <1>2 DEF Eases
  <2> QED BY <1>4, ExpiryEases
<1> QED BY <1>1, <1>3, <1>4

\* A granted reservation adds its price to each window, which has room for it.
LEMMA GrantBudget ==
  ASSUME TableInv, TableInv', WithinWindows, NEW l, NEW key, Asked(l, key), ReserveSend(l, key)
  PROVE  /\ WithinWindows'
         /\ \A t \in Ticket : sends'[t].charged = sends[t].charged \/ sends[t].status = "absent"
         /\ \A t \in Ticket : sends'[t].status = "absent" => sends[t].status = "absent"
<1>1. ReceiptsInv /\ ReceiptsInv'
  BY DEF TableInv
<1>2. PICK r, v, row, new : Grants(l, Target(l, key), key, r, v, row, new) /\ Bind(key, Target(l, key))
  BY <1>1, GrantForm
<1> DEFINE E == ExpiredSends(r)
<1>3. v \in Ticket /\ sends[v].status = "absent"
  BY <1>1, <1>2, GrantKeeps
<1>4. /\ sends' = [E EXCEPT ![v] = new] /\ l \in Logical /\ v[1] = l
      /\ new.status = "pending" /\ new.charged = Cost[l] /\ new.age = 0
  <2>1. /\ new = [status |-> "pending", charged |-> Cost[l], age |-> 0, raw |-> Null]
        /\ v = Send(r, receipts[r].attempts + 1) /\ r[1] = l /\ l \in Logical /\ sends' = [E EXCEPT ![v] = new]
    BY <1>2 DEF Grants
  <2> QED BY <2>1 DEF Send
<1>5. DOMAIN E = Ticket
  BY DEF ExpiredSends
<1>6. sends'[v] = new /\ \A t \in Ticket \ {v} : sends'[t] = E[t]
  <2> HIDE DEF E
  <2> QED BY <1>3, <1>4, <1>5
<1>7. \A t \in Ticket \ {v} : /\ sends'[t].status = "absent" <=> sends[t].status = "absent"
                              /\ sends'[t].charged = sends[t].charged /\ sends'[t].age = sends[t].age
                              /\ sends'[t].status \in Owing => sends[t].status \in Owing
  BY <1>1, <1>6, ExpiryEases
<1> HIDE DEF E
<1>8. \A t \in Ticket : sends'[t].status \in Owing => sends'[t].charged = Cost[t[1]]
  BY <1>4, <1>6, <1>7 DEF WithinWindows
<1>9. IsFiniteSet({t \in Ticket : sends'[t].status # "absent"})
  <2> DEFINE old == {t \in Ticket : sends[t].status # "absent"}
             now == {t \in Ticket : sends'[t].status # "absent"}
  <2>1. now \subseteq old \cup {v}
    BY <1>7
  <2>2. IsFiniteSet(old \cup {v})
    BY FS_AddElement DEF WithinWindows
  <2> HIDE DEF old, now
  <2>3. IsFiniteSet(now)
    BY <2>1, <2>2, FS_Subset
  <2> QED BY <2>3 DEF now
<1>10. Cost[l] \in Nat /\ \A t \in Ticket : sends'[t].charged \in Nat
  BY <1>1, <1>4, SendColumns, ReceiptAssumption DEF ReceiptsInv, ReceiptAssumption
<1>11. ASSUME NEW w \in Window PROVE Used(w)' <= Budget[w]
  <2> DEFINE S == Counts(w)'
             f == Charges'
             R == Counts(w)
  <2>1. /\ Used(w) = SumFunctionOnSet(Charges, R) /\ IsFiniteSet(R) /\ Natural(Charges, R)
        /\ Used(w) \in Nat /\ Budget[w] \in Nat /\ Span[w] \in Nat \ {0}
    BY <1>1, UsedSums
  <2>2. Used(w) + Cost[l] <= Budget[w]
    BY DEF ReserveSend, Affordable
  <2>3. v \in S /\ S \ {v} = R
    <3>1. 0 < Span[w]
      BY <2>1
    <3>2. v \notin R
      BY <1>3 DEF Counts
    <3>3. v \in S
      BY <1>3, <1>4, <1>6, <3>1 DEF Counts
    <3>4. \A t \in Ticket \ {v} : t \in S <=> t \in R
      BY <1>7 DEF Counts
    <3>5. S \subseteq Ticket /\ R \subseteq Ticket
      BY DEF Counts
    <3> HIDE DEF S, R
    <3> QED BY <3>2, <3>3, <3>4, <3>5
  <2>4. Natural(f, S) /\ Natural(f, R) /\ f[v] = Cost[l] /\ \A t \in R : f[t] <= Charges[t]
    <3>1. \A t \in Ticket : f[t] = sends'[t].charged /\ Charges[t] = sends[t].charged
      BY DEF Charges
    <3>2. S \subseteq Ticket /\ R \subseteq Ticket
      BY DEF Counts
    <3> HIDE DEF S, R, f
    <3>3. Natural(f, S) /\ Natural(f, R) /\ f[v] = Cost[l]
      BY <1>3, <1>4, <1>6, <1>10, <3>1, <3>2 DEF Natural
    <3>4. ASSUME NEW t \in R PROVE f[t] <= Charges[t]
      <4>1. t \in Ticket /\ t # v
        BY <2>3, <3>2
      <4>2. f[t] = Charges[t] /\ f[t] \in Nat
        BY <1>7, <1>10, <3>1, <4>1
      <4> QED BY <4>2
    <3> QED BY <3>3, <3>4
  <2>5. Used(w)' = SumFunctionOnSet(f, S)
    BY DEF Used, Charges, Counts
  <2>6. IsFiniteSet(S)
    <3>1. IsFiniteSet(R \cup {v}) /\ S \subseteq R \cup {v}
      BY <2>1, <2>3, FS_AddElement
    <3> HIDE DEF S, R
    <3> QED BY <3>1, FS_Subset
  <2> HIDE DEF S, f, R
  <2>7. SumFunctionOnSet(f, S) = SumFunctionOnSet(f, R) + Cost[l]
    BY <2>3, <2>4, <2>6, SumWithout
  <2>8. SumFunctionOnSet(f, R) <= Used(w) /\ SumFunctionOnSet(f, R) \in Nat
    BY <2>1, <2>4, SumGrows, SumNatural
  <2> QED BY <1>10, <2>1, <2>2, <2>5, <2>7, <2>8
<1>12. \A t \in Ticket : /\ sends'[t].charged = sends[t].charged \/ sends[t].status = "absent"
                         /\ sends'[t].status = "absent" => sends[t].status = "absent"
  BY <1>3, <1>4, <1>6, <1>7
<1> QED BY <1>8, <1>9, <1>11, <1>12 DEF WithinWindows

\* An open send has no outcome yet.
LEMMA OpenOwes ==
  ASSUME TableInv, NEW t \in Ticket, Open(t)
  PROVE  sends[t].status \in {"pending", "received"}
<1>1. /\ t = Last(Of(t)) /\ Of(t) \in Receipt /\ receipts[Of(t)].status \in {"pending", "received"} /\ ReceiptsInv
  BY SendNames, LastOrSuperseded DEF Open, Of, TableInv
<1> QED BY <1>1, LastSend

\* The outcome of an open send reserves nothing, and leaves other charges alone.
LEMMA FinishEases ==
  ASSUME TableInv, NEW t \in Ticket, NEW status \in Status \ {"absent"}, NEW error, NEW charge \in Nat,
         Finish(t, status, error, charge), charge <= sends[t].charged,
         status = "unknown" => charge = sends[t].charged,
         status \in {"completed", "failed", "unknown"}
  PROVE  Eases /\ sends'[t].charged = charge /\ \A u \in Ticket \ {t} : sends'[u] = sends[u]
<1>1. sends \in [Ticket -> SendRow] /\ sends[t].status \in {"pending", "received"}
  BY OpenOwes DEF TableInv, ReceiptsInv, Finish
<1>2. sends' = [sends EXCEPT ![t].status = status, ![t].charged = charge]
  BY DEF Finish
<1>3. /\ \A u \in Ticket \ {t} : sends'[u] = sends[u]
      /\ sends'[t].status = status /\ sends'[t].charged = charge /\ sends'[t].age = sends[t].age
  BY <1>1, <1>2 DEF SendRow
<1>4. \A u \in Ticket : sends[u].charged \in Nat /\ sends[u].age \in Nat
  BY <1>1, SendColumns, ReceiptAssumption DEF ReceiptAssumption
<1>5. Eases
  <2> SUFFICES ASSUME NEW u \in Ticket
               PROVE  /\ sends'[u].status = "absent" <=> sends[u].status = "absent"
                      /\ sends'[u].charged <= sends[u].charged /\ sends[u].age <= sends'[u].age
                      /\ sends'[u].status \in Owing => sends[u].status \in Owing /\ sends'[u].charged = sends[u].charged
    BY DEF Eases
  <2>1. CASE u = t
    BY <1>1, <1>3, <1>4, <2>1 DEF Owing
  <2>2. CASE u # t
    BY <1>3, <1>4, <2>2
  <2> QED BY <2>1, <2>2
<1> QED BY <1>3, <1>5

\* The answer of an open send is stored with its charge as it is.
LEMMA ReceiveEases ==
  ASSUME TableInv, NEW t \in Ticket, NEW answer, Receive(t, answer)
  PROVE  Eases /\ \A u \in Ticket : sends'[u].charged = sends[u].charged
<1>1. sends \in [Ticket -> SendRow] /\ sends[t].status \in {"pending", "received"}
  BY OpenOwes DEF TableInv, ReceiptsInv, Receive, Open
<1>2. sends' = [sends EXCEPT ![t].status = "received", ![t].raw = answer]
  BY DEF Receive
<1>3. /\ \A u \in Ticket \ {t} : sends'[u] = sends[u]
      /\ sends'[t].status = "received" /\ sends'[t].charged = sends[t].charged /\ sends'[t].age = sends[t].age
  BY <1>1, <1>2 DEF SendRow
<1>4. \A u \in Ticket : sends[u].charged \in Nat /\ sends[u].age \in Nat
  BY <1>1, SendColumns, ReceiptAssumption DEF ReceiptAssumption
<1> QED BY <1>1, <1>3, <1>4 DEF Eases, Owing

\* Pruning and time reserve nothing.
LEMMA HousekeepingEases ==
  ASSUME TableInv, (\E t \in Ticket : PruneRaw(t)) \/ (\E r \in Receipt : PruneResult(r)) \/ Tick
  PROVE  Eases /\ \A t \in Ticket : sends'[t].charged = sends[t].charged
<1>1. Ages /\ sends \in [Ticket -> SendRow]
  BY HousekeepingAges DEF TableInv, ReceiptsInv
<1>2. \A t \in Ticket : sends[t].charged \in Nat /\ sends[t].age \in 0..RetainTicks /\ RetainTicks \in Nat
  BY <1>1, SendColumns, ReceiptAssumption DEF ReceiptAssumption
<1>3. ASSUME NEW t \in Ticket PROVE sends'[t].age = sends[t].age \/ sends'[t].age = sends[t].age + 1
  <2>1. ASSUME NEW u \in Ticket, PruneRaw(u) PROVE sends'[t].age = sends[t].age
    BY <1>1, <2>1 DEF PruneRaw, SendRow
  <2>2. ASSUME NEW r \in Receipt, PruneResult(r) PROVE sends'[t].age = sends[t].age
    BY <2>2 DEF PruneResult
  <2>3. CASE Tick
    <3>1. sends'[t] = IF sends[t].status = "absent" THEN sends[t] ELSE [sends[t] EXCEPT !.age = Older(@)]
      BY <2>3 DEF Tick
    <3> QED BY <1>1, <3>1 DEF SendRow, Older
  <2> QED BY <2>1, <2>2, <2>3
<1> QED BY <1>1, <1>2, <1>3 DEF Ages, Eases

\* A step that bills nothing and lowers no charge of a send that was made.
LEMMA SameBills ==
  ASSUME ReceiptsInv', BilledCovered, billed' = billed,
         \A t \in Ticket : /\ sends'[t].charged = sends[t].charged \/ sends[t].status = "absent"
                           /\ sends'[t].status = "absent" => sends[t].status = "absent",
         \A d \in Caller : call'[d].pc = "send" => billed[call'[d].ticket] = 0
  PROVE  BilledCovered'
<1>1. \A t \in Ticket : sends'[t].charged \in Nat
  BY SendColumns DEF ReceiptsInv
<1> QED BY <1>1 DEF BilledCovered

\* Only a granted reservation makes a call send.
LEMMA OnlyGrantsSend ==
  ASSUME PaidInv, NEW c \in Caller, NEW d \in Caller,
         \/ Begin(c) \/ ReserveAnswers(c) \/ ReserveFindsAnswer(c) \/ LoadAnswer(c) \/ ProviderAnswers(c)
         \/ SendFails(c) \/ CancelSend(c) \/ StoreUnknown(c) \/ StoreAnswer(c) \/ SettleAnswer(c) \/ CutOff(c)
  PROVE  /\ call'[d].pc = "send" => d # c /\ call'[d] = call[d]
<1>1. call \in [Caller -> CallState] /\ call[c] \in CallState
  BY CallFacts
<1>2. SUFFICES \E x : call' = [call EXCEPT ![c] = x] /\ x.pc # "send"
  BY <1>1
<1>3. ASSUME Return(c) \/ TryAgain(c) PROVE \E x : call' = [call EXCEPT ![c] = x] /\ x.pc # "send"
  BY <1>1, <1>3, ReturnForm DEF Sends
<1>4. ASSUME NEW label \in PC, Goto(c, label), label # "send"
      PROVE  \E x : call' = [call EXCEPT ![c] = x] /\ x.pc # "send"
  <2> DEFINE x == [call[c] EXCEPT !.pc = label]
  <2>1. call' = [call EXCEPT ![c] = x] /\ x.pc = label
    BY <1>1, <1>4 DEF Goto, CallState
  <2> HIDE DEF x
  <2> QED BY <1>4, <2>1
<1>5. CASE Begin(c)
  <2>1. PICK l \in Logical, key \in RetryKey \cup {Null} :
          call' = [call EXCEPT ![c] = [call[c] EXCEPT !.pc = "reserve", !.logical = l, !.key = key]]
    BY <1>5 DEF Begin
  <2> DEFINE x == [call[c] EXCEPT !.pc = "reserve", !.logical = l, !.key = key]
  <2>2. call' = [call EXCEPT ![c] = x] /\ x.pc = "reserve"
    BY <1>1, <2>1 DEF CallState
  <2> HIDE DEF x
  <2> QED BY <2>2
<1>6. CASE ReserveFindsAnswer(c)
  <2>1. PICK t : Hold(c, "load", t)
    BY <1>6 DEF ReserveFindsAnswer
  <2> DEFINE x == Holding(call[c], "load", t, call[c].again /\ t[3] < MaxSends)
  <2>2. call' = [call EXCEPT ![c] = x]
    BY <2>1, HoldForm
  <2>3. x.pc = "load"
    BY <1>1 DEF Holding, CallState
  <2> HIDE DEF x
  <2> QED BY <2>2, <2>3
<1>7. CASE LoadAnswer(c)
  <2> DEFINE x == [call[c] EXCEPT !.pc = "settle", !.answer = sends[call[c].ticket].raw]
  <2>1. CASE ~Return(c)
    <3>1. call' = [call EXCEPT ![c].pc = "settle", ![c].answer = sends[call[c].ticket].raw]
      BY <1>7, <2>1 DEF LoadAnswer
    <3>2. call' = [call EXCEPT ![c] = x] /\ x.pc = "settle"
      BY <1>1, <3>1 DEF CallState
    <3> HIDE DEF x
    <3> QED BY <3>2
  <2> QED BY <1>3, <2>1
<1>8. CASE ProviderAnswers(c)
  <2>1. PICK a \in Answer : call' = [call EXCEPT ![c].pc = "receive", ![c].answer = a]
    BY <1>8 DEF ProviderAnswers
  <2> DEFINE x == [call[c] EXCEPT !.pc = "receive", !.answer = a]
  <2>2. call' = [call EXCEPT ![c] = x] /\ x.pc = "receive"
    BY <1>1, <2>1 DEF CallState
  <2> HIDE DEF x
  <2> QED BY <2>2
<1>9. CASE CancelSend(c)
  <2> DEFINE x == [call[c] EXCEPT !.pc = "unknown", !.again = FALSE, !.key = Null]
  <2>1. call' = [call EXCEPT ![c].pc = "unknown", ![c].again = FALSE, ![c].key = Null]
    BY <1>9 DEF CancelSend
  <2>2. call' = [call EXCEPT ![c] = x] /\ x.pc = "unknown"
    BY <1>1, <2>1 DEF CallState
  <2> HIDE DEF x
  <2> QED BY <2>2
<1>10. CASE SendFails(c)
  BY <1>4, <1>10 DEF SendFails, PC
<1>11. CASE StoreAnswer(c)
  BY <1>3, <1>4, <1>11 DEF StoreAnswer, PC
<1>12. CASE ReserveAnswers(c) \/ StoreUnknown(c) \/ SettleAnswer(c) \/ CutOff(c)
  BY <1>3, <1>12 DEF ReserveAnswers, StoreUnknown, SettleAnswer, CutOff
<1> QED BY <1>5, <1>6, <1>7, <1>8, <1>9, <1>10, <1>11, <1>12, <1>3

\* The provider bills a send at most what was reserved for it.
LEMMA ContactBills ==
  ASSUME PaidInv, BudgetInv, NEW c \in Caller, At(c, "send"), Contact(call[c].ticket), UNCHANGED tableVars,
         \A d \in Caller : call'[d].pc = "send" => d # c /\ call'[d] = call[d]
  PROVE  BudgetInv'
<1> DEFINE t == call[c].ticket
<1>1. t \in Ticket /\ SendOpen(sends[t]) /\ OneSender /\ Sends(call[c])
  BY CallFacts DEF At, Fine, Sends, CallInv
<1>2. billed \in [Ticket -> Nat] /\ billed[t] = 0 /\ sends[t].charged = Cost[t[1]] /\ Cost[t[1]] \in Nat
  <2>1. t[1] \in Logical
    BY <1>1 DEF Ticket
  <2> QED BY <1>1, <2>1, ReceiptAssumption
          DEF At, BudgetInv, BilledCovered, WithinWindows, SendOpen, Owing, ReceiptAssumption
<1>3. billed' = [billed EXCEPT ![t] = @ + Cost[t[1]]] /\ sends' = sends
  BY DEF Contact, tableVars
<1>4. \A d \in Caller : call'[d].pc = "send" => call[d].pc = "send" /\ call'[d].ticket = call[d].ticket /\ call[d].ticket # t
  BY <1>1 DEF OneSender, Sends
<1>5. \A d \in Caller : call[d].pc = "send" => call[d].ticket \in Ticket
  BY CallFacts DEF Fine, Sends
<1> HIDE DEF t
<1>6. billed' \in [Ticket -> Nat] /\ billed'[t] = sends'[t].charged /\ \A u \in Ticket \ {t} : billed'[u] = billed[u]
  BY <1>1, <1>2, <1>3
<1>7. BilledCovered'
  <2>1. \A u \in Ticket : /\ billed'[u] <= sends'[u].charged
                          /\ sends'[u].status = "absent" => billed'[u] = 0
    BY <1>1, <1>2, <1>3, <1>6 DEF BudgetInv, BilledCovered, SendOpen
  <2>2. \A d \in Caller : call'[d].pc = "send" => billed'[call'[d].ticket] = 0
    BY <1>4, <1>5, <1>6 DEF BudgetInv, BilledCovered
  <2> QED BY <1>6, <2>1, <2>2 DEF BilledCovered
<1>8. WithinWindows'
  BY <1>3 DEF BudgetInv, WithinWindows, Used
<1> QED BY <1>7, <1>8 DEF BudgetInv

\* An answer settles its send with what it cost.
LEMMA SettleBudget ==
  ASSUME PaidInv, PaidInv', BudgetInv, NEW c \in Caller, SettleAnswer(c)
  PROVE  BudgetInv'
<1> DEFINE t == call[c].ticket
<1>1. /\ ReceiptsInv /\ ReceiptsInv' /\ TableInv /\ t \in Ticket /\ sends[t] \in SendRow /\ SendAnswered(sends[t])
  BY CallFacts DEF SettleAnswer, At, Fine, Carries, PaidInv, TableInv, ReceiptsInv
<1>2. /\ t[1] \in Logical /\ Cost[t[1]] \in Nat /\ sends[t].charged \in Nat
      /\ WithinWindows /\ BilledCovered
  BY <1>1, SendColumns, ReceiptAssumption DEF Ticket, BudgetInv, ReceiptAssumption
<1>3. \A d \in Caller : call'[d].pc = "send" =>
        /\ call[d].pc = "send" /\ call'[d].ticket = call[d].ticket
        /\ call[d].ticket \in Ticket /\ call[d].ticket # t /\ billed[call[d].ticket] = 0
  <2> SUFFICES ASSUME NEW d \in Caller, call'[d].pc = "send"
               PROVE  /\ call[d].pc = "send" /\ call'[d].ticket = call[d].ticket
                      /\ call[d].ticket \in Ticket /\ call[d].ticket # t /\ billed[call[d].ticket] = 0
    OBVIOUS
  <2>1. call'[d] = call[d] /\ Fine(call[d], sends, contacts)
    BY OnlyGrantsSend, CallFacts
  <2>2. call[d].ticket \in Ticket /\ SendOpen(sends[call[d].ticket])
    BY <2>1 DEF Fine, Sends
  <2> QED BY <1>1, <1>2, <2>1, <2>2 DEF SendOpen, SendAnswered, BilledCovered
<1>4. ASSUME NEW amount \in 0..Cost[t[1]], Finish(t, "completed", Null, amount), billed' = [billed EXCEPT ![t] = amount]
      PROVE  BudgetInv'
  <2>1. sends[t].charged = Cost[t[1]]
    BY <1>1, <1>2, <1>4, OpenOwes DEF WithinWindows, Owing, Finish
  <2>2. amount \in Nat /\ amount <= sends[t].charged
    BY <1>2, <2>1
  <2>3. Eases /\ sends'[t].charged = amount /\ \A u \in Ticket \ {t} : sends'[u] = sends[u]
    <3> HIDE DEF t
    <3> QED BY <1>1, <1>4, <2>2, FinishEases DEF Status
  <2>4. billed' \in [Ticket -> Nat] /\ billed'[t] = amount /\ \A u \in Ticket \ {t} : billed'[u] = billed[u]
    BY <1>1, <1>2, <1>4, <2>2 DEF BilledCovered
  <2> HIDE DEF t
  <2>5. \A u \in Ticket : billed'[u] <= sends'[u].charged /\ (sends'[u].status = "absent" => billed'[u] = 0)
    <3> SUFFICES ASSUME NEW u \in Ticket
                 PROVE  billed'[u] <= sends'[u].charged /\ (sends'[u].status = "absent" => billed'[u] = 0)
      OBVIOUS
    <3>1. CASE u = t
      <4>1. sends'[t].status # "absent"
        BY <1>1, <2>3 DEF Eases, SendAnswered
      <4> QED BY <2>2, <2>3, <2>4, <3>1, <4>1
    <3>2. CASE u # t
      BY <1>2, <2>3, <2>4, <3>2 DEF BilledCovered
    <3> QED BY <3>1, <3>2
  <2>6. BilledCovered'
    BY <1>3, <2>4, <2>5 DEF BilledCovered
  <2> QED BY <1>1, <1>2, <2>3, <2>6, EasesBudget DEF BudgetInv
<1>5. ASSUME NEW error, Finish(t, "failed", error, sends[t].charged), UNCHANGED billed
      PROVE  BudgetInv'
  <2>1. Eases /\ sends'[t].charged = sends[t].charged /\ \A u \in Ticket \ {t} : sends'[u] = sends[u]
    <3>1. sends[t].charged <= sends[t].charged
      BY <1>2
    <3> HIDE DEF t
    <3> QED BY <1>1, <1>2, <1>5, <3>1, FinishEases DEF Status
  <2> HIDE DEF t
  <2>2. BilledCovered'
    BY <1>1, <1>2, <1>3, <1>5, <2>1, SameBills DEF Eases
  <2> QED BY <1>1, <1>2, <2>1, <2>2, EasesBudget DEF BudgetInv
<1>6. CASE UNCHANGED <<tableVars, billed>>
  <2>1. sends' = sends
    BY <1>6 DEF tableVars
  <2> HIDE DEF t
  <2>2. BilledCovered'
    BY <1>1, <1>2, <1>3, <1>6, <2>1, SameBills
  <2> QED BY <1>2, <2>1, <2>2 DEF BudgetInv, WithinWindows, Used
<1> QED BY <1>4, <1>5, <1>6 DEF SettleAnswer, SettledAs

\* Every step keeps the budget.
LEMMA BudgetStep ==
  ASSUME PaidInv, BudgetInv, [Next]_vars
  PROVE  BudgetInv'
<1>1. PaidInv' /\ ReceiptsInv /\ ReceiptsInv' /\ TableInv /\ TableInv' /\ WithinWindows /\ BilledCovered
  BY StepKeeps DEF Kept, PaidInv, TableInv, BudgetInv
<1>2. ASSUME Eases, billed' = billed, \A t \in Ticket : sends'[t].charged = sends[t].charged,
             \A d \in Caller : call'[d].pc = "send" => call'[d] = call[d]
      PROVE  BudgetInv'
  <2>1. WithinWindows'
    BY <1>1, <1>2, EasesBudget
  <2>2. BilledCovered'
    <3>1. \A d \in Caller : call'[d].pc = "send" => billed[call'[d].ticket] = 0
      BY <1>1, <1>2 DEF BilledCovered
    <3> QED BY <1>1, <1>2, <3>1, SameBills DEF Eases
  <2> QED BY <2>1, <2>2 DEF BudgetInv
<1>3. sends' = sends => Eases
  <2>1. \A t \in Ticket : sends[t].charged \in Nat /\ sends[t].age \in Nat
    BY <1>1, SendColumns, ReceiptAssumption DEF ReceiptsInv, ReceiptAssumption
  <2> QED BY <2>1 DEF Eases
<1>4. CASE UNCHANGED vars
  BY <1>2, <1>3, <1>4 DEF vars, tableVars
<1>5. CASE Housekeeping
  BY <1>1, <1>2, <1>5, HousekeepingEases DEF Housekeeping, history
<1>6. ASSUME NEW c \in Caller, ReserveGrants(c) PROVE BudgetInv'
  <2> DEFINE l == call[c].logical
             key == call[c].key
             v == NewTicket(l, key)
             x == Holding(call[c], "send", v, call[c].again /\ v[3] < MaxSends)
  <2>1. ReserveSend(l, key) /\ Asked(l, key) /\ billed' = billed /\ Hold(c, "send", v) /\ SendsOK
    BY <1>6, CallFacts DEF ReserveGrants, history
  <2>2. call' = [call EXCEPT ![c] = x] /\ call \in [Caller -> CallState] /\ x.ticket = v
    <3>1. x.ticket = v
      BY CallFacts DEF Holding, CallState
    <3> QED BY <2>1, <3>1, HoldForm, CallFacts
  <2> HIDE DEF l, key, x
  <2>3. /\ WithinWindows'
        /\ \A t \in Ticket : sends'[t].charged = sends[t].charged \/ sends[t].status = "absent"
        /\ \A t \in Ticket : sends'[t].status = "absent" => sends[t].status = "absent"
    BY <1>1, <2>1, GrantBudget
  <2>4. v \in Ticket /\ sends[v].status = "absent"
    <3>1. PICK r, u, row, new : Grants(l, Target(l, key), key, r, u, row, new) /\ u = v /\ Bind(key, Target(l, key))
      BY <1>1, <2>1, GrantForm
    <3> QED BY <1>1, <2>1, <3>1, GrantKeeps
  <2> HIDE DEF v
  <2>5. \A d \in Caller : call'[d].pc = "send" => billed[call'[d].ticket] = 0
    BY <1>1, <2>2, <2>4 DEF BilledCovered
  <2>6. BilledCovered'
    BY <1>1, <2>1, <2>3, <2>5, SameBills
  <2> QED BY <2>3, <2>6 DEF BudgetInv
<1>7. ASSUME NEW c \in Caller,
             \/ Begin(c) \/ ReserveAnswers(c) \/ ReserveFindsAnswer(c) \/ LoadAnswer(c) \/ ProviderAnswers(c)
             \/ SendFails(c) \/ CancelSend(c) \/ StoreUnknown(c) \/ StoreAnswer(c) \/ SettleAnswer(c) \/ CutOff(c)
      PROVE  BudgetInv'
  <2>1. \A d \in Caller : call'[d].pc = "send" => d # c /\ call'[d] = call[d]
    BY <1>7, OnlyGrantsSend
  <2>2. CASE Begin(c) \/ LoadAnswer(c)
    BY <1>2, <1>3, <2>1, <2>2 DEF Begin, LoadAnswer, history, tableVars
  <2>3. CASE ReserveAnswers(c) \/ ReserveFindsAnswer(c)
    BY <1>1, <1>2, <2>1, <2>3, RefusalEases DEF ReserveAnswers, ReserveFindsAnswer, history
  <2>4. CASE ProviderAnswers(c) \/ SendFails(c) \/ CancelSend(c)
    BY <2>1, <2>4, ContactBills DEF ProviderAnswers, SendFails, CancelSend
  <2>5. CASE StoreUnknown(c)
    <3> DEFINE t == call[c].ticket
    <3>1. t \in Ticket /\ sends[t] \in SendRow /\ billed' = billed
      BY <1>1, <2>5, CallFacts DEF StoreUnknown, At, Fine, Sends, history, ReceiptsInv
    <3>2. sends[t].charged \in Nat /\ sends[t].charged <= sends[t].charged
      BY <3>1, SendColumns
    <3> HIDE DEF t
    <3>3. CASE Finish(t, "unknown", Null, sends[t].charged)
      <4>1. Eases /\ \A u \in Ticket : sends'[u].charged = sends[u].charged
        BY <1>1, <3>1, <3>2, <3>3, FinishEases DEF Status
      <4> QED BY <1>2, <2>1, <3>1, <4>1
    <3>4. CASE UNCHANGED tableVars
      BY <1>2, <1>3, <2>1, <3>1, <3>4 DEF tableVars
    <3> QED BY <2>5, <3>3, <3>4 DEF StoreUnknown, t
  <2>6. CASE StoreAnswer(c)
    <3> DEFINE t == call[c].ticket
    <3>1. t \in Ticket /\ billed' = billed
      BY <2>6, CallFacts DEF StoreAnswer, At, Fine, Sends, history
    <3> HIDE DEF t
    <3>2. CASE Receive(t, call[c].answer)
      BY <1>1, <1>2, <2>1, <3>1, <3>2, ReceiveEases
    <3>3. CASE UNCHANGED tableVars
      BY <1>2, <1>3, <2>1, <3>1, <3>3 DEF tableVars
    <3> QED BY <2>6, <3>2, <3>3 DEF StoreAnswer, t
  <2>7. CASE SettleAnswer(c)
    BY <1>1, <2>7, SettleBudget
  <2>8. CASE CutOff(c)
    <3>1. CASE At(c, "send")
      BY <2>1, <2>8, <3>1, ContactBills DEF CutOff
    <3>2. CASE ~At(c, "send")
      BY <1>2, <1>3, <2>1, <2>8, <3>2 DEF CutOff, history, tableVars
    <3> QED BY <3>1, <3>2
  <2> QED BY <1>7, <2>2, <2>3, <2>4, <2>5, <2>6, <2>7, <2>8
<1> QED BY <1>4, <1>5, <1>6, <1>7 DEF Next

\* The tables are in order at first, and nothing is reserved.
LEMMA TableStart == TableInit => TableInv /\ WithinWindows
<1> SUFFICES ASSUME TableInit PROVE TableInv /\ WithinWindows
  OBVIOUS
<1>1. TableInv
  BY InitTables
<1>2. \A t \in Ticket : sends[t] = NoSend
  BY DEF TableInit
<1>3. {t \in Ticket : sends[t].status # "absent"} = {}
  BY <1>2 DEF NoSend
<1>4. ASSUME NEW w \in Window PROVE Used(w) <= Budget[w]
  <2>1. Counts(w) = {} /\ Natural(Charges, Counts(w))
    BY <1>2 DEF Counts, NoSend, Natural
  <2>2. Used(w) = SumFunctionOnSet(Charges, Counts(w))
    BY DEF Used, Charges, Counts
  <2>3. Used(w) = 0
    BY <2>1, <2>2, SumNatural, FS_EmptySet
  <2> QED BY <2>3, ReceiptAssumption DEF ReceiptAssumption
<1> QED BY <1>1, <1>2, <1>3, <1>4, FS_EmptySet DEF WithinWindows, NoSend, Owing

\* Nothing is reserved and nothing billed at first.
LEMMA InitBudget == Init => BudgetInv
<1> SUFFICES ASSUME Init PROVE BudgetInv
  OBVIOUS
<1>1. WithinWindows /\ \A t \in Ticket : sends[t] = NoSend
  BY TableStart DEF Init, TableInit
<1>2. \A c \in Caller : call[c].pc = "idle"
  BY InitInv, CallFacts DEF Init
<1>3. BilledCovered
  BY <1>1, <1>2 DEF Init, BilledCovered, NoSend
<1> QED BY <1>1, <1>3 DEF BudgetInv

-----------------------------------------------------------------------------
(* The tables under any callers of their functions.                          *)

\* The charge of a send never rises: what a reservation took, its outcome may lower.
NoChargeRises ==
  \A t \in Ticket : sends[t].status # "absent" =>
    sends'[t].status # "absent" /\ sends'[t].charged <= sends[t].charged

\* What a step of TableSpec keeps.
TablesKeep == TableInv' /\ WithinWindows' /\ Fenced /\ NoChargeRises

\* A step that reserves nothing, and settles only what is open.
LEMMA EasedTables ==
  ASSUME TableInv, WithinWindows, TableInv', Fenced, Eases
  PROVE  TablesKeep
<1>1. WithinWindows'
  BY EasesBudget DEF TableInv
<1> QED BY <1>1 DEF TablesKeep, NoChargeRises, Eases

\* Time, pruning, and nothing at all.
LEMMA AgedTables ==
  ASSUME TableInv, WithinWindows,
         (\E t \in Ticket : PruneRaw(t)) \/ (\E r \in Receipt : PruneResult(r)) \/ Tick
  PROVE  TablesKeep
<1>1. Ages /\ Eases
  BY HousekeepingAges, HousekeepingEases
<1>2. TableInv' /\ Fenced
  BY <1>1, AgeKeeps DEF Ages, Fenced
<1> QED BY <1>1, <1>2, EasedTables

\* A reservation, whatever it answers.
LEMMA ReserveTables ==
  ASSUME TableInv, WithinWindows, NEW l, NEW key, Asked(l, key), Reserve(l, key)
  PROVE  TablesKeep
<1>1. CASE ReserveCached(l, key) \/ ReserveBusy(l, key) \/ ReservePaused(l, key) \/ ReserveOverBudget(l, key)
  <2>1. TableInv' /\ Fenced
    BY <1>1, RefusalKeeps
  <2>2. Eases
    BY <1>1, RefusalEases DEF TableInv
  <2> QED BY <2>1, <2>2, EasedTables
<1>2. CASE ReserveSend(l, key)
  <2>1. TableInv' /\ Fenced
    <3>1. PICK r, v, row, new :
            Grants(l, Target(l, key), key, r, v, row, new) /\ v = NewTicket(l, key) /\ Bind(key, Target(l, key))
      BY <1>2, GrantForm
    <3> QED BY <3>1, GrantKeeps
  <2>2. /\ WithinWindows'
        /\ \A t \in Ticket : sends'[t].charged = sends[t].charged \/ sends[t].status = "absent"
        /\ \A t \in Ticket : sends'[t].status = "absent" => sends[t].status = "absent"
    BY <1>2, <2>1, GrantBudget
  <2>3. \A t \in Ticket : sends[t].charged \in Nat
    BY SendColumns DEF TableInv, ReceiptsInv
  <2> QED BY <2>1, <2>2, <2>3 DEF TablesKeep, NoChargeRises
<1> QED BY <1>1, <1>2 DEF Reserve

\* receive_ai_response: an answer of an open send, also one that was given up.
LEMMA ReceiveTables ==
  ASSUME TableInv, WithinWindows, NEW t \in Ticket, NEW answer \in Answer, Receive(t, answer)
  PROVE  TablesKeep
<1>1. TableInv' /\ Fenced
  BY ReceiveForm, OutcomeKeeps DEF Outcome
<1>2. Eases
  BY ReceiveEases
<1> QED BY <1>1, <1>2, EasedTables

\* finish_ai_request, with any outcome and any amount up to the price.
LEMMA SettleTables ==
  ASSUME TableInv, WithinWindows, NEW t \in Ticket, Settle(t)
  PROVE  TablesKeep
<1>1. PICK status \in {"completed", "failed", "unknown"}, error \in Error \cup {Null}, charge \in 0..Cost[t[1]] :
        /\ Finish(t, status, error, charge)
        /\ status = "failed" => error \in Error
        /\ status # "completed" => charge = sends[t].charged
  <2>1. Open(t)
    BY DEF Settle, Finish
  <2>2. sends[t].charged = Cost[t[1]] /\ Cost[t[1]] \in Nat
    <3>1. sends[t].status \in Owing
      BY <2>1, OpenOwes DEF Owing
    <3>2. t[1] \in Logical
      BY DEF Ticket
    <3> QED BY <3>1, <3>2, ReceiptAssumption DEF WithinWindows, ReceiptAssumption
  <2>3. sends[t].charged \in 0..Cost[t[1]]
    BY <2>2
  <2>4. CASE \E charge \in 0..Cost[t[1]] : Finish(t, "completed", Null, charge)
    BY <2>4
  <2>5. CASE \E error \in Error : Finish(t, "failed", error, sends[t].charged)
    BY <2>3, <2>5
  <2>6. CASE Finish(t, "unknown", Null, sends[t].charged)
    BY <2>3, <2>6
  <2> QED BY <2>4, <2>5, <2>6 DEF Settle
<1>2. charge \in Nat /\ charge <= sends[t].charged
  <2>1. sends[t].status \in Owing
    BY <1>1, OpenOwes DEF Finish, Owing
  <2>2. sends[t].charged = Cost[t[1]] /\ t[1] \in Logical
    BY <2>1 DEF WithinWindows, Ticket
  <2> QED BY <2>2, ReceiptAssumption DEF ReceiptAssumption
<1>3. TableInv' /\ Fenced
  <2>1. PICK row, send : Settles(t, row, send)
    BY <1>1, <1>2, FinishSettles
  <2> QED BY <2>1, OutcomeKeeps
<1>4. Eases
  BY <1>1, <1>2, FinishEases DEF Status
<1> QED BY <1>3, <1>4, EasedTables

\* Every step of the functions, from whomever.
LEMMA TableStep ==
  ASSUME TableInv, WithinWindows, [TableNext]_tableVars
  PROVE  TablesKeep
<1>1. ASSUME NEW l \in Logical, Reserve(l, Null) PROVE TablesKeep
  BY <1>1, ReserveTables DEF Asked
<1>2. ASSUME NEW key \in RetryKey, Reserve(RetryFor[key], key) PROVE TablesKeep
  BY <1>2, ReserveTables, ReceiptAssumption DEF Asked, ReceiptAssumption
<1>3. CASE UNCHANGED tableVars
  <2>1. Ages /\ Eases
    <3>1. \A t \in Ticket : sends[t].charged \in Nat /\ sends[t].age \in Nat
      BY SendColumns, ReceiptAssumption DEF TableInv, ReceiptsInv, ReceiptAssumption
    <3> QED BY <1>3, <3>1 DEF Ages, Eases, tableVars, TableInv, ReceiptsInv
  <2>2. TableInv' /\ Fenced
    BY <2>1, AgeKeeps DEF Ages, Fenced
  <2> QED BY <2>1, <2>2, EasedTables
<1> QED BY <1>1, <1>2, <1>3, AgedTables, ReceiveTables, SettleTables DEF TableNext

\* A retry made no other receipt than the one it is bound to.
LEMMA BoundOnce ==
  ASSUME BindingsInv
  PROVE  RetryBuysOnce
<1> SUFFICES ASSUME NEW key \in RetryKey
             PROVE  Cardinality({r \in Receipt : receipts[r].by = key}) <= 1
  BY DEF RetryBuysOnce
<1> DEFINE made == {r \in Receipt : receipts[r].by = key}
           one == {<<RetryFor[key], bindings[key]>>}
<1>1. made \subseteq one
  BY DEF BindingsInv
<1>2. IsFiniteSet(one) /\ Cardinality(one) = 1
  BY FS_Singleton
<1> HIDE DEF made, one
<1>3. Cardinality(made) <= 1
  BY <1>1, <1>2, FS_Subset
<1> QED BY <1>3 DEF made

-----------------------------------------------------------------------------
(* The theorems.                                                             *)

\* The tables and the calls keep to the invariant, however calls interleave, are cut
\* off, cancelled or retried, and whenever leases end.
THEOREM PaidInvariant == Spec => []PaidInv
<1>1. PaidInv /\ [Next]_vars => PaidInv'
  BY StepKeeps DEF Kept
<1> QED BY <1>1, InitInv, PTL DEF Spec

\* The tables are well formed: receipts are numbered without gaps, and have exactly the
\* sends they count, never more than two.
THEOREM PaidTyped == Spec => []TypeOK
<1>1. PaidInv => TypeOK
  BY DEF PaidInv, TableInv, ReceiptsInv, ReceiptOK, BindingsInv, CallInv, TypeOK, Of
<1> QED BY <1>1, PaidInvariant, PTL

\* The provider is asked at most once for each reserved send, and for no other.
THEOREM EverySendOnce == Spec => []SentOnce
<1>1. PaidInv => SentOnce
  BY DEF PaidInv, CallInv
<1> QED BY <1>1, PaidInvariant, PTL

\* A second send follows only an uncertain or a busy one, a further receipt only one
\* that failed for good or whose result is gone.
THEOREM NothingIsBoughtTwice == Spec => []NothingBoughtTwice
<1>1. PaidInv => NothingBoughtTwice
  <2> SUFFICES ASSUME PaidInv PROVE NothingBoughtTwice
    OBVIOUS
  <2>1. \A r \in Receipt : r[2] < generations[r[1]] => Over(r)
    BY DEF PaidInv, TableInv, ReceiptsInv, OlderOver
  <2>2. \A t \in Ticket : SendOK(t)
    BY DEF PaidInv, CallInv, SendsOK
  <2> QED BY <2>1, <2>2 DEF NothingBoughtTwice, Over, SendOK
<1> QED BY <1>1, PaidInvariant, PTL

\* An explicit retry creates at most one receipt, however often it runs again.
THEOREM RetriesBuyOnce == Spec => []RetryBuysOnce
<1>1. PaidInv => RetryBuysOnce
  BY BoundOnce DEF PaidInv, TableInv
<1> QED BY <1>1, PaidInvariant, PTL

\* A superseded send and a receipt that is over keep their outcome and their charge,
\* whichever late call still ends.
THEOREM LateCallsAreFenced == Spec => LateCallsFenced
<1>1. PaidInv /\ [Next]_vars => Fenced
  BY StepKeeps DEF Kept
<1>2. PaidInv /\ [Next]_vars =>
        [/\ \A t \in Ticket :
              Superseded(t) =>
                sends'[t].status = sends[t].status /\ sends'[t].charged = sends[t].charged
         /\ \A r \in Receipt :
              Settled(r) /\ receipts[r].status # "received" =>
                receipts'[r].status = receipts[r].status]_vars
  BY <1>1 DEF Fenced
<1> QED BY <1>2, PaidInvariant, PTL DEF Spec, LateCallsFenced

\* What the provider bills for the sends of any window stays within its budget, however
\* many are lost, uncertain or failed: it never exceeds what is charged for them, and
\* the charges, which count from the reservation on, are compared with the budget
\* before each reservation.
THEOREM BudgetsHold == Spec => []SpendWithinBudget
<1>1. PaidInv /\ BudgetInv /\ [Next]_vars => BudgetInv'
  BY BudgetStep
<1>2. PaidInv /\ BudgetInv => SpendWithinBudget
  <2> SUFFICES ASSUME PaidInv, BudgetInv, NEW w \in Window
               PROVE  SumFunctionOnSet(billed, Counts(w)) <= Budget[w]
    BY DEF SpendWithinBudget, Counts
  <2>1. /\ Used(w) = SumFunctionOnSet(Charges, Counts(w)) /\ Used(w) \in Nat /\ IsFiniteSet(Counts(w))
        /\ Natural(Charges, Counts(w)) /\ Used(w) <= Budget[w] /\ Budget[w] \in Nat
    BY UsedSums DEF PaidInv, TableInv, BudgetInv
  <2>2. Natural(billed, Counts(w)) /\ \A t \in Counts(w) : billed[t] <= Charges[t]
    BY DEF Natural, Counts, Charges, BudgetInv, BilledCovered
  <2>3. SumFunctionOnSet(billed, Counts(w)) <= Used(w) /\ SumFunctionOnSet(billed, Counts(w)) \in Nat
    BY <2>1, <2>2, SumGrows, SumNatural
  <2> QED BY <2>1, <2>3
<1> QED BY <1>1, <1>2, InitBudget, PaidInvariant, PTL DEF Spec

\* execute_paid implements the contract of the tables: whatever its calls do, the
\* tables change only by one of their functions at a time.
THEOREM CallsKeepContract == Spec => TableContract
<1>1. Init => TableInit
  BY DEF Init
<1>2. PaidInv /\ [Next]_vars => [TableNext]_tableVars
  BY StepKeeps DEF Kept
<1> QED BY <1>1, <1>2, PaidInvariant, PTL DEF Spec, TableContract, TableSpec

\* Whoever calls the functions, in whatever order, with whatever answers, outcomes and
\* amounts up to the price: the reservations of no window exceed its budget, an
\* explicit retry makes at most one receipt, and a receipt is followed by a further
\* one only when it failed for good or its result is gone.
THEOREM TablesHoldForAnyCallers ==
  TableSpec => [](RetryBuysOnce /\ OlderOver /\ \A w \in Window : Used(w) <= Budget[w])
<1>1. TableInv /\ WithinWindows /\ [TableNext]_tableVars => (TableInv /\ WithinWindows)'
  BY TableStep DEF TablesKeep
<1>2. TableInv /\ WithinWindows => RetryBuysOnce /\ OlderOver /\ \A w \in Window : Used(w) <= Budget[w]
  BY BoundOnce DEF TableInv, ReceiptsInv, WithinWindows
<1> QED BY <1>1, <1>2, TableStart, PTL DEF TableSpec

\* Whoever calls the functions: a superseded send and a receipt that is over keep their
\* outcome, and no reservation that was made grows or goes away.
THEOREM TablesFenceAnyCallers == TableSpec => [][Fenced /\ NoChargeRises]_tableVars
<1>1. TableInv /\ WithinWindows /\ [TableNext]_tableVars => (TableInv /\ WithinWindows)'
  BY TableStep DEF TablesKeep
<1>2. TableInv /\ WithinWindows /\ [TableNext]_tableVars => [Fenced /\ NoChargeRises]_tableVars
  BY TableStep DEF TablesKeep
<1> QED BY <1>1, <1>2, TableStart, PTL DEF TableSpec

\* So what execute_paid was charged for a send is never more than it reserved for it.
THEOREM ChargesNeverRise == Spec => [][NoChargeRises]_tableVars
<1>1. (Fenced /\ NoChargeRises) => NoChargeRises
  OBVIOUS
<1>2. [Fenced /\ NoChargeRises]_tableVars => [NoChargeRises]_tableVars
  BY <1>1
<1>3. Spec => TableSpec
  BY CallsKeepContract DEF TableContract
<1> QED BY <1>2, <1>3, TablesFenceAnyCallers, PTL
=============================================================================
