------------------------- MODULE SourceReviewProofs -------------------------
(***************************************************************************)
(* Safety of source reviews, for every number of candidates, aliases,      *)
(* policies, reviews, claims and attempts.  Almost everything follows from *)
(* what a step may do to one row of source_reviews: a settled row never    *)
(* becomes unfinished again, what was answered is not asked again, and an  *)
(* opinion closes the row.                                                 *)
(***************************************************************************)
EXTENDS SourceReview, TLAPS

-----------------------------------------------------------------------------
(* The invariant.                                                            *)

PolicyRow == [version : Nat, enabled : BOOLEAN, engine : Engine, skip : BOOLEAN]
CandRow   == [status : {"pending", "held", "rejected", "approved", "imported"},
              ver : Nat, override : {None, "approve", "reject", "hold"}]

\* A review is being worked on before there is a result; then it may only wait for
\* a human, or be settled.
Working == Active \ {"awaiting_human"}

\* A row in itself: a packet that can be read has a sample, it is answered at most once,
\* on the packet it still shows, and only an answer is agreed with or overruled.
RowOK(r) ==
  /\ r \in Review /\ r.attempts <= MaxAttempts /\ r.failures <= MaxAttempts
  /\ r.fresh => r.snap # None
  /\ r.result # None => r.status \notin Working /\ r.result.of = r.snap
  /\ r.human # None => r.result # None /\ r.status \in {"accepted", "rejected", "deferred"}

TablesOK ==
  /\ policy \in PolicyRow
  /\ cand \in [Candidate -> CandRow]
  /\ feed \in [Candidate -> Admission \cup {None}]
  /\ barred \subseteq Candidate /\ due \subseteq Candidate /\ issued \in Nat
  /\ rev \in Seq(Review) /\ \A i \in Id : RowOK(rev[i])
  /\ \A p \in picks : p.by \in Worker /\ p.id \in Id
  /\ \A k \in work : k \in Granted /\ k.id \in Id

\* Of two reviews of a candidate the older is settled.
OneActive ==
  \A i, j \in Id : rev[i].cand = rev[j].cand /\ i < j => rev[i].status \notin Active
\* A candidate with a review has a newest one.
NewestExists ==
  \A i \in Id : \E n \in Id : rev[n].cand = rev[i].cand
                              /\ \A j \in Id : rev[j].cand = rev[i].cand => j <= n
\* A retry is younger than what it retries, and of the same candidate.
RetriesFollow ==
  \A i \in Id : rev[i].retryOf # 0 =>
    rev[i].retryOf \in Id /\ rev[i].retryOf < i /\ rev[rev[i].retryOf].cand = rev[i].cand

\* Who is still pending was not decided about.
PendingUndecided == \A c \in Candidate : cand[c].status = "pending" => cand[c].override = None

AdmissionsNameReviews ==
  \A c \in Candidate : feed[c] # None /\ feed[c].review # 0 => feed[c].review \in Id

ReviewInv ==
  /\ TablesOK /\ OneActive /\ NewestExists /\ RetriesFollow /\ RetriedOnce
  /\ PendingUndecided /\ HumanDecisionStands
  /\ AdmissionsNameReviews /\ AdmissionExplained

-----------------------------------------------------------------------------
(* One row.                                                                  *)

\* What any step may do to a row.
RowStep(r, s) ==
  /\ s.cand = r.cand /\ s.retryOf = r.retryOf
  /\ s.status \in Active => r.status \in Active
  /\ r.result # None => s.result = r.result /\ s.snap = r.snap
  /\ r.human # None \/ r.status = "accepted" =>
       s.human = r.human /\ s.status = r.status /\ s.result = r.result /\ s.snap = r.snap

\* What any step may do to the rows there are.
RowsTo(R) ==
  /\ R \in Seq(Review) /\ Len(R) = Len(rev)
  /\ \A i \in Id : RowOK(R[i]) /\ RowStep(rev[i], R[i])

\* One row changes as a row may, the others stay.
LEMMA OneRow ==
  ASSUME TablesOK, NEW i \in Id, NEW row, RowOK(row), RowStep(rev[i], row)
  PROVE  RowsTo([rev EXCEPT ![i] = row])
<1> DEFINE R == [rev EXCEPT ![i] = row]
<1>1. rev \in Seq(Review) /\ row \in Review /\ \A j \in Id : RowOK(rev[j])
  BY DEF TablesOK, RowOK
<1>2. /\ R \in Seq(Review) /\ Len(R) = Len(rev) /\ R[i] = row
      /\ \A j \in Id \ {i} : R[j] = rev[j]
  BY <1>1 DEF Id
<1> HIDE DEF R
<1>3. \A j \in Id : RowOK(R[j]) /\ RowStep(rev[j], R[j])
  <2> SUFFICES ASSUME NEW j \in Id PROVE RowOK(R[j]) /\ RowStep(rev[j], R[j])
    OBVIOUS
  <2>1. CASE j = i
    BY <1>2, <2>1
  <2>2. CASE j # i
    BY <1>1, <1>2, <2>2 DEF RowStep
  <2> QED BY <2>1, <2>2
<1> QED BY <1>2, <1>3 DEF RowsTo, R

\* Nothing changes.
LEMMA NoRow ==
  ASSUME TablesOK
  PROVE  RowsTo(rev)
BY DEF TablesOK, RowsTo, RowStep

\* A row is closed, or waits for a human.
Closed(r, s) == [r EXCEPT !.status = s, !.live = FALSE, !.attempts = 0, !.failures = 0]

\* What closing a row does to the table.
LEMMA StatusIs ==
  ASSUME rev \in Seq(Review), NEW i \in Id, NEW s
  PROVE  Status(i, s) = [rev EXCEPT ![i] = Closed(rev[i], s)]
<1>1. rev[i] \in Review
  BY DEF Id
<1> QED BY <1>1 DEF Status, Closed, Review

\* An unfinished row may be closed.
LEMMA ClosedRow ==
  ASSUME NEW r, RowOK(r), r.status \in Active, NEW s \in Settled \cup {"awaiting_human"}
  PROVE  /\ RowOK(Closed(r, s)) /\ RowStep(r, Closed(r, s)) /\ Closed(r, s).status = s
         /\ Closed(r, s).result = r.result /\ Closed(r, s).human = None /\ Closed(r, s).snap = r.snap
         /\ Closed(r, s).cand = r.cand
<1> DEFINE c == Closed(r, s)
<1>1. r \in Review /\ r.human = None
  BY DEF RowOK, Active
<1>0. s \in Active \cup Settled
  BY DEF Active
<1>2. /\ c \in Review /\ c.status = s /\ c.result = r.result /\ c.human = None /\ c.snap = r.snap
      /\ c.cand = r.cand /\ c.retryOf = r.retryOf /\ c.attempts = 0 /\ c.failures = 0
      /\ c.fresh = r.fresh
  BY <1>0, <1>1 DEF Closed, Review
<1> HIDE DEF c
<1>3. RowOK(c)
  BY <1>1, <1>2, ReviewAssumption DEF RowOK, ReviewAssumption, Working, Active, Settled
<1>4. RowStep(r, c)
  BY <1>1, <1>2 DEF RowStep, Active
<1> QED BY <1>2, <1>3, <1>4 DEF c

\* So the table stays well formed when one of its rows is closed.
LEMMA StatusRows ==
  ASSUME TablesOK, NEW i \in Id, rev[i].status \in Active, NEW s \in Settled \cup {"awaiting_human"}
  PROVE  RowsTo(Status(i, s))
<1>1. rev \in Seq(Review) /\ RowOK(rev[i])
  BY DEF TablesOK
<1> QED BY <1>1, StatusIs, ClosedRow, OneRow

\* The statuses by name.
LEMMA Statuses ==
  /\ "requested" \in Active \cup Settled /\ "preparing" \in Active \cup Settled
  /\ "ready" \in Active \cup Settled /\ "leased" \in Active \cup Settled
  /\ "failed" \in Active \cup Settled
BY DEF Active, Settled

\* The numbers of a row are numbers.
LEMMA RowNumbers ==
  ASSUME NEW r \in Review
  PROVE  r.attempts \in Nat /\ r.failures \in Nat /\ r.token \in Nat
BY DEF Review

\* Work on a row that has no answer yet.
LEMMA WorkRow ==
  ASSUME NEW r, RowOK(r), r.status \in Working, NEW row \in Review,
         row.attempts <= MaxAttempts, row.failures <= MaxAttempts, row.cand = r.cand,
         row.retryOf = r.retryOf, row.result = r.result, row.human = r.human,
         row.fresh => row.snap # None
  PROVE  r.result = None /\ r.human = None /\ RowOK(row) /\ RowStep(r, row)
<1>1. r.result = None /\ r.human = None /\ r.status \in Active /\ r.status # "accepted"
  BY DEF RowOK, Working, Active
<1> QED BY <1>1 DEF RowOK, RowStep

\* The end of a preparation or an evaluation that failed: given up, or to be claimed again.
LEMMA FailedRows ==
  ASSUME TablesOK, NEW i \in Id, rev[i].status \in Working, NEW last \in {"requested", "ready", "failed"}
  PROVE  RowsTo(Failed(i, last))
<1> DEFINE r == rev[i]
           given == [r EXCEPT !.status = "failed", !.live = FALSE, !.attempts = 0, !.failures = 0, !.token = 0]
           again == [r EXCEPT !.status = last, !.failures = @ + 1, !.token = 0, !.live = FALSE]
<1>0. MaxAttempts \in Nat /\ 0 <= MaxAttempts
  BY ReviewAssumption DEF ReviewAssumption
<1>1. /\ rev \in Seq(Review) /\ RowOK(r) /\ r \in Review
      /\ r.attempts <= MaxAttempts /\ r.failures <= MaxAttempts /\ (r.fresh => r.snap # None)
  BY DEF TablesOK, RowOK, Id
<1>2. CASE last = "failed" \/ r.failures + 1 >= MaxAttempts
  <2>1. Failed(i, last) = [rev EXCEPT ![i] = given]
    <3>1. Failed(i, last) = [Status(i, "failed") EXCEPT ![i].token = 0]
      BY <1>2 DEF Failed
    <3>2. Status(i, "failed") = [rev EXCEPT ![i] = Closed(r, "failed")]
      BY <1>1, StatusIs
    <3>3. [[rev EXCEPT ![i] = Closed(r, "failed")] EXCEPT ![i].token = 0]
            = [rev EXCEPT ![i] = [Closed(r, "failed") EXCEPT !.token = 0]]
      BY <1>1 DEF Id
    <3>4. [Closed(r, "failed") EXCEPT !.token = 0] = given
      BY DEF Closed
    <3> QED BY <3>1, <3>2, <3>3, <3>4
  <2>2. /\ given \in Review /\ given.attempts <= MaxAttempts /\ given.failures <= MaxAttempts
        /\ given.cand = r.cand /\ given.retryOf = r.retryOf /\ given.result = r.result
        /\ given.human = r.human /\ given.fresh = r.fresh /\ given.snap = r.snap
    BY <1>0, <1>1, Statuses DEF Review
  <2> HIDE DEF given
  <2>3. RowsTo([rev EXCEPT ![i] = given])
    BY <1>1, <2>2, WorkRow, OneRow
  <2> QED BY <2>1, <2>3
<1>3. CASE ~(last = "failed" \/ r.failures + 1 >= MaxAttempts)
  <2>1. Failed(i, last) = [rev EXCEPT ![i] = again]
    BY <1>1, <1>3 DEF Failed, Review, Id
  <2>2. /\ again \in Review /\ again.attempts <= MaxAttempts /\ again.failures <= MaxAttempts
        /\ again.cand = r.cand /\ again.retryOf = r.retryOf /\ again.result = r.result
        /\ again.human = r.human /\ again.fresh = r.fresh /\ again.snap = r.snap
    <3>1. r.failures + 1 \in Nat /\ r.failures + 1 <= MaxAttempts
      BY <1>0, <1>1, <1>3, RowNumbers
    <3>2. last \in Active \cup Settled
      BY Statuses
    <3> QED BY <1>0, <1>1, <3>1, <3>2 DEF Review
  <2> HIDE DEF again
  <2>3. RowsTo([rev EXCEPT ![i] = again])
    BY <1>1, <2>2, WorkRow, OneRow
  <2> QED BY <2>1, <2>3
<1> QED BY <1>2, <1>3

\* prepare_source_review, whatever the fetch brought.
LEMMA PrepareRows ==
  ASSUME TablesOK, NEW i \in Id, NEW t, NEW outcome \in Sample \cup {None}, PrepareSql(i, t, outcome)
  PROVE  RowsTo(rev')
<1> DEFINE r == rev[i]
           ready == [r EXCEPT !.status = "ready", !.snap = outcome, !.body = TRUE, !.fresh = TRUE,
                              !.token = 0, !.live = FALSE, !.attempts = 0]
<1>0. MaxAttempts \in Nat /\ 0 <= MaxAttempts
  BY ReviewAssumption DEF ReviewAssumption
<1>1. /\ rev \in Seq(Review) /\ RowOK(r) /\ r \in Review /\ r.failures <= MaxAttempts
      /\ r.status \in Working /\ r.status \in Active
  BY DEF TablesOK, RowOK, Id, PrepareSql, HoldsPreparation, Working, Active
<1>2. \/ rev' = Status(i, "overridden") \/ rev' = Status(i, "stale")
      \/ rev' = Failed(i, "requested")
      \/ rev' = [rev EXCEPT ![i].status = "ready", ![i].snap = outcome, ![i].body = TRUE,
                            ![i].fresh = TRUE, ![i].token = 0, ![i].live = FALSE, ![i].attempts = 0]
         /\ outcome # None
  BY DEF PrepareSql
<1>3. [rev EXCEPT ![i].status = "ready", ![i].snap = outcome, ![i].body = TRUE,
                  ![i].fresh = TRUE, ![i].token = 0, ![i].live = FALSE, ![i].attempts = 0] = [rev EXCEPT ![i] = ready]
  BY <1>1 DEF Review, Id
<1>4. /\ ready \in Review /\ ready.attempts <= MaxAttempts /\ ready.failures <= MaxAttempts
      /\ ready.cand = r.cand /\ ready.retryOf = r.retryOf /\ ready.result = r.result
      /\ ready.human = r.human /\ ready.snap = outcome
  BY <1>0, <1>1, Statuses DEF Review
<1>5. outcome # None => RowsTo([rev EXCEPT ![i] = ready])
  <2> HIDE DEF ready
  <2> QED BY <1>1, <1>4, WorkRow, OneRow
<1>6. RowsTo(Status(i, "overridden")) /\ RowsTo(Status(i, "stale"))
  BY <1>1, StatusRows DEF Settled
<1>7. RowsTo(Failed(i, "requested"))
  BY <1>1, FailedRows
<1> HIDE DEF ready
<1> QED BY <1>2, <1>3, <1>5, <1>6, <1>7

\* claim_source_review: a refusal closes the row, a grant leases it.
LEMMA ClaimRows ==
  ASSUME TablesOK, NEW by \in Worker, NEW i \in Id, NEW j \in Relocked(i),
         \/ Refusal(j, by) # None /\ rev' = Status(j, Refusal(j, by))
         \/ Refusal(j, by) = None /\ rev' = Leased(j, by)
  PROVE  RowsTo(rev')
<1> DEFINE r == rev[j]
           leased == [r EXCEPT !.status = IF by = "preparer" THEN "preparing" ELSE "leased",
                               !.token = issued + 1, !.live = TRUE, !.attempts = r.attempts + 1]
<1>0. MaxAttempts \in Nat /\ 0 <= MaxAttempts
  BY ReviewAssumption DEF ReviewAssumption
<1>1. /\ rev \in Seq(Review) /\ RowOK(r) /\ r \in Review /\ r.failures <= MaxAttempts
      /\ r.status \in Working /\ r.status \in Active /\ (r.fresh => r.snap # None) /\ issued \in Nat /\ j \in Id
  BY DEF TablesOK, RowOK, Id, Relocked, Working
<1>2. CASE Refusal(j, by) # None /\ rev' = Status(j, Refusal(j, by))
  <2>1. Refusal(j, by) \in Settled
    BY <1>2 DEF Refusal, Settled
  <2> QED BY <1>1, <1>2, <2>1, StatusRows
<1>3. CASE Refusal(j, by) = None /\ rev' = Leased(j, by) /\ r.attempts < MaxAttempts
  <2>1. rev' = [rev EXCEPT ![j] = leased]
    BY <1>1, <1>3 DEF Leased, Review, Id
  <2>2. /\ leased \in Review /\ leased.attempts <= MaxAttempts /\ leased.failures <= MaxAttempts
        /\ leased.cand = r.cand /\ leased.retryOf = r.retryOf /\ leased.result = r.result
        /\ leased.human = r.human /\ leased.fresh = r.fresh /\ leased.snap = r.snap
    <3>1. r.attempts + 1 \in Nat /\ r.attempts + 1 <= MaxAttempts /\ issued + 1 \in Nat
      BY <1>0, <1>1, <1>3, RowNumbers
    <3>2. (IF by = "preparer" THEN "preparing" ELSE "leased") \in Active \cup Settled
      BY Statuses
    <3> QED BY <1>0, <1>1, <3>1, <3>2 DEF Review
  <2> HIDE DEF leased
  <2> QED BY <1>1, <2>1, <2>2, WorkRow, OneRow
<1>4. Refusal(j, by) = None => r.attempts < MaxAttempts
  BY <1>0, <1>1, ReviewAssumption DEF Refusal, ReviewAssumption, Review
<1> QED BY <1>2, <1>3, <1>4

\* submit_source_review, on the packet that was claimed: it closes the row with its
\* result, unless the candidate or the policy has moved.
Answer(k, v) == [verdict |-> v, of |-> k.snap]
\* What the submission does to the row it answers, and to the others.
LEMMA SubmitRows ==
  ASSUME TablesOK, NEW k \in work, NEW v \in Verdict, SubmitSql(k, v)
  PROVE  /\ RowsTo(rev')
         /\ rev'[k.id].human = None /\ rev'[k.id].cand = rev[k.id].cand
         /\ SameCandidate(k.id) /\ SamePolicy(k.id) =>
              /\ rev'[k.id].status = Outcome(k.id, v) /\ rev'[k.id].result = Answer(k, v)
              /\ rev'[k.id].snap = rev[k.id].snap /\ rev[k.id].snap = k.snap
<1> DEFINE i == k.id
           r == rev[i]
           o == Outcome(i, v)
<1>1. /\ i \in Id /\ rev \in Seq(Review) /\ RowOK(r) /\ r \in Review /\ DOMAIN rev = Id
      /\ r.status \in Working /\ r.status \in Active /\ r.status # "accepted" /\ r.human = None
      /\ r.snap = k.snap /\ k.snap \in Sample
  <2>1. /\ i \in Id /\ rev \in Seq(Review) /\ RowOK(r) /\ r \in Review /\ DOMAIN rev = Id
    BY DEF TablesOK, Id
  <2>2. /\ r.status = "leased" /\ r.snap = k.snap /\ r.fresh
    BY DEF SubmitSql, HoldsLease, LeaseRuns
  <2>3. r.snap \in Sample
    <3>1. r.snap \in Sample \cup {None} /\ r.snap # None
      BY <2>1, <2>2 DEF RowOK, Review
    <3> QED BY <3>1
  <2>4. r.human = None
    BY <2>1, <2>2 DEF RowOK
  <2> QED BY <2>1, <2>2, <2>3, <2>4 DEF Working, Active
<1>2. CASE SameCandidate(i) /\ SamePolicy(i)
  <2>1. o \in {"awaiting_human", "accepted", "rejected", "deferred"}
    BY DEF Outcome, Gated
  <2>2. o \in Settled \cup {"awaiting_human"} /\ o \notin Working
    BY <2>1 DEF Settled, Working, Active
  <2> HIDE DEF o
  <2> DEFINE c == Closed(r, o)
  <2>3. /\ RowOK(c) /\ RowStep(r, c) /\ c.status = o /\ c.human = None /\ c.snap = r.snap
        /\ c.cand = r.cand /\ c \in Review
    BY <1>1, <2>2, ClosedRow DEF RowOK
  <2>4. Answer(k, v) \in [verdict : Verdict, of : Sample]
    BY <1>1 DEF Answer
  <2> HIDE DEF c
  <2> DEFINE w == [c EXCEPT !.result = Answer(k, v)]
  <2>5. /\ w \in Review /\ w.status = o /\ w.human = None /\ w.snap = r.snap /\ w.cand = r.cand
        /\ w.result = Answer(k, v) /\ w.attempts = c.attempts /\ w.failures = c.failures
        /\ w.retryOf = c.retryOf /\ w.fresh = c.fresh
    BY <2>3, <2>4 DEF Review
  <2>6. RowOK(w) /\ RowStep(r, w)
    <3>1. Answer(k, v).of = r.snap
      BY <1>1 DEF Answer
    <3>2. r.result = None
      BY <1>1 DEF RowOK
    <3> HIDE DEF w
    <3> QED BY <1>1, <2>2, <2>3, <2>5, <3>1, <3>2 DEF RowOK, RowStep
  <2>7. rev' = [rev EXCEPT ![i] = w]
    <3>1. rev' = [Status(i, o) EXCEPT ![i].result = Answer(k, v)]
      BY <1>2 DEF SubmitSql, Answer, o
    <3>2. Status(i, o) = [rev EXCEPT ![i] = c]
      BY <1>1, StatusIs DEF c
    <3> QED BY <1>1, <3>1, <3>2
  <2> HIDE DEF w
  <2>8. RowsTo(rev')
    BY <1>1, <2>6, <2>7, OneRow
  <2>9. rev'[i] = w
    BY <1>1, <2>7
  <2> QED BY <1>1, <2>5, <2>8, <2>9 DEF o
<1>3. CASE ~(SameCandidate(i) /\ SamePolicy(i))
  <2>1. PICK s \in Settled : rev' = Status(i, s)
    <3>1. "stale" \in Settled /\ "overridden" \in Settled
      BY DEF Settled
    <3> QED BY <1>3, <3>1 DEF SubmitSql
  <2>2. RowsTo(rev')
    BY <1>1, <2>1, StatusRows
  <2>3. rev'[i] = Closed(r, s)
    BY <1>1, <2>1, StatusIs
  <2> QED BY <1>1, <1>3, <2>2, <2>3, ClosedRow
<1> QED BY <1>2, <1>3

\* fail_source_review.
LEMMA FailRows ==
  ASSUME TablesOK, NEW k \in work, NEW code, FailSql(k, code)
  PROVE  RowsTo(rev')
<1> DEFINE i == k.id
           r == rev[i]
           ready == [r EXCEPT !.status = "ready", !.attempts = 0, !.token = 0, !.live = FALSE]
<1>0. MaxAttempts \in Nat /\ 0 <= MaxAttempts
  BY ReviewAssumption DEF ReviewAssumption
<1>1. /\ i \in Id /\ rev \in Seq(Review) /\ RowOK(r) /\ r \in Review /\ r.failures <= MaxAttempts
      /\ r.status \in Working /\ (r.fresh => r.snap # None)
  BY DEF TablesOK, RowOK, Id, FailSql, LeaseRuns, Working, Active
<1>2. \/ rev' = [rev EXCEPT ![i].status = "ready", ![i].attempts = 0, ![i].token = 0, ![i].live = FALSE]
      \/ rev' = Failed(i, "ready") \/ rev' = Failed(i, "failed")
  BY DEF FailSql
<1>3. [rev EXCEPT ![i].status = "ready", ![i].attempts = 0, ![i].token = 0, ![i].live = FALSE]
        = [rev EXCEPT ![i] = ready]
  BY <1>1 DEF Review, Id
<1>4. /\ ready \in Review /\ ready.attempts <= MaxAttempts /\ ready.failures <= MaxAttempts
      /\ ready.cand = r.cand /\ ready.retryOf = r.retryOf /\ ready.result = r.result
      /\ ready.human = r.human /\ ready.fresh = r.fresh /\ ready.snap = r.snap
  BY <1>0, <1>1, Statuses DEF Review
<1> HIDE DEF ready
<1>5. RowsTo([rev EXCEPT ![i] = ready])
  BY <1>1, <1>4, WorkRow, OneRow
<1>6. RowsTo(Failed(i, "ready")) /\ RowsTo(Failed(i, "failed"))
  BY <1>1, FailedRows
<1> QED BY <1>2, <1>3, <1>5, <1>6

\* judge_source_review: the opinion closes the row for good.
Opinion(i, d) == IF d = Proposed(i) THEN "agree" ELSE "disagree"
Judged(d) == CASE d = "accept" -> "accepted" [] d = "reject" -> "rejected" [] OTHER -> "deferred"
\* What a judgement does to the row it judges, and to the others.
LEMMA JudgeRows ==
  ASSUME TablesOK, NEW i \in Id, NEW d \in Decision, JudgeSql(i, d)
  PROVE  /\ RowsTo(rev')
         /\ rev'[i].status = Judged(d) /\ rev'[i].human = Opinion(i, d)
         /\ rev'[i].result = rev[i].result /\ rev'[i].cand = rev[i].cand
<1> DEFINE r == rev[i]
           row == [r EXCEPT !.human = Opinion(i, d), !.status = Judged(d)]
<1>1. /\ rev \in Seq(Review) /\ RowOK(r) /\ r \in Review /\ DOMAIN rev = Id
      /\ r.status \notin Working /\ r.status # "accepted" /\ r.human = None /\ r.result # None
  <2>1. /\ rev \in Seq(Review) /\ RowOK(r) /\ r \in Review /\ DOMAIN rev = Id
    BY DEF TablesOK, Id
  <2>2. r.status \in {"awaiting_human", "rejected", "deferred"} /\ r.human = None /\ r.result # None
    BY DEF JudgeSql, Judgeable
  <2> QED BY <2>1, <2>2 DEF Working, Active
<1>2. /\ Judged(d) \in {"accepted", "rejected", "deferred"} /\ Opinion(i, d) \in {None, "agree", "disagree"}
  BY DEF Judged, Opinion
<1>3. Judged(d) \in Active \cup Settled /\ Judged(d) \notin Active
  BY <1>2 DEF Active, Settled
<1>4. /\ row \in Review /\ row.status = Judged(d) /\ row.human = Opinion(i, d)
      /\ row.result = r.result /\ row.cand = r.cand /\ row.snap = r.snap /\ row.retryOf = r.retryOf
      /\ row.attempts = r.attempts /\ row.failures = r.failures /\ row.fresh = r.fresh
  BY <1>1, <1>2, <1>3 DEF Review
<1>5. rev' = [rev EXCEPT ![i] = row]
  BY <1>1 DEF JudgeSql, Judged, Opinion, Review
<1> HIDE DEF row
<1>6. RowOK(row) /\ RowStep(r, row)
  BY <1>1, <1>2, <1>3, <1>4 DEF RowOK, RowStep, Working
<1>7. RowsTo(rev')
  BY <1>5, <1>6, OneRow
<1> QED BY <1>1, <1>4, <1>5, <1>7

\* A snapshot that is dropped, or kept, leaves what a row says about its packet.
LEMMA DroppedRow ==
  ASSUME NEW r, RowOK(r), NEW b \in BOOLEAN
  PROVE  LET s == [r EXCEPT !.body = b] IN
         RowOK(s) /\ \A q : RowStep(q, r) => RowStep(q, s)
<1> DEFINE s == [r EXCEPT !.body = b]
<1>1. r \in Review
  BY DEF RowOK
<1>2. /\ s \in Review /\ s.status = r.status /\ s.human = r.human /\ s.result = r.result
      /\ s.cand = r.cand /\ s.snap = r.snap /\ s.retryOf = r.retryOf /\ s.fresh = r.fresh
      /\ s.attempts = r.attempts /\ s.failures = r.failures
  BY <1>1 DEF Review
<1> HIDE DEF s
<1>3. RowOK(s)
  BY <1>2 DEF RowOK
<1>4. ASSUME NEW q, RowStep(q, r) PROVE RowStep(q, s)
  BY <1>2, <1>4 DEF RowStep
<1> QED BY <1>3, <1>4 DEF s

\* prune_source_reviews: work on packets that expired or under an old policy is closed,
\* and snapshots that expired are dropped.
LEMMA PruneRows ==
  ASSUME TablesOK, PruneSql
  PROVE  RowsTo(rev')
<1>1. rev \in Seq(Review) /\ (\A i \in Id : RowOK(rev[i]) /\ rev[i] \in Review) /\ DOMAIN rev = Id
      /\ Id = 1..Len(rev) /\ Len(rev) \in Nat
  BY DEF TablesOK, Id
<1>2. ASSUME NEW i \in Id
      PROVE  RowOK(Pruned(i)) /\ RowStep(rev[i], Pruned(i))
  <2>1. CASE rev[i].status \in Working /\ Pruned(i) = Status(i, "stale")[i]
    <3>1. Pruned(i) = Closed(rev[i], "stale")
      BY <1>1, <2>1, StatusIs
    <3>2. rev[i].status \in Active /\ "stale" \in Settled
      BY <2>1 DEF Working, Settled
    <3> QED BY <1>1, <3>1, <3>2, ClosedRow DEF RowOK
  <2>2. CASE Pruned(i) = rev[i]
    BY <1>1, <2>2 DEF RowStep
  <2> QED BY <1>1, <2>1, <2>2 DEF Pruned, Working
<1>3. ASSUME NEW i \in Id
      PROVE  rev'[i] \in Review /\ RowOK(rev'[i]) /\ RowStep(rev[i], rev'[i])
  <2> DEFINE p == Pruned(i)
             b == p.body /\ ~Expired(i)
  <2>1. rev'[i] = [p EXCEPT !.body = b] /\ b \in BOOLEAN
    BY <1>1 DEF PruneSql
  <2> HIDE DEF p, b
  <2>2. RowOK(p) /\ RowStep(rev[i], p)
    BY <1>2 DEF p
  <2>3. RowOK(rev'[i]) /\ RowStep(rev[i], rev'[i])
    BY <2>1, <2>2, DroppedRow
  <2> QED BY <2>3 DEF RowOK
<1>4. rev' \in [1..Len(rev) -> Review]
  BY <1>1, <1>3 DEF PruneSql
<1>5. rev' \in Seq(Review) /\ Len(rev') = Len(rev)
  BY <1>1, <1>4
<1> QED BY <1>3, <1>5 DEF RowsTo

\* A lease or a packet expires.
LEMMA ExpiryRows ==
  ASSUME TablesOK, NEW i \in Id, LeaseExpires(i) \/ SnapshotExpires(i)
  PROVE  RowsTo(rev')
<1> DEFINE r == rev[i]
<1>1. /\ rev \in Seq(Review) /\ RowOK(r) /\ r \in Review /\ DOMAIN rev = Id
  BY DEF TablesOK, Id
<1>2. PICK row \in {[r EXCEPT !.live = FALSE], [r EXCEPT !.fresh = FALSE]} : rev' = [rev EXCEPT ![i] = row]
  BY <1>1 DEF LeaseExpires, SnapshotExpires
<1>3. /\ row \in Review /\ row.status = r.status /\ row.human = r.human
      /\ row.result = r.result /\ row.cand = r.cand /\ row.snap = r.snap /\ row.retryOf = r.retryOf
      /\ row.attempts = r.attempts /\ row.failures = r.failures /\ (row.fresh => r.fresh)
  BY <1>1, <1>2 DEF Review
<1>4. RowOK(row) /\ RowStep(r, row)
  BY <1>1, <1>3 DEF RowOK, RowStep
<1> QED BY <1>2, <1>4, OneRow

-----------------------------------------------------------------------------
(* The newest review, and a new one.                                         *)

\* The newest review of a candidate that has one.
LEMMA NewestFacts ==
  ASSUME TablesOK, NewestExists, NEW c, HasReview(c)
  PROVE  /\ Newest(c) \in Id /\ rev[Newest(c)].cand = c
         /\ \A j \in Id : rev[j].cand = c => j <= Newest(c)
<1>1. \E n \in Id : rev[n].cand = c /\ \A j \in Id : rev[j].cand = c => j <= n
  BY DEF HasReview, NewestExists
<1> QED BY <1>1 DEF Newest

\* A request closes the unfinished review it replaces and adds the new one.
LEMMA RequestRows ==
  ASSUME TablesOK, OneActive, NewestExists, NEW c \in Candidate, NEW again, NEW of, RequestSql(c, again, of)
  PROVE  \E old : /\ RowsTo(old) /\ rev' = Append(old, NewReview(c, of))
                  /\ \A i \in Id : rev[i].cand = c => old[i].status \notin Active
<1> DEFINE n == Newest(c)
           old == IF HasReview(c) /\ rev[n].status \in Active THEN Status(n, "stale") ELSE rev
<1>0. rev' = Append(old, NewReview(c, of))
  BY DEF RequestSql
<1>1. rev \in Seq(Review) /\ DOMAIN rev = Id
  BY DEF TablesOK, Id
<1>2. CASE HasReview(c) /\ rev[n].status \in Active
  <2>1. n \in Id /\ rev[n].cand = c /\ \A j \in Id : rev[j].cand = c => j <= n
    BY <1>2, NewestFacts
  <2>2. old = [rev EXCEPT ![n] = Closed(rev[n], "stale")] /\ old = Status(n, "stale")
    BY <1>1, <1>2, <2>1, StatusIs
  <2>3. RowsTo(old)
    <3>1. "stale" \in Settled
      BY DEF Settled
    <3> QED BY <1>2, <2>1, <2>2, <3>1, StatusRows
  <2> HIDE DEF old
  <2>4. ASSUME NEW i \in Id, rev[i].cand = c PROVE old[i].status \notin Active
    <3>1. CASE i = n
      <4>1. old[i] = Closed(rev[n], "stale")
        BY <1>1, <2>1, <2>2, <3>1
      <4>2. rev[n] \in Review
        BY <1>1, <2>1
      <4>3. old[i].status = "stale"
        BY <4>1, <4>2 DEF Closed, Review
      <4> QED BY <4>3 DEF Active
    <3>2. CASE i # n
      <4>1. i < n /\ old[i] = rev[i]
        BY <1>1, <2>1, <2>2, <2>4, <3>2 DEF Id
      <4> QED BY <2>1, <2>4, <4>1 DEF OneActive
    <3> QED BY <3>1, <3>2
  <2> QED BY <1>0, <2>3, <2>4
<1>3. CASE ~(HasReview(c) /\ rev[n].status \in Active)
  <2>1. old = rev /\ RowsTo(rev)
    BY <1>3, NoRow
  <2>2. ASSUME NEW i \in Id, rev[i].cand = c PROVE rev[i].status \notin Active
    <3>1. HasReview(c)
      BY <2>2 DEF HasReview
    <3>2. n \in Id /\ rev[n].cand = c /\ i <= n /\ rev[n].status \notin Active
      BY <1>3, <2>2, <3>1, NewestFacts
    <3>3. CASE i = n
      BY <3>2, <3>3
    <3>4. CASE i # n
      <4>1. i < n
        BY <3>2, <3>4 DEF Id
      <4> QED BY <2>2, <3>2, <4>1 DEF OneActive
    <3> QED BY <3>3, <3>4
  <2> HIDE DEF old
  <2> QED BY <1>0, <2>1, <2>2
<1> QED BY <1>2, <1>3

\* What the invariant says of the reviews among each other.
RowsInv ==
  /\ rev \in Seq(Review) /\ \A i \in Id : RowOK(rev[i])
  /\ OneActive /\ NewestExists /\ RetriesFollow /\ RetriedOnce

\* Rows that change as rows may keep it.
LEMMA RowsKept ==
  ASSUME RowsInv, RowsTo(rev')
  PROVE  RowsInv' /\ Id' = Id /\ \A i \in Id : RowStep(rev[i], rev'[i])
<1>1. /\ rev' \in Seq(Review) /\ Id' = Id
      /\ \A i \in Id : RowOK(rev'[i]) /\ RowStep(rev[i], rev'[i])
  BY DEF RowsTo, Id
<1>2. \A i \in Id : /\ rev'[i].cand = rev[i].cand /\ rev'[i].retryOf = rev[i].retryOf
                    /\ rev'[i].status \in Active => rev[i].status \in Active
  BY <1>1 DEF RowStep
<1>3. OneActive'
  BY <1>1, <1>2 DEF RowsInv, OneActive
<1>4. NewestExists'
  BY <1>1, <1>2 DEF RowsInv, NewestExists
<1>5. RetriesFollow' /\ RetriedOnce'
  BY <1>1, <1>2 DEF RowsInv, RetriesFollow, RetriedOnce
<1>6. (\A i \in Id : RowOK(rev[i]))'
  BY <1>1 DEF RowOK
<1> QED BY <1>1, <1>3, <1>4, <1>5, <1>6 DEF RowsInv

\* A new review keeps it, when it retries the newest one or none.
LEMMA RowsAppended ==
  ASSUME RowsInv, policy \in PolicyRow, cand \in [Candidate -> CandRow], NEW old, RowsTo(old),
         NEW c \in Candidate, NEW of \in {0} \cup Id,
         of # 0 => rev[of].cand = c /\ \A j \in Id : rev[j].cand = c => j <= of,
         rev' = Append(old, NewReview(c, of)),
         \A i \in Id : rev[i].cand = c => old[i].status \notin Active
  PROVE  RowsInv' /\ Id \subseteq Id' /\ \A i \in Id : RowStep(rev[i], rev'[i])
<1> DEFINE new == NewReview(c, of)
           m == Len(rev) + 1
<1>0. Len(rev) \in Nat /\ m \in Nat /\ Id = 1..Len(rev) /\ Id \subseteq Nat
  BY DEF RowsInv, Id
<1>1. /\ new \in Review /\ RowOK(new) /\ new.cand = c /\ new.retryOf = of
  <2>1. /\ of \in Nat /\ cand[c].ver \in Nat /\ policy.version \in Nat /\ policy.engine \in Engine
    BY <1>0 DEF CandRow, PolicyRow
  <2>2. /\ new \in Review /\ new.cand = c /\ new.retryOf = of
    BY <2>1, Statuses DEF NewReview, Review
  <2>3. /\ new.attempts = 0 /\ new.failures = 0 /\ ~new.fresh /\ new.result = None /\ new.human = None
    BY DEF NewReview
  <2> QED BY <2>2, <2>3, ReviewAssumption DEF RowOK, ReviewAssumption
<1> HIDE DEF new
<1>2. /\ old \in Seq(Review) /\ Len(old) = Len(rev)
      /\ \A i \in Id : RowOK(old[i]) /\ RowStep(rev[i], old[i])
  BY DEF RowsTo
<1>3. /\ rev' \in Seq(Review) /\ Id' = 1..m /\ rev'[m] = new /\ \A i \in Id : rev'[i] = old[i]
  BY <1>0, <1>1, <1>2 DEF Id, new
<1>4. \A i \in Id' : i \in Id \/ i = m
  BY <1>0, <1>3
<1>5. m \notin Id /\ (\A i \in Id : i < m) /\ Id \subseteq Id'
  BY <1>0, <1>3
<1> HIDE DEF m
<1>6. \A i \in Id : /\ rev'[i].cand = rev[i].cand /\ rev'[i].retryOf = rev[i].retryOf
                    /\ rev'[i].status \in Active => rev[i].status \in Active
  BY <1>2, <1>3 DEF RowStep
<1>7. OneActive'
  <2> SUFFICES ASSUME NEW i \in Id', NEW j \in Id', rev'[i].cand = rev'[j].cand, i < j
               PROVE  rev'[i].status \notin Active
    BY DEF OneActive, Active
  <2>1. i \in Id
    BY <1>0, <1>3, <1>4, <1>5
  <2>2. CASE j \in Id
    BY <1>6, <2>1, <2>2 DEF RowsInv, OneActive
  <2>3. CASE j = m
    BY <1>1, <1>3, <1>6, <2>1, <2>3
  <2> QED BY <1>4, <2>2, <2>3
<1>8. NewestExists'
  <2> SUFFICES ASSUME NEW i \in Id'
               PROVE  \E n \in Id' : rev'[n].cand = rev'[i].cand
                                      /\ \A j \in Id' : rev'[j].cand = rev'[i].cand => j <= n
    BY DEF NewestExists
  <2>1. CASE rev'[i].cand = c
    <3>1. m \in Id' /\ rev'[m].cand = c /\ \A j \in Id' : j <= m
      BY <1>0, <1>1, <1>3
    <3> QED BY <2>1, <3>1
  <2>2. CASE rev'[i].cand # c
    <3>1. i \in Id
      BY <1>1, <1>3, <1>4, <2>2
    <3>2. PICK n \in Id : rev[n].cand = rev[i].cand /\ \A j \in Id : rev[j].cand = rev[i].cand => j <= n
      BY <3>1 DEF RowsInv, NewestExists
    <3>3. n \in Id' /\ rev'[n].cand = rev'[i].cand
      BY <1>5, <1>6, <3>1, <3>2
    <3>4. \A j \in Id' : rev'[j].cand = rev'[i].cand => j <= n
      BY <1>1, <1>3, <1>4, <1>6, <2>2, <3>1, <3>2
    <3> QED BY <3>3, <3>4
  <2> QED BY <2>1, <2>2
<1>9. RetriesFollow'
  <2> SUFFICES ASSUME NEW i \in Id', rev'[i].retryOf # 0
               PROVE  /\ rev'[i].retryOf \in Id' /\ rev'[i].retryOf < i
                      /\ rev'[rev'[i].retryOf].cand = rev'[i].cand
    BY DEF RetriesFollow
  <2>2. CASE i \in Id
    <3>1. rev[i].retryOf # 0 /\ rev'[i].retryOf = rev[i].retryOf /\ rev'[i].cand = rev[i].cand
      BY <1>6, <2>2
    <3>2. rev[i].retryOf \in Id /\ rev[i].retryOf < i /\ rev[rev[i].retryOf].cand = rev[i].cand
      BY <2>2, <3>1 DEF RowsInv, RetriesFollow
    <3> QED BY <1>5, <1>6, <3>1, <3>2
  <2>3. CASE i = m
    BY <1>1, <1>3, <1>5, <1>6, <2>3
  <2> QED BY <1>4, <2>2, <2>3
<1>10. RetriedOnce'
  <2>1. ASSUME NEW i \in Id, of # 0 PROVE rev[i].retryOf # of
    <3> SUFFICES ASSUME rev[i].retryOf = of PROVE FALSE
      OBVIOUS
    <3>1. of < i /\ rev[i].cand = c
      BY <2>1 DEF RowsInv, RetriesFollow
    <3>2. i <= of
      BY <2>1, <3>1
    <3> QED BY <1>0, <3>1, <3>2
  <2> SUFFICES ASSUME NEW i \in Id', NEW j \in Id', rev'[i].retryOf # 0, rev'[i].retryOf = rev'[j].retryOf
               PROVE  i = j
    BY DEF RetriedOnce
  <2>2. CASE i \in Id /\ j \in Id
    <3>1. rev[i].retryOf # 0 /\ rev[i].retryOf = rev[j].retryOf
      BY <1>6, <2>2
    <3> QED BY <2>2, <3>1 DEF RowsInv, RetriedOnce
  <2>3. CASE i = m /\ j \in Id
    BY <1>1, <1>3, <1>6, <2>1, <2>3
  <2>4. CASE i \in Id /\ j = m
    BY <1>1, <1>3, <1>6, <2>1, <2>4
  <2> QED BY <1>4, <2>2, <2>3, <2>4
<1>11. (\A i \in Id : RowOK(rev[i]))'
  <2> SUFFICES ASSUME NEW i \in Id' PROVE RowOK(rev'[i])
    BY DEF RowOK
  <2> QED BY <1>1, <1>2, <1>3, <1>4
<1>12. Id \subseteq Id' /\ \A i \in Id : RowStep(rev[i], rev'[i])
  BY <1>2, <1>3, <1>5
<1> QED BY <1>3, <1>7, <1>8, <1>9, <1>10, <1>11, <1>12 DEF RowsInv

-----------------------------------------------------------------------------
(* Candidates and their feeds.                                               *)

\* Who may be reviewed was not decided about.
CandInv == cand \in [Candidate -> CandRow] /\ PendingUndecided /\ HumanDecisionStands

\* The fence records what a human decides; a machine passes only undecided candidates
\* and approved ones.
LEMMA Fenced ==
  ASSUME CandInv, NEW c \in Candidate, NEW status \in {"imported", "rejected", "held"}, NEW human \in BOOLEAN,
         human \/ (status = "imported" /\ (cand[c].override = None \/ cand[c].status \in {"imported", "approved"})),
         cand' = [cand EXCEPT ![c] = Fence(c, status, human)]
  PROVE  CandInv'
<1> DEFINE f == Fence(c, status, human)
<1>1. cand[c] \in CandRow
  BY DEF CandInv
<1>2. cand[c].status \in {"imported", "approved"} /\ cand[c].override # None => cand[c].override = "approve"
  BY DEF CandInv, HumanDecisionStands, Override
<1>3. Override[status] \in {"approve", "reject", "hold"} /\ (status = "imported" => Override[status] = "approve")
  BY DEF Override
<1>4. /\ f \in CandRow /\ f.status = status /\ (f.override # None => f.override = Override[status])
  BY <1>1, <1>2, <1>3 DEF Fence, CandRow
<1>a. cand' = [cand EXCEPT ![c] = f]
  OBVIOUS
<1> HIDE DEF f
<1>5. cand' \in [Candidate -> CandRow] /\ cand'[c] = f /\ \A d \in Candidate \ {c} : cand'[d] = cand[d]
  BY <1>4, <1>a DEF CandInv
<1>6. PendingUndecided'
  BY <1>4, <1>5 DEF CandInv, PendingUndecided
<1>7. HumanDecisionStands'
  BY <1>4, <1>5 DEF CandInv, HumanDecisionStands
<1> QED BY <1>5, <1>6, <1>7 DEF CandInv

\* What the record of an admission says of the review it names.
Explains(r, c, method) ==
  /\ r.cand = c /\ r.status = "accepted"
  /\ method = "ai_auto" => r.result = [verdict |-> "accept", of |-> "good"] /\ r.snap = "good" /\ r.human = None
  /\ method = "human_agree"    => r.human = "agree" /\ r.result.verdict = "accept"
  /\ method = "human_disagree" => r.human = "disagree" /\ r.result.verdict # "accept"
FeedInv ==
  /\ feed \in [Candidate -> Admission \cup {None}]
  /\ AdmissionsNameReviews /\ AdmissionExplained

\* Admissions stay explained, because an accepted row stays as it is; a new one brings
\* its explanation, or names no review.
LEMMA StillExplained ==
  ASSUME FeedInv, Id \subseteq Id', \A i \in Id : RowStep(rev[i], rev'[i]),
         feed' \in [Candidate -> Admission \cup {None}],
         \A c \in Candidate :
           \/ feed'[c] = feed[c] \/ feed'[c].review = 0
           \/ feed'[c].review \in Id' /\ Explains(rev'[feed'[c].review], c, feed'[c].method)
  PROVE  FeedInv'
<1>1. ASSUME NEW c \in Candidate, feed'[c] # None, feed'[c].review # 0
      PROVE  feed'[c].review \in Id' /\ Explains(rev'[feed'[c].review], c, feed'[c].method)
  <2>1. CASE feed'[c] = feed[c]
    <3> DEFINE i == feed[c].review
    <3>1. i \in Id /\ Explains(rev[i], c, feed[c].method)
      BY <1>1, <2>1 DEF FeedInv, AdmissionsNameReviews, AdmissionExplained, Explains
    <3>2. RowStep(rev[i], rev'[i])
      BY <3>1
    <3>3. Explains(rev'[i], c, feed[c].method)
      BY <3>1, <3>2 DEF Explains, RowStep
    <3> QED BY <2>1, <3>1, <3>3
  <2>2. CASE feed'[c].review \in Id' /\ Explains(rev'[feed'[c].review], c, feed'[c].method)
    BY <2>2
  <2> QED BY <1>1, <2>1, <2>2
<1>2. AdmissionsNameReviews'
  BY <1>1 DEF AdmissionsNameReviews
<1>3. AdmissionExplained'
  BY <1>1 DEF AdmissionExplained, Explains
<1> QED BY <1>2, <1>3 DEF FeedInv

\* An admission: the candidate is imported, and the feed is its own or an alias's.
Admitting(c, method, i) ==
  /\ feed' \in [Candidate -> Admission \cup {None}]
  /\ \A d \in Candidate : feed'[d] = feed[d] \/ (d = c /\ feed'[d] = [method |-> method, review |-> i])
\* An admission leaves the candidates as they may be.
LEMMA Admitted ==
  ASSUME CandInv, feed \in [Candidate -> Admission \cup {None}], NEW c \in Candidate, NEW human \in BOOLEAN,
         NEW method \in {"ai_auto", "human_agree", "human_disagree", "manual", "referrer_auto"}, NEW i \in Nat,
         human \/ cand[c].override = None \/ cand[c].status \in {"imported", "approved"},
         Admit(c, human, method, i)
  PROVE  CandInv' /\ Admitting(c, method, i)
<1>1. CandInv'
  BY Fenced DEF Admit
<1>2. [method |-> method, review |-> i] \in Admission
  BY DEF Admission
<1>3. Admitting(c, method, i)
  BY <1>2 DEF Admit, Admitting
<1> QED BY <1>1, <1>3

\* A machine's acceptance.
LEMMA SubmitAdmits ==
  ASSUME TablesOK, CandInv, FeedInv, RowsInv, NEW k \in work, NEW v \in Verdict, SubmitSql(k, v)
  PROVE  CandInv' /\ FeedInv'
<1> DEFINE i == k.id
           c == rev[i].cand
<1>1. i \in Id /\ rev \in Seq(Review) /\ rev[i] \in Review /\ c \in Candidate /\ i \in Nat /\ Id' = Id
  <2>1. i \in Id /\ rev \in Seq(Review) /\ i \in Nat
    BY DEF TablesOK, Id
  <2>2. rev[i] \in Review
    BY <2>1 DEF Id
  <2>3. c \in Candidate
    BY <2>2 DEF Review
  <2>4. Id' = Id
    BY SubmitRows DEF RowsTo, Id
  <2> QED BY <2>1, <2>2, <2>3, <2>4
<1>2. \A j \in Id : RowStep(rev[j], rev'[j])
  BY SubmitRows DEF RowsTo
<1>3. CASE SameCandidate(i) /\ SamePolicy(i) /\ Outcome(i, v) = "accepted"
  <2>1. Admit(c, FALSE, "ai_auto", i)
    BY <1>3 DEF SubmitSql
  <2>2. cand[c].override = None
    BY <1>3 DEF SameCandidate, Undecided
  <2>3. CandInv' /\ Admitting(c, "ai_auto", i)
    BY <1>1, <2>1, <2>2, Admitted DEF FeedInv
  <2>4. v = "accept" /\ rev[i].snap = "good"
    BY <1>3 DEF Outcome, Gated
  <2>5. Explains(rev'[i], c, "ai_auto")
    BY <1>1, <1>3, <2>4, SubmitRows DEF Explains, Answer
  <2>6. FeedInv'
    BY <1>1, <1>2, <2>3, <2>5, StillExplained DEF Admitting
  <2> QED BY <2>3, <2>6
<1>4. CASE ~(SameCandidate(i) /\ SamePolicy(i) /\ Outcome(i, v) = "accepted")
  <2>1. UNCHANGED <<cand, feed>>
    BY <1>4 DEF SubmitSql
  <2>2. FeedInv'
    BY <1>1, <1>2, <2>1, StillExplained DEF FeedInv
  <2> QED BY <2>1, <2>2 DEF CandInv, PendingUndecided, HumanDecisionStands
<1> QED BY <1>3, <1>4

\* A human's judgement.
LEMMA JudgeAdmits ==
  ASSUME TablesOK, CandInv, FeedInv, RowsInv, NEW i \in Id, NEW d \in Decision, JudgeSql(i, d)
  PROVE  CandInv' /\ FeedInv'
<1> DEFINE c == rev[i].cand
           method == IF Opinion(i, d) = "agree" THEN "human_agree" ELSE "human_disagree"
<1>1. rev \in Seq(Review) /\ rev[i] \in Review /\ c \in Candidate /\ i \in Nat /\ Id' = Id
  <2>1. rev \in Seq(Review) /\ i \in Nat
    BY DEF TablesOK, Id
  <2>2. rev[i] \in Review
    BY <2>1 DEF Id
  <2>3. c \in Candidate
    BY <2>2 DEF Review
  <2>4. Id' = Id
    BY JudgeRows DEF RowsTo, Id
  <2> QED BY <2>1, <2>2, <2>3, <2>4
<1>2. \A j \in Id : RowStep(rev[j], rev'[j])
  BY JudgeRows DEF RowsTo
<1>3. CASE d = "accept"
  <2>1. Admit(c, TRUE, method, i)
    BY <1>3 DEF JudgeSql, Opinion
  <2>2. CandInv' /\ Admitting(c, method, i)
    BY <1>1, <2>1, Admitted DEF FeedInv
  <2>3. rev'[i].status = "accepted" /\ rev'[i].cand = c /\ rev'[i].human = Opinion(i, d)
        /\ rev'[i].result = rev[i].result
    BY <1>3, JudgeRows DEF Judged
  <2>4. Opinion(i, d) = "agree" <=> rev[i].result.verdict = "accept"
    BY <1>3 DEF Opinion, Proposed
  <2>5. Explains(rev'[i], c, method)
    BY <2>3, <2>4 DEF Explains, Opinion
  <2> HIDE DEF method
  <2>6. FeedInv'
    BY <1>1, <1>2, <2>2, <2>5, StillExplained DEF Admitting
  <2> QED BY <2>2, <2>6
<1>4. CASE d # "accept"
  <2>1. UNCHANGED feed /\ cand' = [cand EXCEPT ![c] = Fence(c, IF d = "reject" THEN "rejected" ELSE "held", TRUE)]
    BY <1>4 DEF JudgeSql
  <2>2. CandInv'
    BY <1>1, <2>1, Fenced
  <2>3. FeedInv'
    BY <1>1, <1>2, <2>1, StillExplained DEF FeedInv
  <2> QED BY <2>2, <2>3
<1> QED BY <1>3, <1>4

-----------------------------------------------------------------------------
(* The steps.                                                                *)

RowsGood == RowsInv' /\ Id \subseteq Id' /\ \A i \in Id : RowStep(rev[i], rev'[i])
Parts == TablesOK /\ RowsInv /\ CandInv /\ FeedInv

\* The same invariant by the tables it speaks of.
LEMMA InvParts == ReviewInv <=> Parts
BY DEF ReviewInv, Parts, TablesOK, RowsInv, CandInv, FeedInv

\* A request, by whomever: of a review again, of none, or of the newest one.
LEMMA RequestGood ==
  ASSUME Parts, NEW c \in Candidate, NEW again, NEW of \in {0} \cup Id,
         of # 0 => rev[of].cand = c /\ \A j \in Id : rev[j].cand = c => j <= of,
         RequestSql(c, again, of)
  PROVE  RowsGood
<1>1. PICK old : /\ RowsTo(old) /\ rev' = Append(old, NewReview(c, of))
                 /\ \A i \in Id : rev[i].cand = c => old[i].status \notin Active
  BY RequestRows DEF Parts, RowsInv
<1> QED BY <1>1, RowsAppended DEF Parts, TablesOK, RowsGood

\* A claim that locks what it picked.
LEMMA LockGood ==
  ASSUME Parts, NEW p \in picks, LockClaim(p)
  PROVE  RowsTo(rev') /\ Id' = Id /\ issued' \in Nat
         /\ (\A q \in picks' : q \in picks) /\ \A k \in work' : k \in Granted /\ k.id \in Id
<1>1. /\ p.by \in Worker /\ p.id \in Id /\ rev \in Seq(Review) /\ issued \in Nat
      /\ \A k \in work : k \in Granted /\ k.id \in Id
  BY DEF Parts, TablesOK
<1>2. CASE ClaimRefused(p.id, p.by) /\ UNCHANGED work /\ picks' = picks \ {p}
  <2>1. RowsTo(rev') /\ issued' = issued
    <3>1. CASE UNCHANGED <<rev, issued>>
      BY <3>1, NoRow DEF Parts
    <3>2. CASE ~UNCHANGED <<rev, issued>>
      BY <1>1, <1>2, <3>2, ClaimRows DEF Parts, ClaimRefused
    <3> QED BY <3>1, <3>2
  <2> QED BY <1>1, <1>2, <2>1 DEF RowsTo, Id
<1>3. ASSUME NEW j \in Id, ClaimGranted(p.id, j, p.by), work' = work \cup {Job(p.by, j)},
             picks' \in {picks, picks \ {p}}
      PROVE  RowsTo(rev') /\ Id' = Id /\ issued' \in Nat
             /\ (\A q \in picks' : q \in picks) /\ \A k \in work' : k \in Granted /\ k.id \in Id
  <2>1. RowsTo(rev') /\ issued' = issued + 1
    BY <1>1, <1>3, ClaimRows DEF Parts, ClaimGranted
  <2>2. Job(p.by, j) \in Granted /\ Job(p.by, j).id = j
    <3>1. rev[j] \in Review
      BY <1>1 DEF Id
    <3>2. rev[j].snap \in Sample \cup {None} /\ j \in Nat /\ issued + 1 \in Nat
      BY <1>1, <3>1 DEF Review, Id
    <3> QED BY <1>1, <3>2 DEF Job, Granted
  <2> QED BY <1>1, <1>3, <2>1, <2>2 DEF RowsTo, Id
<1> QED BY <1>2, <1>3 DEF LockClaim

\* Steps of a run of the worker or of an agent on a claim it was granted.
WorkStep(k) ==
  \/ Store(k) \/ FetchFails(k) \/ Crash(k)
  \/ \E s \in Sample : Fetch(k, s)
  \/ \E n \in Numbers : JevAnswers(k, n)
  \/ \E e \in {"budget_exceeded", "retryable", "fatal"} : JevFails(k, e)
  \/ \E v \in Verdict : AgentSubmits(k, v)
\* A step of the work on a claim keeps the three tables.
LEMMA WorkGood ==
  ASSUME Parts, NEW k \in work, WorkStep(k)
  PROVE  /\ RowsTo(rev') /\ CandInv' /\ FeedInv' /\ UNCHANGED <<shared, picks>>
         /\ \A l \in work' : l \in Granted /\ l.id \in Id
<1>1. /\ k \in Granted /\ k.id \in Id /\ (\A l \in work : l \in Granted /\ l.id \in Id)
      /\ k.snap \in Sample \cup {None}
  BY DEF Parts, TablesOK, Granted
<1>2. ASSUME UNCHANGED <<cand, feed>>, RowsTo(rev') PROVE CandInv' /\ FeedInv'
  <2>1. CandInv'
    BY <1>2 DEF Parts, CandInv, PendingUndecided, HumanDecisionStands
  <2>2. FeedInv'
    BY <1>2, RowsKept, StillExplained DEF Parts, FeedInv
  <2> QED BY <2>1, <2>2
<1>3. CASE Store(k)
  <2>1. RowsTo(rev')
    BY <1>1, <1>3, PrepareRows, NoRow DEF Store, Parts
  <2> QED BY <1>1, <1>2, <1>3, <2>1 DEF Store
<1>4. CASE FetchFails(k)
  <2>1. RowsTo(rev')
    BY <1>1, <1>4, PrepareRows, NoRow DEF FetchFails, Parts
  <2> QED BY <1>1, <1>2, <1>4, <2>1 DEF FetchFails
<1>5. CASE Crash(k)
  BY <1>1, <1>2, <1>5, NoRow DEF Crash, Parts
<1>6. ASSUME NEW s \in Sample, Fetch(k, s)
      PROVE  /\ RowsTo(rev') /\ CandInv' /\ FeedInv' /\ UNCHANGED <<shared, picks>>
             /\ \A l \in work' : l \in Granted /\ l.id \in Id
  <2>1. [k EXCEPT !.snap = s] \in Granted /\ [k EXCEPT !.snap = s].id = k.id
    BY <1>1, <1>6 DEF Granted
  <2>2. RowsTo(rev')
    BY <1>6, NoRow DEF Fetch, Parts
  <2> QED BY <1>1, <1>2, <1>6, <2>1, <2>2 DEF Fetch
<1>7. ASSUME NEW v \in Verdict, SubmitSql(k, v) PROVE RowsTo(rev') /\ CandInv' /\ FeedInv'
  BY <1>7, SubmitRows, SubmitAdmits DEF Parts
<1>8. ASSUME NEW n \in Numbers, JevAnswers(k, n)
      PROVE  /\ RowsTo(rev') /\ CandInv' /\ FeedInv' /\ UNCHANGED <<shared, picks>>
             /\ \A l \in work' : l \in Granted /\ l.id \in Id
  <2>1. Compose(n) \in Verdict
    BY DEF Compose, Verdict
  <2> QED BY <1>1, <1>7, <1>8, <2>1 DEF JevAnswers
<1>9. ASSUME NEW e \in {"budget_exceeded", "retryable", "fatal"}, JevFails(k, e)
      PROVE  /\ RowsTo(rev') /\ CandInv' /\ FeedInv' /\ UNCHANGED <<shared, picks>>
             /\ \A l \in work' : l \in Granted /\ l.id \in Id
  <2>1. RowsTo(rev')
    BY <1>9, FailRows, NoRow DEF JevFails, Parts
  <2> QED BY <1>1, <1>2, <1>9, <2>1 DEF JevFails
<1>10. ASSUME NEW v \in Verdict, AgentSubmits(k, v)
       PROVE  /\ RowsTo(rev') /\ CandInv' /\ FeedInv' /\ UNCHANGED <<shared, picks>>
              /\ \A l \in work' : l \in Granted /\ l.id \in Id
  BY <1>1, <1>7, <1>10 DEF AgentSubmits, clients
<1> QED BY <1>3, <1>4, <1>5, <1>6, <1>8, <1>9, <1>10 DEF WorkStep

\* What is left: the policy, and who picked or holds which review.
ClaimsInv ==
  /\ policy \in PolicyRow /\ barred \subseteq Candidate /\ due \subseteq Candidate
  /\ issued \in Nat
  /\ \A p \in picks : p.by \in Worker /\ p.id \in Id
  /\ \A k \in work : k \in Granted /\ k.id \in Id
Good == RowsGood /\ CandInv' /\ FeedInv' /\ ClaimsInv'

\* A step that only changes rows, and leaves the claims alone.
LEMMA RowsOnly ==
  ASSUME Parts, RowsTo(rev') \/ RowsGood, UNCHANGED <<shared, cand, feed, picks, work>>
  PROVE  Good
<1>1. RowsGood
  BY RowsKept DEF Parts, RowsGood
<1>2. CandInv' /\ ClaimsInv'
  BY <1>1 DEF Parts, TablesOK, RowsGood, CandInv, PendingUndecided, HumanDecisionStands, ClaimsInv, shared
<1>3. FeedInv'
  BY <1>1, StillExplained DEF Parts, RowsGood, FeedInv
<1> QED BY <1>1, <1>2, <1>3 DEF Good

\* A step that leaves the rows alone.
LEMMA NoRows ==
  ASSUME Parts, UNCHANGED rev
  PROVE  RowsGood /\ Id' = Id
BY NoRow, RowsKept DEF Parts, RowsGood

\* A step that leaves the rows, the candidates and the feeds alone.
LEMMA NoTables ==
  ASSUME Parts, UNCHANGED <<cand, feed, rev>>
  PROVE  RowsGood /\ Id' = Id /\ CandInv' /\ FeedInv'
<1>1. RowsGood /\ Id' = Id
  BY NoRows
<1>2. CandInv'
  BY DEF Parts, CandInv, PendingUndecided, HumanDecisionStands
<1>3. FeedInv'
  BY <1>1, StillExplained DEF Parts, RowsGood, FeedInv
<1> QED BY <1>1, <1>2, <1>3

\* A promotion, by an administrator or by referrers, names no review.
LEMMA PromoteGood ==
  ASSUME Parts, NEW c \in Candidate, PromoteManually(c) \/ PromoteByReferrers(c)
  PROVE  Good
<1>1. RowsGood /\ Id' = Id
  BY NoRows DEF PromoteManually, PromoteByReferrers
<1>2. PICK method \in {"manual", "referrer_auto"}, human \in BOOLEAN :
        /\ Admit(c, human, method, 0)
        /\ human \/ cand[c].override = None \/ cand[c].status \in {"imported", "approved"}
  <2>1. CASE PromoteManually(c)
    BY <2>1 DEF PromoteManually
  <2>2. CASE PromoteByReferrers(c)
    <3>1. cand[c].status \in {"pending", "imported", "approved"}
      BY <2>2 DEF PromoteByReferrers, Parts, CandInv, CandRow
    <3>2. cand[c].status = "pending" => cand[c].override = None
      BY DEF Parts, CandInv, PendingUndecided
    <3> QED BY <2>2, <3>1, <3>2 DEF PromoteByReferrers
  <2> QED BY <2>1, <2>2
<1>3. CandInv' /\ Admitting(c, method, 0)
  BY <1>2, Admitted DEF Parts, FeedInv
<1>4. \A d \in Candidate : feed'[d] = feed[d] \/ feed'[d].review = 0
  BY <1>3 DEF Admitting
<1>5. FeedInv'
  BY <1>1, <1>3, <1>4, StillExplained DEF Parts, RowsGood, Admitting
<1>6. ClaimsInv'
  BY <1>1 DEF Parts, TablesOK, ClaimsInv, shared, clients, PromoteManually, PromoteByReferrers
<1> QED BY <1>1, <1>3, <1>5, <1>6 DEF Good

\* Every step of the next-state relation.
LEMMA EachStep ==
  ASSUME Parts, Next
  PROVE  Good
<1>1. CASE Prune
  BY <1>1, PruneRows, RowsOnly DEF Prune, Parts
<1>2. ASSUME NEW by \in Worker, NEW i \in Id, PickClaim(by, i) PROVE Good
  <2>1. RowsGood /\ Id' = Id /\ CandInv' /\ FeedInv'
    BY <1>2, NoTables DEF PickClaim
  <2>2. ClaimsInv'
    BY <1>2, <2>1 DEF PickClaim, Parts, TablesOK, ClaimsInv, shared
  <2> QED BY <2>1, <2>2 DEF Good
<1>3. ASSUME NEW p \in picks, LockClaim(p) PROVE Good
  <2>1. RowsTo(rev') /\ Id' = Id /\ issued' \in Nat
        /\ (\A q \in picks' : q \in picks) /\ \A k \in work' : k \in Granted /\ k.id \in Id
    BY <1>3, LockGood
  <2>2. RowsGood
    BY <2>1, RowsKept DEF Parts, RowsGood
  <2>3. CandInv' /\ ClaimsInv'
    BY <1>3, <2>1 DEF LockClaim, Parts, TablesOK, CandInv, PendingUndecided, HumanDecisionStands, ClaimsInv
  <2>4. FeedInv'
    BY <1>3, <2>2, StillExplained DEF LockClaim, Parts, RowsGood, FeedInv
  <2> QED BY <2>2, <2>3, <2>4 DEF Good
<1>4. ASSUME NEW k \in work, WorkStep(k) PROVE Good
  <2>1. /\ RowsTo(rev') /\ CandInv' /\ FeedInv' /\ UNCHANGED <<shared, picks>>
        /\ \A l \in work' : l \in Granted /\ l.id \in Id
    BY <1>4, WorkGood
  <2>2. RowsGood /\ Id' = Id
    BY <2>1, RowsKept DEF Parts, RowsGood
  <2>3. ClaimsInv'
    BY <2>1, <2>2 DEF Parts, TablesOK, ClaimsInv, shared
  <2> QED BY <2>1, <2>2, <2>3 DEF Good
<1>5. ASSUME NEW c \in Candidate, RequestReview(c) PROVE Good
  <2>1. RowsGood
    BY <1>5, RequestGood DEF RequestReview
  <2> QED BY <1>5, <2>1, RowsOnly DEF RequestReview, clients
<1>20. ASSUME NEW c \in Candidate, RequestDue(c) PROVE Good
  <2>1. RowsGood
    BY <1>20, RequestGood DEF RequestDue
  <2>2. CandInv' /\ ClaimsInv'
    BY <1>20, <2>1 DEF RequestDue, Parts, TablesOK, RowsGood, CandInv, PendingUndecided,
                       HumanDecisionStands, ClaimsInv
  <2>3. FeedInv'
    BY <1>20, <2>1, StillExplained DEF RequestDue, Parts, RowsGood, FeedInv
  <2> QED BY <2>1, <2>2, <2>3 DEF Good
<1>21. ASSUME NEW c \in Candidate, PickDue(c) \/ LeaveDue(c) PROVE Good
  <2>1. RowsGood /\ Id' = Id /\ CandInv' /\ FeedInv'
    BY <1>21, NoTables DEF PickDue, LeaveDue
  <2>2. ClaimsInv'
    BY <1>21, <2>1 DEF PickDue, LeaveDue, Parts, TablesOK, ClaimsInv
  <2> QED BY <2>1, <2>2 DEF Good
<1>6. ASSUME NEW c \in Candidate, PromoteManually(c) \/ PromoteByReferrers(c) PROVE Good
  BY <1>6, PromoteGood
<1>7. ASSUME NEW c \in Candidate, Rediscover(c) PROVE Good
  <2>1. RowsGood /\ Id' = Id
    BY <1>7, NoRows DEF Rediscover
  <2>2. CandInv'
    <3>1. cand[c] \in CandRow /\ cand \in [Candidate -> CandRow]
      BY DEF Parts, CandInv
    <3> DEFINE row == [cand[c] EXCEPT !.ver = @ + 1]
    <3>2. row \in CandRow /\ row.status = cand[c].status /\ row.override = cand[c].override
      BY <3>1 DEF CandRow
    <3>3. cand' = [cand EXCEPT ![c] = row]
      BY <1>7 DEF Rediscover
    <3> HIDE DEF row
    <3>4. cand' \in [Candidate -> CandRow]
          /\ \A d \in Candidate : cand'[d].status = cand[d].status /\ cand'[d].override = cand[d].override
      BY <3>1, <3>2, <3>3
    <3> QED BY <3>4 DEF Parts, CandInv, PendingUndecided, HumanDecisionStands
  <2>3. FeedInv'
    BY <1>7, <2>1, StillExplained DEF Rediscover, Parts, RowsGood, FeedInv
  <2>4. ClaimsInv'
    BY <1>7, <2>1 DEF Rediscover, Parts, TablesOK, ClaimsInv, shared, clients
  <2> QED BY <2>1, <2>2, <2>3, <2>4 DEF Good
<1>8. ASSUME NEW c \in Candidate, NEW s \in {"held", "rejected"}, NEW h \in BOOLEAN, Decide(c, s, h) PROVE Good
  <2>1. RowsGood /\ Id' = Id
    BY <1>8, NoRows DEF Decide
  <2>2. CandInv'
    BY <1>8, Fenced DEF Decide, Parts
  <2>3. FeedInv'
    BY <1>8, <2>1, StillExplained DEF Decide, Parts, RowsGood, FeedInv
  <2>4. ClaimsInv'
    BY <1>8, <2>1 DEF Decide, Parts, TablesOK, ClaimsInv
  <2> QED BY <2>1, <2>2, <2>3, <2>4 DEF Good
<1>9. ASSUME NEW i \in Id, RetryReview(i) PROVE Good
  <2>1. rev[i].cand \in Candidate
    <3>1. rev[i] \in Review
      BY DEF Parts, TablesOK, Id
    <3> QED BY <3>1 DEF Review
  <2>2. \A j \in Id : rev[j].cand = rev[i].cand => j <= i
    <3>1. HasReview(rev[i].cand) /\ i = Newest(rev[i].cand)
      BY <1>9 DEF HasReview, RetryReview, RetrySql
    <3> QED BY <2>1, <3>1, NewestFacts DEF Parts, RowsInv
  <2>3. RowsGood
    BY <1>9, <2>1, <2>2, RequestGood DEF RetryReview, RetrySql
  <2> QED BY <1>9, <2>3, RowsOnly DEF RetryReview, clients
<1>10. ASSUME NEW i \in Id, LeaseExpires(i) \/ SnapshotExpires(i) PROVE Good
  BY <1>10, ExpiryRows, RowsOnly DEF LeaseExpires, SnapshotExpires, Parts, clients
<1>11. ASSUME NEW i \in Id, NEW d \in Decision, JudgeReview(i, d) PROVE Good
  <2>1. RowsTo(rev') /\ CandInv' /\ FeedInv'
    BY <1>11, JudgeRows, JudgeAdmits DEF JudgeReview, Parts
  <2>2. RowsGood /\ Id' = Id
    BY <2>1, RowsKept DEF Parts, RowsGood
  <2>3. ClaimsInv'
    BY <1>11, <2>2 DEF JudgeReview, Parts, TablesOK, ClaimsInv, shared, clients
  <2> QED BY <2>1, <2>2, <2>3 DEF Good
<1>12. ASSUME NEW p \in Policy, SavePolicy(p) PROVE Good
  <2>1. RowsGood /\ Id' = Id /\ CandInv' /\ FeedInv'
    BY <1>12, NoTables DEF SavePolicy
  <2>2. policy' \in PolicyRow
    <3>1. p \in PolicyRow /\ policy.version + 1 \in Nat
      BY ReviewAssumption DEF ReviewAssumption, PolicyRow, Engine, Parts, TablesOK
    <3> QED BY <1>12, <3>1 DEF SavePolicy, PolicyRow
  <2>3. ClaimsInv'
    BY <1>12, <2>1, <2>2 DEF SavePolicy, Parts, TablesOK, ClaimsInv
  <2> QED BY <2>1, <2>3 DEF Good
<1>13. (\E k \in work : WorkStep(k)) => Good
  BY <1>4
<1>14. CASE \E c \in Candidate : \/ PickDue(c) \/ RequestDue(c) \/ LeaveDue(c) \/ RequestReview(c)
                                \/ PromoteManually(c) \/ PromoteByReferrers(c) \/ Rediscover(c)
                                \/ \E s \in {"held", "rejected"}, h \in BOOLEAN : Decide(c, s, h)
  BY <1>5, <1>6, <1>7, <1>8, <1>14, <1>20, <1>21
<1>15. CASE \E i \in Id : \/ RetryReview(i) \/ LeaseExpires(i) \/ SnapshotExpires(i)
                         \/ \E d \in Decision : JudgeReview(i, d)
  BY <1>9, <1>10, <1>11, <1>15
<1>16. (\E by \in Worker, i \in Id : PickClaim(by, i)) => Good
  BY <1>2
<1>17. (\E p \in picks : LockClaim(p)) => Good
  BY <1>3
<1>18. (\E p \in Policy : SavePolicy(p)) => Good
  BY <1>12
<1>19. \/ Prune \/ (\E by \in Worker, i \in Id : PickClaim(by, i)) \/ (\E p \in picks : LockClaim(p))
       \/ (\E k \in work : WorkStep(k)) \/ (\E p \in Policy : SavePolicy(p))
       \/ (\E c \in Candidate : PickDue(c) \/ RequestDue(c) \/ LeaveDue(c) \/ RequestReview(c)
             \/ PromoteManually(c) \/ PromoteByReferrers(c) \/ Rediscover(c)
             \/ \E s \in {"held", "rejected"}, h \in BOOLEAN : Decide(c, s, h))
       \/ (\E i \in Id : RetryReview(i) \/ LeaseExpires(i) \/ SnapshotExpires(i)
             \/ \E d \in Decision : JudgeReview(i, d))
  BY DEF Next, WorkStep
<1> QED BY <1>1, <1>13, <1>14, <1>15, <1>16, <1>17, <1>18, <1>19

-----------------------------------------------------------------------------
(* The theorems.                                                             *)

\* Init: no review, nothing decided, nothing admitted.
LEMMA InitInv == Init => ReviewInv
<1> SUFFICES ASSUME Init PROVE ReviewInv
  OBVIOUS
<1>1. rev = <<>> /\ Id = {}
  BY DEF Init, Id
<1>2. policy \in PolicyRow
  BY ReviewAssumption DEF Init, ReviewAssumption, PolicyRow, Engine
<1>3. CandInv
  BY DEF Init, CandInv, CandRow, PendingUndecided, HumanDecisionStands
<1>4. RowsInv
  BY <1>1 DEF RowsInv, OneActive, NewestExists, RetriesFollow, RetriedOnce
<1>5. FeedInv
  BY DEF Init, FeedInv, AdmissionsNameReviews, AdmissionExplained
<1>6. TablesOK
  BY <1>1, <1>2, <1>3, <1>4, <1>5 DEF Init, TablesOK, RowsInv, CandInv, FeedInv
<1> QED BY <1>3, <1>4, <1>5, <1>6, InvParts DEF Parts

\* Every step keeps the invariant, and changes each row as a row may change.
LEMMA NextInv ==
  ASSUME ReviewInv, [Next]_vars
  PROVE  ReviewInv' /\ Id \subseteq Id' /\ \A i \in Id : RowOK(rev[i]) /\ RowStep(rev[i], rev'[i])
<1>1. Parts
  BY InvParts
<1>2. Good
  <2>1. CASE Next
    BY <1>1, <2>1, EachStep
  <2>2. CASE UNCHANGED vars
    <3>1. RowsGood /\ CandInv' /\ FeedInv'
      BY <1>1, <2>2, NoTables DEF vars
    <3>2. ClaimsInv'
      BY <1>1, <2>2, <3>1 DEF vars, ClaimsInv, Parts, TablesOK, Id
    <3> QED BY <3>1, <3>2 DEF Good
  <2> QED BY <2>1, <2>2
<1>3. TablesOK'
  BY <1>2 DEF Good, RowsGood, RowsInv, CandInv, FeedInv, ClaimsInv, TablesOK
<1>4. ReviewInv'
  BY <1>2, <1>3 DEF Good, RowsGood, RowsInv, CandInv, FeedInv, ReviewInv
<1> QED BY <1>1, <1>2, <1>4 DEF Good, RowsGood, Parts, TablesOK

\* The tables keep to the invariant, whatever is fetched, answered, saved, judged or
\* lost.
THEOREM ReviewInvariant == Spec => []ReviewInv
<1>1. Init => ReviewInv
  BY InitInv
<1>2. ReviewInv /\ [Next]_vars => ReviewInv'
  BY NextInv
<1> QED BY <1>1, <1>2, PTL DEF Spec

\* Every row of the tables has the columns and the values their constraints allow, and
\* no review is claimed or fails more often than the limit.
THEOREM ReviewTyped == Spec => []TypeOK
<1>1. ReviewInv => TypeOK
  BY DEF ReviewInv, TablesOK, TypeOK, RowOK, PolicyRow, CandRow
<1> QED BY <1>1, ReviewInvariant, PTL

\* The unfinished review of a candidate is its newest one, so there is at most one: the
\* unique index on unfinished reviews refuses no transaction.
THEOREM OnlyTheNewestIsActive == Spec => []OnlyNewestActive
<1>1. ReviewInv => OnlyNewestActive
  <2> SUFFICES ASSUME ReviewInv, NEW i \in Id, rev[i].status \in Active
               PROVE  i = Newest(rev[i].cand)
    BY DEF OnlyNewestActive
  <2> DEFINE n == Newest(rev[i].cand)
  <2>1. HasReview(rev[i].cand)
    BY DEF HasReview
  <2>2. n \in Id /\ rev[n].cand = rev[i].cand /\ i <= n
    BY <2>1, NewestFacts DEF ReviewInv
  <2>3. ~(i < n)
    BY <2>2 DEF ReviewInv, OneActive
  <2> HIDE DEF n
  <2> QED BY <2>2, <2>3 DEF Id, n
<1> QED BY <1>1, ReviewInvariant, PTL

\* What a human decided about a candidate stands until a human decides again, whoever
\* still works on a review of it.
THEOREM HumanDecisionsStand == Spec => []HumanDecisionStands
<1>1. ReviewInv => HumanDecisionStands
  BY DEF ReviewInv
<1> QED BY <1>1, ReviewInvariant, PTL

\* Every admitted feed that names a review is explained by it: by an accepted result
\* no human touched, or by the human's own opinion of the result.
THEOREM AdmissionsExplained == Spec => []AdmissionExplained
<1>1. ReviewInv => AdmissionExplained
  BY DEF ReviewInv
<1> QED BY <1>1, ReviewInvariant, PTL

\* One review is retried at most once, however often and by whomever the retry is sent.
THEOREM OneRetryEach == Spec => []RetriedOnce
<1>1. ReviewInv => RetriedOnce
  BY DEF ReviewInv
<1> QED BY <1>1, ReviewInvariant, PTL

\* A result is written once, about the packet the row still shows; a human's opinion is
\* written once and closes the row.
THEOREM FinalAnswers == Spec => AnswersAreFinal
<1>1. ReviewInv /\ [Next]_vars =>
        [\A i \in Id : rev[i].result # None =>
           /\ rev'[i].result = rev[i].result /\ rev'[i].snap = rev[i].snap
           /\ rev[i].result.of = rev[i].snap
           /\ rev[i].human # None => rev'[i].human = rev[i].human /\ rev'[i].status = rev[i].status]_vars
  <2> SUFFICES ASSUME ReviewInv, [Next]_vars, NEW i \in Id, rev[i].result # None
               PROVE  /\ rev'[i].result = rev[i].result /\ rev'[i].snap = rev[i].snap
                      /\ rev[i].result.of = rev[i].snap
                      /\ rev[i].human # None => rev'[i].human = rev[i].human /\ rev'[i].status = rev[i].status
    OBVIOUS
  <2> QED BY NextInv DEF RowStep, RowOK
<1> QED BY <1>1, ReviewInvariant, PTL DEF Spec, AnswersAreFinal
=============================================================================
