--------------------------- MODULE JobQueueProofs ---------------------------
(***************************************************************************)
(* Safety of the durable queue for every number of rows, kinds, keys,      *)
(* tokens, attempts and every capacity.  The invariants of JobQueue are    *)
(* inductive only together: a claim stays within attempts because queued   *)
(* rows have one left, a successor keeps the singleton unique because the  *)
(* occurrence it replaces was the active one, and so on.                   *)
(***************************************************************************)
EXTENDS JobQueue, FiniteSetTheorems, TLAPS

QueueInv ==
  /\ TypeOK
  /\ SingletonActive
  /\ WithinCapacity
  /\ AttemptsAccounted
  /\ ScheduleKept
  /\ TokensNameRows

\* Every active occurrence of a singleton repeats, so its end has a successor.
KeyedRecurs == \A j \in JobId : Active(j) /\ jobs[j].key # Null => jobs[j].repeat > 0

\* The phase and the tries of schedule s, and its occurrences, in a table T.
OccurrenceIn(T, s) ==
  {j \in JobId : /\ T[j].status \in {"queued", "running"}
                 /\ T[j].kind = s[1] /\ T[j].key = s[2]}
PhaseIn(T, s) ==
  IF OccurrenceIn(T, s) = {} THEN "unscheduled"
  ELSE IF \E j \in OccurrenceIn(T, s) : T[j].status = "running" THEN "leased"
  ELSE "pending"
TriesIn(T, s) ==
  IF OccurrenceIn(T, s) = {} THEN 0
  ELSE T[CHOOSE j \in OccurrenceIn(T, s) : TRUE].attempts

\* The rows of a kind that run are finitely many, and a transaction that starts
\* none keeps the kind within its capacity.
LEMMA RunningShrinks ==
  ASSUME TypeOK, WithinCapacity,
         \A j \in JobId : jobs'[j].status = "running" =>
           jobs[j].status = "running" /\ jobs[j].kind = jobs'[j].kind
  PROVE  WithinCapacity'
<1> SUFFICES ASSUME NEW k \in Kind
             PROVE  Cardinality(Running(k))' <= Capacity[k]
  BY DEF WithinCapacity
<1>1. IsFiniteSet(Running(k))
  BY FS_Subset, QueueAssumption DEF Running, QueueAssumption
<1>2. Running(k)' \subseteq Running(k)
  BY DEF Running
<1>3. /\ Cardinality(Running(k)') <= Cardinality(Running(k))
      /\ Cardinality(Running(k)) \in Nat /\ Cardinality(Running(k)') \in Nat
  BY <1>1, <1>2, FS_Subset, FS_CardinalityType
<1>4. Cardinality(Running(k)) <= Capacity[k] /\ Capacity[k] \in Nat
  BY QueueAssumption DEF WithinCapacity, QueueAssumption
<1> QED BY <1>3, <1>4

\* The empty table satisfies the invariant.
LEMMA InitInv == Init => QueueInv
<1> SUFFICES ASSUME Init PROVE QueueInv
  OBVIOUS
<1> USE QueueAssumption DEF QueueAssumption, Init, NoRow
<1>1. TypeOK
  BY DEF TypeOK, Row, Status
<1>2. WithinCapacity
  <2> SUFFICES ASSUME NEW k \in Kind PROVE Cardinality(Running(k)) <= Capacity[k]
    BY DEF WithinCapacity
  <2>1. Running(k) = {}
    BY DEF Running
  <2> QED BY <2>1, FS_EmptySet
<1>3. SingletonActive /\ AttemptsAccounted /\ ScheduleKept /\ TokensNameRows
  BY DEF SingletonActive, AttemptsAccounted, ScheduleKept, TokensNameRows, Active
<1> QED BY <1>1, <1>2, <1>3 DEF QueueInv

\* One row changes, the others stay.
LEMMA RowSet ==
  ASSUME TypeOK, NEW j \in JobId, NEW row \in Row, jobs' = [jobs EXCEPT ![j] = row]
  PROVE  /\ jobs' \in [JobId -> Row]
         /\ jobs'[j] = row
         /\ \A i \in JobId \ {j} : jobs'[i] = jobs[i]
BY DEF TypeOK

\* A new row is queued, has no lease and no attempt behind it.
LEMMA NewRowFacts ==
  ASSUME NEW k \in Kind, NEW key \in Key \cup {Null}, NEW prio \in Priority,
         NEW repeat \in Nat, NEW wait \in Nat
  PROVE  /\ NewRow(k, key, prio, repeat, wait) \in Row
         /\ NewRow(k, key, prio, repeat, wait).status = "queued"
         /\ NewRow(k, key, prio, repeat, wait).kind = k
         /\ NewRow(k, key, prio, repeat, wait).key = key
         /\ NewRow(k, key, prio, repeat, wait).token = Null
         /\ NewRow(k, key, prio, repeat, wait).attempts = 0
         /\ NewRow(k, key, prio, repeat, wait).repeat = repeat
         /\ NewRow(k, key, prio, repeat, wait).lease = 0
<1>1. 0 \in 0..MaxAttempts
  BY QueueAssumption DEF QueueAssumption
<1> QED BY <1>1 DEF NewRow, Row, Status

\* Enqueue: a duplicate only has its settings updated, a new row is alone with
\* its key.
LEMMA EnqueueInv ==
  ASSUME QueueInv, NEW k \in Kind, NEW key \in Key \cup {Null},
         NEW prio \in Priority \cup {Null}, NEW repeat \in Interval \cup {Null},
         key # Null => repeat # Null,
         Enqueue(k, key, prio, repeat)
  PROVE  QueueInv'
<1> USE QueueAssumption
<1> TypeOK /\ SingletonActive /\ WithinCapacity /\ AttemptsAccounted /\ ScheduleKept
    /\ TokensNameRows
  BY DEF QueueInv
<1>0. /\ repeat \in Nat \cup {Null} /\ (key # Null => repeat \in Nat /\ repeat > 0 /\ key \in Key)
      /\ Null \notin Nat
      /\ prio \in Priority \cup {Null} /\ 0 \in Priority
  BY DEF QueueAssumption
<1>a. /\ issued' = issued
      /\ scheduled' = IF key # Null THEN scheduled \cup {<<k, key>>} ELSE scheduled
  BY DEF Enqueue
<1>1. ASSUME NEW j \in Duplicates(k, key),
             jobs' = [jobs EXCEPT ![j] = Resettled(jobs[j], prio, repeat)]
      PROVE  QueueInv'
  <2>1. /\ j \in JobId /\ Active(j) /\ jobs[j].kind = k /\ jobs[j].key = key /\ key # Null
        /\ jobs[j] \in Row
    BY DEF Duplicates, TypeOK
  <2> DEFINE row == Resettled(jobs[j], prio, repeat)
  <2>2. jobs' = [jobs EXCEPT ![j] = row]
    BY <1>1
  <2>3. Coalesce(prio, jobs[j].prio) \in Priority /\ Coalesce(repeat, jobs[j].repeat) = repeat
    BY <1>0, <2>1 DEF Coalesce, Row
  <2>4. /\ row \in Row /\ row.repeat > 0
        /\ row.status = jobs[j].status /\ row.kind = jobs[j].kind /\ row.key = jobs[j].key
        /\ row.token = jobs[j].token /\ row.attempts = jobs[j].attempts
    BY <1>0, <2>1, <2>3 DEF Row, Resettled
  <2> HIDE DEF row
  <2>5. /\ jobs' \in [JobId -> Row] /\ jobs'[j] = row
        /\ \A i \in JobId \ {j} : jobs'[i] = jobs[i]
    BY <2>1, <2>2, <2>4, RowSet
  <2>6. \A i \in JobId : /\ jobs'[i].status = jobs[i].status /\ jobs'[i].kind = jobs[i].kind
                         /\ jobs'[i].key = jobs[i].key /\ jobs'[i].token = jobs[i].token
                         /\ jobs'[i].attempts = jobs[i].attempts
                         /\ jobs[i].repeat > 0 => jobs'[i].repeat > 0
    BY <2>4, <2>5
  <2>7. TypeOK'
    <3>1. scheduled' \subseteq Kind \X Key
      BY <1>0, <1>a DEF TypeOK
    <3>2. \A i \in JobId : (jobs'[i].status = "running") <=> (jobs'[i].token # Null)
      BY <2>6 DEF TypeOK
    <3>3. \A i \in JobId : (jobs'[i].status = "absent") <=> (jobs'[i].kind = Null)
      BY <2>6 DEF TypeOK
    <3>4. issued' \subseteq Token
      BY <1>a DEF TypeOK
    <3> QED BY <2>5, <3>1, <3>2, <3>3, <3>4 DEF TypeOK
  <2>8. SingletonActive' /\ AttemptsAccounted' /\ TokensNameRows'
    BY <1>a, <2>6 DEF SingletonActive, AttemptsAccounted, TokensNameRows, Active
  <2>9. WithinCapacity'
    BY <2>6, RunningShrinks
  <2>10. ScheduleKept'
    <3> SUFFICES ASSUME NEW s \in scheduled'
                 PROVE  \E i \in JobId : /\ Active(i)' /\ jobs'[i].repeat > 0
                                         /\ jobs'[i].kind = s[1] /\ jobs'[i].key = s[2]
      BY DEF ScheduleKept
    <3>1. CASE s = <<k, key>>
      BY <2>1, <2>4, <2>5, <3>1 DEF Active
    <3>2. CASE s \in scheduled
      BY <2>6, <3>2 DEF ScheduleKept, Active
    <3> QED BY <1>a, <3>1, <3>2
  <2> QED BY <2>7, <2>8, <2>9, <2>10 DEF QueueInv
<1>2. ASSUME Duplicates(k, key) = {}, NEW j \in FreeIds,
             jobs' = [jobs EXCEPT ![j] =
                        NewRow(k, key, Coalesce(prio, 0), Coalesce(repeat, 0), 0)]
      PROVE  QueueInv'
  <2> DEFINE p == Coalesce(prio, 0)
             r == Coalesce(repeat, 0)
             row == NewRow(k, key, p, r, 0)
  <2>1. j \in JobId /\ jobs[j].status = "absent"
    BY DEF FreeIds
  <2>2. p \in Priority /\ r \in Nat /\ (key # Null => r > 0)
    BY <1>0 DEF Coalesce
  <2>3. /\ row \in Row
        /\ row.status = "queued" /\ row.kind = k /\ row.key = key /\ row.token = Null
        /\ row.attempts = 0 /\ (key # Null => row.repeat > 0)
    <3> HIDE DEF p, r
    <3>1. 0 \in Nat
      OBVIOUS
    <3> QED BY <2>2, <3>1, NewRowFacts
  <2>4. jobs' = [jobs EXCEPT ![j] = row]
    BY <1>2
  <2> HIDE DEF row, p, r
  <2>5. /\ jobs' \in [JobId -> Row] /\ jobs'[j] = row
        /\ \A i \in JobId \ {j} : jobs'[i] = jobs[i]
    BY <2>1, <2>3, <2>4, RowSet
  <2>6. k # Null
    BY DEF QueueAssumption
  <2>7. TypeOK'
    BY <1>0, <1>a, <2>1, <2>3, <2>5, <2>6 DEF TypeOK
  <2>8. SingletonActive'
    <3>1. \A i \in JobId \ {j} :
            Active(i) /\ key # Null => ~(jobs[i].key = key /\ jobs[i].kind = k)
      BY <1>2 DEF Duplicates
    <3>2. SUFFICES ASSUME NEW a \in JobId, NEW b \in JobId, Active(a)', Active(b)',
                          jobs'[a].key # Null, jobs'[a].key = jobs'[b].key,
                          jobs'[a].kind = jobs'[b].kind
                   PROVE  a = b
      BY DEF SingletonActive
    <3>3. CASE a # j /\ b # j
      BY <2>5, <3>2, <3>3 DEF SingletonActive, Active
    <3>4. CASE a = j /\ b # j
      BY <2>3, <2>5, <3>1, <3>2, <3>4 DEF Active
    <3>5. CASE a # j /\ b = j
      BY <2>3, <2>5, <3>1, <3>2, <3>5 DEF Active
    <3> QED BY <3>3, <3>4, <3>5
  <2>9. AttemptsAccounted' /\ TokensNameRows'
    BY <1>a, <2>1, <2>3, <2>5, QueueAssumption
    DEF AttemptsAccounted, TokensNameRows, QueueAssumption
  <2>10. WithinCapacity'
    BY <2>3, <2>5, RunningShrinks
  <2>11. ScheduleKept'
    <3> SUFFICES ASSUME NEW s \in scheduled'
                 PROVE  \E i \in JobId : /\ Active(i)' /\ jobs'[i].repeat > 0
                                         /\ jobs'[i].kind = s[1] /\ jobs'[i].key = s[2]
      BY DEF ScheduleKept
    <3>1. CASE s \in scheduled
      <4> PICK i \in JobId : /\ Active(i) /\ jobs[i].repeat > 0
                             /\ jobs[i].kind = s[1] /\ jobs[i].key = s[2]
        BY <3>1 DEF ScheduleKept
      <4>1. i # j
        BY <2>1 DEF Active
      <4> QED BY <2>5, <4>1 DEF Active
    <3>2. CASE s = <<k, key>> /\ key # Null
      BY <2>1, <2>3, <2>5, <3>2 DEF Active
    <3> QED BY <1>a, <3>1, <3>2
  <2> QED BY <2>7, <2>8, <2>9, <2>10, <2>11 DEF QueueInv
<1> QED BY <1>1, <1>2 DEF Enqueue

\* Claim: an attempt was left, the capacity was checked, the token is fresh.
LEMMA ClaimInv ==
  ASSUME QueueInv, NEW k \in Kind, NEW t \in Token, Claim(k, t)
  PROVE  QueueInv'
<1> USE QueueAssumption
<1> TypeOK /\ SingletonActive /\ WithinCapacity /\ AttemptsAccounted /\ ScheduleKept
    /\ TokensNameRows
  BY DEF QueueInv
<1> PICK j \in Claimable(k) : jobs' = Take(j, t)
  BY DEF Claim
<1>1. /\ j \in JobId /\ jobs[j].status = "queued" /\ jobs[j].kind = k
      /\ jobs[j] \in Row /\ jobs[j].attempts < MaxAttempts
      /\ t \notin issued /\ issued' = issued \cup {t} /\ scheduled' = scheduled
      /\ Cardinality(Running(k)) < Capacity[k]
  BY DEF Claim, Claimable, Due, TypeOK, AttemptsAccounted
<1>2. t # Null /\ k # Null /\ LeaseTicks \in Nat /\ MaxAttempts \in Nat
  BY DEF QueueAssumption
<1> DEFINE row == [jobs[j] EXCEPT !.status = "running", !.attempts = @ + 1,
                                  !.token = t, !.lease = LeaseTicks]
<1>3. jobs' = [jobs EXCEPT ![j] = row]
  BY DEF Take
<1>4. /\ row \in Row /\ row.status = "running" /\ row.token = t /\ row.kind = k
      /\ row.key = jobs[j].key /\ row.repeat = jobs[j].repeat
      /\ row.attempts > 0 /\ row.attempts \in Nat
  <2>1. jobs[j].attempts \in Nat /\ jobs[j].attempts + 1 \in 0..MaxAttempts
    BY <1>1, <1>2 DEF Row
  <2>2. row \in Row
    BY <1>1, <1>2, <2>1 DEF Row, Status
  <2>3. row.attempts = jobs[j].attempts + 1
    BY <1>1 DEF Row
  <2>4. /\ row.status = "running" /\ row.token = t /\ row.kind = k
        /\ row.key = jobs[j].key /\ row.repeat = jobs[j].repeat
    BY <1>1 DEF Row
  <2> QED BY <2>1, <2>2, <2>3, <2>4
<1> HIDE DEF row
<1>5. /\ jobs' \in [JobId -> Row] /\ jobs'[j] = row
      /\ \A i \in JobId \ {j} : jobs'[i] = jobs[i]
  BY <1>1, <1>3, <1>4, RowSet
<1>6. TypeOK'
  <2>1. \A i \in JobId : (jobs'[i].status = "running") <=> (jobs'[i].token # Null)
    BY <1>1, <1>2, <1>4, <1>5 DEF TypeOK
  <2>2. \A i \in JobId : (jobs'[i].status = "absent") <=> (jobs'[i].kind = Null)
    BY <1>1, <1>2, <1>4, <1>5 DEF TypeOK
  <2>3. issued' \subseteq Token
    BY <1>1 DEF TypeOK
  <2>4. scheduled' \subseteq Kind \X Key
    BY <1>1 DEF TypeOK
  <2>5. jobs' \in [JobId -> Row]
    BY <1>5
  <2> QED BY <2>1, <2>2, <2>3, <2>4, <2>5 DEF TypeOK
<1>7. SingletonActive'
  BY <1>1, <1>4, <1>5 DEF SingletonActive, Active
<1>8. AttemptsAccounted'
  BY <1>1, <1>4, <1>5 DEF AttemptsAccounted
<1>9. TokensNameRows'
  <2>1. \A i \in JobId : jobs[i].token # t
    BY <1>1, <1>2 DEF TokensNameRows
  <2> QED BY <1>1, <1>4, <1>5, <2>1 DEF TokensNameRows
<1>10. ScheduleKept'
  BY <1>1, <1>4, <1>5 DEF ScheduleKept, Active
<1>11. WithinCapacity'
  <2> SUFFICES ASSUME NEW q \in Kind
               PROVE  Cardinality(Running(q)') <= Capacity[q]
    BY DEF WithinCapacity
  <2>1. IsFiniteSet(Running(q))
    BY FS_Subset DEF Running, QueueAssumption
  <2>2. Cardinality(Running(q)) \in Nat /\ Cardinality(Running(q)) <= Capacity[q]
        /\ Capacity[q] \in Nat
    BY <2>1, FS_CardinalityType DEF WithinCapacity, QueueAssumption
  <2>3. CASE q = k
    <3>1. Running(q)' = Running(q) \cup {j} /\ j \notin Running(q)
      BY <1>1, <1>4, <1>5, <2>3 DEF Running
    <3>2. Cardinality(Running(q) \cup {j}) = Cardinality(Running(q)) + 1
      BY <2>1, <3>1, FS_AddElement
    <3>3. Cardinality(Running(q)') = Cardinality(Running(q)) + 1
      BY <3>1, <3>2
    <3> QED BY <1>1, <2>2, <2>3, <3>3
  <2>4. CASE q # k
    <3>1. Running(q)' = Running(q)
      BY <1>1, <1>4, <1>5, <2>4 DEF Running
    <3> QED BY <2>2, <3>1
  <2> QED BY <2>3, <2>4
<1> QED BY <1>6, <1>7, <1>8, <1>9, <1>10, <1>11 DEF QueueInv

\* Released: what becomes of the fields of a row that leaves "running".
LEMMA ReleasedFacts ==
  ASSUME QueueInv, NEW j \in JobId, NEW ok \in BOOLEAN, jobs[j].status = "running"
  PROVE  /\ Released(j, ok) \in Row
         /\ Released(j, ok).status \in {"queued", "succeeded", "dead"}
         /\ Released(j, ok).status = "queued" <=> ~Terminal(j, ok)
         /\ Released(j, ok).status = "dead" => jobs[j].attempts = MaxAttempts
         /\ Released(j, ok).kind = jobs[j].kind
         /\ Released(j, ok).key = jobs[j].key
         /\ Released(j, ok).repeat = jobs[j].repeat
         /\ Released(j, ok).attempts = jobs[j].attempts
         /\ Released(j, ok).token = Null
         /\ Released(j, ok).lease = 0
<1>1. /\ jobs[j] \in Row /\ jobs[j].attempts \in 0..MaxAttempts /\ jobs[j].attempts > 0
      /\ MaxAttempts \in Nat /\ Backoff \in [1..MaxAttempts -> Nat]
  BY QueueAssumption DEF QueueInv, TypeOK, Row, AttemptsAccounted, QueueAssumption
<1> DEFINE st == IF ok THEN "succeeded" ELSE IF Terminal(j, ok) THEN "dead" ELSE "queued"
           wt == IF Terminal(j, ok) THEN 0 ELSE Backoff[jobs[j].attempts]
<1>2. /\ st \in {"queued", "succeeded", "dead"}
      /\ st = "queued" <=> ~Terminal(j, ok)
      /\ st = "dead" => jobs[j].attempts = MaxAttempts
  BY <1>1 DEF Terminal
<1>3. wt \in Nat
  BY <1>1
<1>4. Released(j, ok) = [jobs[j] EXCEPT !.status = st, !.wait = wt, !.token = Null, !.lease = 0]
  BY DEF Released
<1> HIDE DEF st, wt
<1>5. Released(j, ok) \in Row
  <2>1. st \in Status /\ 0 \in Nat
    BY <1>2 DEF Status
  <2> QED BY <1>1, <1>3, <1>4, <2>1 DEF Row
<1>6. /\ Released(j, ok).status = st /\ Released(j, ok).kind = jobs[j].kind
      /\ Released(j, ok).key = jobs[j].key /\ Released(j, ok).repeat = jobs[j].repeat
      /\ Released(j, ok).attempts = jobs[j].attempts
      /\ Released(j, ok).token = Null /\ Released(j, ok).lease = 0
  BY <1>1, <1>4 DEF Row
<1> QED BY <1>2, <1>5, <1>6

\* The end of an attempt, acknowledged or swept: every recurring row that is
\* over has exactly one successor, and no other row is touched.
LEMMA ReleaseInv ==
  ASSUME QueueInv, NEW S \in SUBSET JobId, NEW ok \in BOOLEAN,
         \A j \in S : jobs[j].status = "running",
         Release(S, ok)
  PROVE  QueueInv'
<1> TypeOK /\ SingletonActive /\ WithinCapacity /\ AttemptsAccounted /\ ScheduleKept
    /\ TokensNameRows
  BY DEF QueueInv
<1> PICK N \in SUBSET FreeIds : \E parent \in Bijection(N, Recurring(S, ok)) :
       jobs' = [j \in JobId |->
                  IF j \in S THEN Released(j, ok)
                  ELSE IF j \in N THEN NextOccurrence(jobs[parent[j]])
                  ELSE jobs[j]]
  BY DEF Release
<1> PICK parent \in Bijection(N, Recurring(S, ok)) :
       jobs' = [j \in JobId |->
                  IF j \in S THEN Released(j, ok)
                  ELSE IF j \in N THEN NextOccurrence(jobs[parent[j]])
                  ELSE jobs[j]]
  OBVIOUS
<1>1. issued' = issued /\ scheduled' = scheduled
  BY DEF Release
<1>2. \A j \in N : j \in JobId /\ jobs[j].status = "absent" /\ j \notin S
  BY DEF FreeIds
<1>3. /\ \A n \in N : parent[n] \in Recurring(S, ok)
      /\ \A m, n \in N : parent[m] = parent[n] => m = n
      /\ \A r \in Recurring(S, ok) : \E n \in N : parent[n] = r
  BY DEF Bijection, Injection, Surjection, IsInjective
<1>4. \A r \in Recurring(S, ok) : /\ r \in S /\ r \in JobId /\ Terminal(r, ok)
                                  /\ jobs[r].repeat > 0 /\ jobs[r].status = "running"
                                  /\ jobs[r] \in Row
  BY DEF Recurring, TypeOK
<1>5. \A j \in S : jobs'[j] = Released(j, ok)
  OBVIOUS
<1>6. \A j \in N : jobs'[j] = NextOccurrence(jobs[parent[j]])
  BY <1>2
<1>7. \A j \in JobId \ (S \cup N) : jobs'[j] = jobs[j]
  OBVIOUS
<1>8. ASSUME NEW j \in S
      PROVE  /\ jobs'[j] \in Row
             /\ jobs'[j].status \in {"queued", "succeeded", "dead"}
             /\ jobs'[j].status = "queued" <=> ~Terminal(j, ok)
             /\ jobs'[j].status = "dead" => jobs[j].attempts = MaxAttempts
             /\ jobs'[j].kind = jobs[j].kind /\ jobs'[j].key = jobs[j].key
             /\ jobs'[j].repeat = jobs[j].repeat /\ jobs'[j].attempts = jobs[j].attempts
             /\ jobs'[j].token = Null
  BY <1>5, ReleasedFacts
<1>9. ASSUME NEW n \in N
      PROVE  /\ jobs'[n] \in Row /\ jobs'[n].status = "queued"
             /\ jobs'[n].kind = jobs[parent[n]].kind /\ jobs'[n].kind \in Kind
             /\ jobs'[n].key = jobs[parent[n]].key
             /\ jobs'[n].repeat = jobs[parent[n]].repeat /\ jobs'[n].repeat > 0
             /\ jobs'[n].attempts = 0 /\ jobs'[n].token = Null
  <2> DEFINE row == jobs[parent[n]]
  <2>1. /\ row \in Row /\ row.status = "running" /\ row.repeat > 0 /\ parent[n] \in JobId
    BY <1>3, <1>4
  <2>2. row.kind # Null
    BY <2>1 DEF TypeOK
  <2>3. /\ row.kind \in Kind /\ row.key \in Key \cup {Null} /\ row.prio \in Priority
        /\ row.repeat \in Nat
    BY <2>1, <2>2 DEF Row
  <2>4. jobs'[n] = NewRow(row.kind, row.key, row.prio, row.repeat, row.repeat)
    BY <1>6 DEF NextOccurrence
  <2> HIDE DEF row
  <2>5. /\ jobs'[n] \in Row /\ jobs'[n].status = "queued" /\ jobs'[n].kind = row.kind
        /\ jobs'[n].key = row.key /\ jobs'[n].repeat = row.repeat
        /\ jobs'[n].attempts = 0 /\ jobs'[n].token = Null
    BY <2>3, <2>4, NewRowFacts
  <2> QED BY <2>1, <2>3, <2>5 DEF row
<1>10. TypeOK'
  <2>1. ASSUME NEW j \in JobId
        PROVE  /\ jobs'[j] \in Row
               /\ (jobs'[j].status = "running") <=> (jobs'[j].token # Null)
               /\ (jobs'[j].status = "absent") <=> (jobs'[j].kind = Null)
    <3>1. CASE j \in S
      <4>1. jobs[j].kind # Null /\ jobs[j].status = "running"
        BY <3>1 DEF TypeOK
      <4> QED BY <1>8, <3>1, <4>1
    <3>2. CASE j \in N
      BY <1>9, <3>2, QueueAssumption DEF QueueAssumption
    <3>3. CASE j \notin S /\ j \notin N
      BY <1>7, <3>3 DEF TypeOK
    <3> QED BY <3>1, <3>2, <3>3
  <2>2. jobs' \in [JobId -> Row]
    BY <2>1
  <2> QED BY <1>1, <2>1, <2>2 DEF TypeOK
<1>11. SingletonActive'
  <2> DEFINE Origin(i) == IF i \in N THEN parent[i] ELSE i
  <2>1. SUFFICES ASSUME NEW a \in JobId, NEW b \in JobId, Active(a)', Active(b)',
                        jobs'[a].key # Null, jobs'[a].key = jobs'[b].key,
                        jobs'[a].kind = jobs'[b].kind
                 PROVE  a = b
    BY DEF SingletonActive
  <2>2. ASSUME NEW i \in JobId, Active(i)'
        PROVE  /\ Origin(i) \in JobId /\ Active(Origin(i))
               /\ jobs'[i].key = jobs[Origin(i)].key /\ jobs'[i].kind = jobs[Origin(i)].kind
    <3>1. CASE i \in N
      BY <1>3, <1>4, <1>9, <3>1 DEF Active
    <3>2. CASE i \in S
      BY <1>2, <1>8, <3>2 DEF Active
    <3>3. CASE i \notin S /\ i \notin N
      BY <1>7, <2>2, <3>3 DEF Active
    <3> QED BY <3>1, <3>2, <3>3
  <2>3. Origin(a) = Origin(b)
    <3>1. /\ Origin(a) \in JobId /\ Active(Origin(a)) /\ Origin(b) \in JobId /\ Active(Origin(b))
          /\ jobs[Origin(a)].key # Null /\ jobs[Origin(a)].key = jobs[Origin(b)].key
          /\ jobs[Origin(a)].kind = jobs[Origin(b)].kind
      BY <2>1, <2>2
    <3> HIDE DEF Origin
    <3> QED BY <3>1 DEF SingletonActive
  \* A row that has a successor is over, so it is not the other active row.
  <2>4. ASSUME NEW i \in JobId, NEW n \in N, Active(i)', i \notin N PROVE parent[n] # i
    <3>1. SUFFICES ASSUME parent[n] = i PROVE FALSE
      OBVIOUS
    <3>2. i \in S /\ Terminal(i, ok)
      BY <1>3, <1>4, <3>1
    <3>3. jobs'[i].status \in {"succeeded", "dead"}
      BY <1>8, <3>2
    <3> QED BY <2>4, <3>3 DEF Active
  <2>5. CASE a \in N /\ b \in N
    BY <1>3, <2>3, <2>5
  <2>6. CASE a \in N /\ b \notin N
    BY <2>1, <2>3, <2>4, <2>6
  <2>7. CASE a \notin N /\ b \in N
    BY <2>1, <2>3, <2>4, <2>7
  <2>8. CASE a \notin N /\ b \notin N
    BY <2>3, <2>8
  <2> QED BY <2>5, <2>6, <2>7, <2>8
<1>12. WithinCapacity'
  <2>1. ASSUME NEW j \in JobId, jobs'[j].status = "running"
        PROVE  jobs[j].status = "running" /\ jobs[j].kind = jobs'[j].kind
    BY <1>7, <1>8, <1>9, <2>1
  <2> QED BY <2>1, RunningShrinks
<1>13. AttemptsAccounted'
  <2> SUFFICES ASSUME NEW j \in JobId
               PROVE  /\ jobs'[j].status = "queued" => jobs'[j].attempts < MaxAttempts
                      /\ jobs'[j].status \in {"running", "succeeded"} => jobs'[j].attempts > 0
                      /\ jobs'[j].status = "dead" => jobs'[j].attempts = MaxAttempts
    BY DEF AttemptsAccounted
  <2>1. CASE j \in S
    <3>1. jobs[j].attempts \in Nat /\ jobs[j].attempts > 0 /\ MaxAttempts \in Nat
      BY <2>1, QueueAssumption DEF AttemptsAccounted, TypeOK, Row, QueueAssumption
    <3>2. ~Terminal(j, ok) => jobs[j].attempts < MaxAttempts
      BY <3>1 DEF Terminal
    <3> QED BY <1>8, <2>1, <3>1, <3>2
  <2>2. CASE j \in N
    BY <1>9, <2>2, QueueAssumption DEF QueueAssumption
  <2>3. CASE j \notin S /\ j \notin N
    BY <1>7, <2>3 DEF AttemptsAccounted
  <2> QED BY <2>1, <2>2, <2>3
<1>14. ScheduleKept'
  <2> SUFFICES ASSUME NEW s \in scheduled
               PROVE  \E i \in JobId : /\ Active(i)' /\ jobs'[i].repeat > 0
                                       /\ jobs'[i].kind = s[1] /\ jobs'[i].key = s[2]
    BY <1>1 DEF ScheduleKept
  <2> PICK i \in JobId : /\ Active(i) /\ jobs[i].repeat > 0
                         /\ jobs[i].kind = s[1] /\ jobs[i].key = s[2]
    BY DEF ScheduleKept
  <2>1. i \notin N
    BY <1>2 DEF Active
  <2>2. CASE i \notin S
    BY <1>7, <2>1, <2>2 DEF Active
  <2>3. CASE i \in S /\ ~Terminal(i, ok)
    BY <1>8, <2>3 DEF Active
  <2>4. CASE i \in S /\ Terminal(i, ok)
    <3>1. i \in Recurring(S, ok)
      BY <2>4 DEF Recurring
    <3> PICK n \in N : parent[n] = i
      BY <1>3, <3>1
    <3>2. /\ n \in JobId /\ Active(n)' /\ jobs'[n].repeat > 0
          /\ jobs'[n].kind = s[1] /\ jobs'[n].key = s[2]
      BY <1>2, <1>9 DEF Active
    <3> QED BY <3>2
  <2> QED BY <2>2, <2>3, <2>4
<1>15. TokensNameRows'
  <2>1. \A j \in JobId : jobs'[j].token # Null => jobs'[j] = jobs[j]
    BY <1>7, <1>8, <1>9
  <2> QED BY <1>1, <2>1 DEF TokensNameRows
<1> QED BY <1>10, <1>11, <1>12, <1>13, <1>14, <1>15 DEF QueueInv

\* Finish and Reconcile are releases of running rows.
LEMMA FinishInv ==
  ASSUME QueueInv, NEW j \in JobId, NEW t \in issued, NEW ok \in BOOLEAN, Finish(j, t, ok)
  PROVE  QueueInv'
<1>1. {j} \in SUBSET JobId /\ (\A i \in {j} : jobs[i].status = "running") /\ Release({j}, ok)
  BY DEF Finish, Owns
<1> QED BY <1>1, ReleaseInv

\* A sweep is a release of expired rows, which are running rows.
LEMMA ReconcileInv ==
  ASSUME QueueInv, Reconcile
  PROVE  QueueInv'
<1> PICK S \in SUBSET Expired : Release(S, FALSE)
  BY DEF Reconcile
<1>1. S \in SUBSET JobId /\ (\A i \in S : jobs[i].status = "running") /\ FALSE \in BOOLEAN
  BY DEF Expired
<1> QED BY <1>1, ReleaseInv

\* Two tables that differ in waits, leases and settings only satisfy the
\* invariant together: time and renewals break nothing.
LEMMA ClocksInv ==
  ASSUME QueueInv, jobs' \in [JobId -> Row], UNCHANGED <<issued, scheduled>>,
         \A j \in JobId :
           /\ jobs'[j].status = jobs[j].status /\ jobs'[j].kind = jobs[j].kind
           /\ jobs'[j].key = jobs[j].key /\ jobs'[j].repeat = jobs[j].repeat
           /\ jobs'[j].attempts = jobs[j].attempts /\ jobs'[j].token = jobs[j].token
  PROVE  QueueInv'
<1> TypeOK /\ SingletonActive /\ WithinCapacity /\ AttemptsAccounted /\ ScheduleKept
    /\ TokensNameRows
  BY DEF QueueInv
<1>1. TypeOK'
  BY DEF TypeOK
<1>2. SingletonActive' /\ AttemptsAccounted' /\ TokensNameRows' /\ ScheduleKept'
  BY DEF SingletonActive, AttemptsAccounted, TokensNameRows, ScheduleKept, Active
<1>3. WithinCapacity'
  BY RunningShrinks
<1> QED BY <1>1, <1>2, <1>3 DEF QueueInv

\* A renewal only winds up the lease of a running row.
LEMMA RenewInv ==
  ASSUME QueueInv, NEW j \in JobId, NEW t \in issued, Renew(j, t)
  PROVE  QueueInv'
<1> DEFINE row == [jobs[j] EXCEPT !.lease = LeaseTicks]
<1>1. TypeOK /\ jobs[j] \in Row /\ LeaseTicks \in Nat
  BY QueueAssumption DEF QueueInv, TypeOK, QueueAssumption
<1>2. jobs' = [jobs EXCEPT ![j] = row] /\ UNCHANGED <<issued, scheduled>>
  BY DEF Renew
<1>3. /\ row \in Row /\ row.status = jobs[j].status /\ row.kind = jobs[j].kind
      /\ row.key = jobs[j].key /\ row.repeat = jobs[j].repeat
      /\ row.attempts = jobs[j].attempts /\ row.token = jobs[j].token
  BY <1>1 DEF Row
<1> HIDE DEF row
<1>4. /\ jobs' \in [JobId -> Row] /\ jobs'[j] = row
      /\ \A i \in JobId \ {j} : jobs'[i] = jobs[i]
  BY <1>1, <1>2, <1>3, RowSet
<1> QED BY <1>2, <1>3, <1>4, ClocksInv

\* A tick only counts clocks down.
LEMMA TickInv ==
  ASSUME QueueInv, Tick
  PROVE  QueueInv'
<1>1. \A n \in Nat : Countdown(n) \in Nat
  BY DEF Countdown
<1>2. ASSUME NEW j \in JobId
      PROVE  /\ jobs'[j] \in Row
             /\ jobs'[j].status = jobs[j].status /\ jobs'[j].kind = jobs[j].kind
             /\ jobs'[j].key = jobs[j].key /\ jobs'[j].repeat = jobs[j].repeat
             /\ jobs'[j].attempts = jobs[j].attempts /\ jobs'[j].token = jobs[j].token
  <2>1. jobs[j] \in Row /\ jobs[j].wait \in Nat /\ jobs[j].lease \in Nat
    BY DEF QueueInv, TypeOK, Row
  <2>2. jobs'[j] = [jobs[j] EXCEPT !.wait = Countdown(@), !.lease = Countdown(@)]
    BY DEF Tick
  <2> QED BY <1>1, <2>1, <2>2 DEF Row
<1>3. jobs' \in [JobId -> Row] /\ UNCHANGED <<issued, scheduled>>
  BY <1>2 DEF Tick
<1> QED BY <1>2, <1>3, ClocksInv

\* Prune only lets go of rows that are over.
LEMMA PruneInv ==
  ASSUME QueueInv, NEW j \in JobId, Prune(j)
  PROVE  QueueInv'
<1> TypeOK /\ SingletonActive /\ WithinCapacity /\ AttemptsAccounted /\ ScheduleKept
    /\ TokensNameRows
  BY DEF QueueInv
<1>1. /\ NoRow \in Row /\ NoRow.status = "absent" /\ NoRow.kind = Null /\ NoRow.token = Null
      /\ NoRow.attempts = 0
  BY QueueAssumption DEF NoRow, Row, Status, QueueAssumption
<1>2. jobs' = [jobs EXCEPT ![j] = NoRow] /\ issued' = issued /\ scheduled' = scheduled
      /\ ~Active(j)
  BY DEF Prune, Active
<1>3. /\ jobs' \in [JobId -> Row] /\ jobs'[j] = NoRow
      /\ \A i \in JobId \ {j} : jobs'[i] = jobs[i]
  BY <1>1, <1>2, RowSet
<1>4. TypeOK'
  BY <1>1, <1>2, <1>3 DEF TypeOK
<1>5. SingletonActive' /\ AttemptsAccounted' /\ TokensNameRows'
  BY <1>1, <1>2, <1>3 DEF SingletonActive, AttemptsAccounted, TokensNameRows, Active
<1>6. ScheduleKept'
  BY <1>2, <1>3 DEF ScheduleKept, Active
<1>7. WithinCapacity'
  BY <1>1, <1>3, RunningShrinks
<1> QED BY <1>4, <1>5, <1>6, <1>7 DEF QueueInv

\* Forget gives a token back only once no row carries it.
LEMMA ForgetInv ==
  ASSUME QueueInv, NEW t \in Token, Forget(t)
  PROVE  QueueInv'
<1>1. jobs' = jobs /\ scheduled' = scheduled /\ issued' = issued \ {t}
      /\ \A j \in JobId : jobs[j].token # t
  BY DEF Forget
<1>2. TypeOK' /\ TokensNameRows'
  BY <1>1 DEF QueueInv, TypeOK, TokensNameRows
<1>3. SingletonActive' /\ WithinCapacity' /\ AttemptsAccounted' /\ ScheduleKept'
  BY <1>1
  DEF QueueInv, SingletonActive, WithinCapacity, Running, AttemptsAccounted, ScheduleKept, Active
<1> QED BY <1>2, <1>3 DEF QueueInv

\* Every step of the queue, and a stutter, preserves the invariant.
LEMMA NextInv ==
  ASSUME QueueInv, [Next]_queueVars
  PROVE  QueueInv'
<1>1. ASSUME NEW k \in Kind, NEW key \in Key, NEW r \in Interval, Enqueue(k, key, Null, r)
      PROVE  QueueInv'
  <2>1. r # Null
    BY QueueAssumption DEF QueueAssumption
  <2> QED BY <1>1, <2>1, EnqueueInv
<1>2. ASSUME NEW k \in Kind, NEW p \in Priority, Enqueue(k, Null, p, Null)
      PROVE  QueueInv'
  BY <1>2, EnqueueInv
<1>3. ASSUME NEW k \in Kind, NEW t \in Token, Claim(k, t) PROVE QueueInv'
  BY <1>3, ClaimInv
<1>4. ASSUME NEW j \in JobId, NEW t \in issued, Renew(j, t) PROVE QueueInv'
  BY <1>4, RenewInv
<1>5. ASSUME NEW j \in JobId, NEW t \in issued, NEW ok \in BOOLEAN, Finish(j, t, ok)
      PROVE  QueueInv'
  BY <1>5, FinishInv
<1>6. CASE Reconcile
  BY <1>6, ReconcileInv
<1>7. ASSUME NEW j \in JobId, Prune(j) PROVE QueueInv'
  BY <1>7, PruneInv
<1>8. CASE Tick
  BY <1>8, TickInv
<1>9. ASSUME NEW t \in Token, Forget(t) PROVE QueueInv'
  BY <1>9, ForgetInv
<1>10. CASE UNCHANGED queueVars
  BY <1>10
  DEF queueVars, QueueInv, TypeOK, SingletonActive, WithinCapacity, Running,
      AttemptsAccounted, ScheduleKept, TokensNameRows, Active
<1> QED BY <1>1, <1>2, <1>3, <1>4, <1>5, <1>6, <1>7, <1>8, <1>9, <1>10 DEF Next

-----------------------------------------------------------------------------
\* The strengthening: the queue's invariants hold together in every reachable
\* state of every queue.
THEOREM QueueInvariant == Spec => []QueueInv
<1>1. Init => QueueInv
  BY InitInv
<1>2. QueueInv /\ [Next]_queueVars => QueueInv'
  BY NextInv
<1> QED BY <1>1, <1>2, PTL DEF Spec

\* Every row satisfies the table's constraints: it has a lease token exactly
\* while it runs.
THEOREM TypeCorrect == Spec => []TypeOK
<1>1. QueueInv => TypeOK
  BY DEF QueueInv
<1> QED BY <1>1, QueueInvariant, PTL

\* At most one occurrence of a singleton is queued or running.
THEOREM OneOccurrence == Spec => []SingletonActive
<1>1. QueueInv => SingletonActive
  BY DEF QueueInv
<1> QED BY <1>1, QueueInvariant, PTL

\* No kind ever runs more jobs than its max_concurrency.
THEOREM CapacityHolds == Spec => []WithinCapacity
<1>1. QueueInv => WithinCapacity
  BY DEF QueueInv
<1> QED BY <1>1, QueueInvariant, PTL

\* Attempts are counted at the claim and bounded by max_attempts.
THEOREM AttemptsBounded == Spec => []AttemptsAccounted
<1>1. QueueInv => AttemptsAccounted
  BY DEF QueueInv
<1> QED BY <1>1, QueueInvariant, PTL

\* A schedule, once enqueued, always has a queued or running occurrence.
THEOREM ScheduleNeverLost == Spec => []ScheduleKept
<1>1. QueueInv => ScheduleKept
  BY DEF QueueInv
<1> QED BY <1>1, QueueInvariant, PTL

\* A lease token names at most one row and is never handed out twice while one
\* carries it.
THEOREM TokensAreNames == Spec => []TokensNameRows
<1>1. QueueInv => TokensNameRows
  BY DEF QueueInv
<1> QED BY <1>1, QueueInvariant, PTL

\* A release of rows whose lease is live, or that are not acknowledged, keeps
\* within the fence.
LEMMA ReleaseFenced ==
  ASSUME QueueInv, NEW S \in SUBSET JobId, NEW ok \in BOOLEAN,
         \A j \in S : jobs[j].status = "running" /\ (jobs[j].lease > 0 \/ ~ok),
         Release(S, ok)
  PROVE  \A j \in JobId : FencedStep(j)
<1> PICK N \in SUBSET FreeIds : \E parent \in Bijection(N, Recurring(S, ok)) :
       jobs' = [j \in JobId |->
                  IF j \in S THEN Released(j, ok)
                  ELSE IF j \in N THEN NextOccurrence(jobs[parent[j]])
                  ELSE jobs[j]]
  BY DEF Release
<1> SUFFICES ASSUME NEW j \in JobId, jobs[j].status = "running"
             PROVE  /\ jobs'[j].status = "running" =>
                         /\ jobs'[j].token = jobs[j].token
                         /\ jobs'[j].attempts = jobs[j].attempts
                    /\ jobs[j].lease = 0 =>
                         jobs'[j].lease = 0 /\ jobs'[j].status # "succeeded"
  BY DEF FencedStep
<1>1. CASE j \in S
  <2>1. jobs'[j] = Released(j, ok)
    BY <1>1
  <2>2. jobs[j].lease = 0 => ~ok
    BY <1>1
  <2>3. ~ok => Released(j, ok).status # "succeeded"
    <3>1. jobs[j] \in Row
      BY DEF QueueInv, TypeOK
    <3> QED BY <3>1 DEF Released, Row
  <2> QED BY <2>1, <2>2, <2>3, ReleasedFacts
<1>2. CASE j \notin S
  BY <1>2 DEF FreeIds
<1> QED BY <1>1, <1>2

\* Every step of the queue keeps within the fence.
LEMMA NextFenced ==
  ASSUME QueueInv, Next
  PROVE  \A j \in JobId : FencedStep(j)
<1> TypeOK /\ LeaseTicks \in Nat
  BY QueueAssumption DEF QueueInv, QueueAssumption
<1>1. ASSUME NEW k \in Kind, NEW key \in Key \cup {Null}, NEW p, NEW r, Enqueue(k, key, p, r)
      PROVE  \A j \in JobId : FencedStep(j)
  <2> SUFFICES ASSUME NEW j \in JobId PROVE FencedStep(j)
    OBVIOUS
  <2>1. CASE \E i \in Duplicates(k, key) : jobs' = [jobs EXCEPT ![i] = Resettled(jobs[i], p, r)]
    <3> PICK i \in Duplicates(k, key) : jobs' = [jobs EXCEPT ![i] = Resettled(jobs[i], p, r)]
      BY <2>1
    <3>1. jobs[j] \in Row /\ jobs'[j] = IF i = j THEN Resettled(jobs[j], p, r) ELSE jobs[j]
      BY DEF TypeOK
    <3> QED BY <3>1 DEF FencedStep, Resettled, Row
  <2>2. CASE \E i \in FreeIds :
               jobs' = [jobs EXCEPT ![i] = NewRow(k, key, Coalesce(p, 0), Coalesce(r, 0), 0)]
    <3> PICK i \in FreeIds :
               jobs' = [jobs EXCEPT ![i] = NewRow(k, key, Coalesce(p, 0), Coalesce(r, 0), 0)]
      BY <2>2
    <3>1. i # j => jobs'[j] = jobs[j]
      BY DEF TypeOK
    <3>2. i = j => jobs[j].status # "running"
      BY DEF FreeIds
    <3> QED BY <3>1, <3>2 DEF FencedStep
  <2> QED BY <1>1, <2>1, <2>2 DEF Enqueue
<1>2. ASSUME NEW k \in Kind, NEW t \in Token, Claim(k, t)
      PROVE  \A j \in JobId : FencedStep(j)
  <2> PICK i \in Claimable(k) : jobs' = Take(i, t)
    BY <1>2 DEF Claim
  <2>1. jobs[i].status = "queued" /\ (\A j \in JobId \ {i} : jobs'[j] = jobs[j])
    BY DEF Claimable, Due, Take, TypeOK
  <2> QED BY <2>1 DEF FencedStep
<1>3. ASSUME NEW i \in JobId, NEW t \in issued, Renew(i, t)
      PROVE  \A j \in JobId : FencedStep(j)
  <2> SUFFICES ASSUME NEW j \in JobId PROVE FencedStep(j)
    OBVIOUS
  <2>1. /\ jobs[j] \in Row
        /\ jobs'[j] = IF i = j THEN [jobs[j] EXCEPT !.lease = LeaseTicks] ELSE jobs[j]
        /\ jobs[i].lease > 0 /\ jobs[i].status = "running"
    BY <1>3 DEF Renew, Owns, TypeOK
  <2>2. CASE i = j
    <3>1. /\ jobs'[j].status = "running" /\ jobs'[j].token = jobs[j].token
          /\ jobs'[j].attempts = jobs[j].attempts
      BY <2>1, <2>2 DEF Row
    <3>2. jobs[j].lease # 0
      BY <2>1, <2>2
    <3> QED BY <3>1, <3>2 DEF FencedStep
  <2>3. CASE i # j
    BY <2>1, <2>3 DEF FencedStep
  <2> QED BY <2>2, <2>3
<1>4. ASSUME NEW i \in JobId, NEW t \in issued, NEW ok \in BOOLEAN, Finish(i, t, ok)
      PROVE  \A j \in JobId : FencedStep(j)
  <2>1. /\ {i} \in SUBSET JobId /\ Release({i}, ok)
        /\ \A j \in {i} : jobs[j].status = "running" /\ (jobs[j].lease > 0 \/ ~ok)
    BY <1>4 DEF Finish, Owns
  <2> QED BY <2>1, ReleaseFenced
<1>5. CASE Reconcile
  <2> PICK S \in SUBSET Expired : Release(S, FALSE)
    BY <1>5 DEF Reconcile
  <2>1. /\ S \in SUBSET JobId /\ FALSE \in BOOLEAN
        /\ \A j \in S : jobs[j].status = "running" /\ (jobs[j].lease > 0 \/ ~FALSE)
    BY DEF Expired
  <2> QED BY <2>1, ReleaseFenced
<1>6. ASSUME NEW i \in JobId, Prune(i)
      PROVE  \A j \in JobId : FencedStep(j)
  <2>1. jobs[i].status # "running" /\ (\A j \in JobId \ {i} : jobs'[j] = jobs[j])
    BY <1>6 DEF Prune, TypeOK
  <2> QED BY <2>1 DEF FencedStep
<1>7. CASE Tick
  <2> SUFFICES ASSUME NEW j \in JobId PROVE FencedStep(j)
    OBVIOUS
  <2>1. /\ jobs[j] \in Row
        /\ jobs'[j] = [jobs[j] EXCEPT !.wait = Countdown(@), !.lease = Countdown(@)]
    BY <1>7 DEF Tick, TypeOK
  <2>2. /\ jobs'[j].status = jobs[j].status /\ jobs'[j].token = jobs[j].token
        /\ jobs'[j].attempts = jobs[j].attempts /\ jobs'[j].lease = Countdown(jobs[j].lease)
    BY <2>1 DEF Row
  <2>3. Countdown(0) = 0
    BY DEF Countdown
  <2> QED BY <2>2, <2>3 DEF FencedStep
<1>8. ASSUME NEW t \in Token, Forget(t)
      PROVE  \A j \in JobId : FencedStep(j)
  BY <1>8 DEF Forget, FencedStep
<1>9. ASSUME NEW k \in Kind, NEW key \in Key, NEW r \in Interval, Enqueue(k, key, Null, r)
      PROVE  \A j \in JobId : FencedStep(j)
  BY <1>1, <1>9
<1>10. ASSUME NEW k \in Kind, NEW p \in Priority, Enqueue(k, Null, p, Null)
       PROVE  \A j \in JobId : FencedStep(j)
  BY <1>1, <1>10
<1> QED BY <1>2, <1>3, <1>4, <1>5, <1>6, <1>7, <1>8, <1>9, <1>10 DEF Next

\* A lapsed lease can be neither renewed nor acknowledged, and a running row
\* keeps its token and its attempt until it is released.
THEOREM LeasesFence == Spec => LeaseFence
<1>1. QueueInv /\ [Next]_queueVars => [\A j \in JobId : FencedStep(j)]_queueVars
  BY NextFenced
<1> QED BY <1>1, QueueInvariant, PTL DEF Spec, LeaseFence

-----------------------------------------------------------------------------
\* Only an acknowledgement or a sweep takes a row out of "running".
LEMMA RunningStays ==
  ASSUME TypeOK, NEW j \in JobId, jobs[j].status = "running",
         \/ \E k, key, prio, repeat : Enqueue(k, key, prio, repeat)
         \/ \E k, t : Claim(k, t)
         \/ \E i, t : Renew(i, t)
         \/ \E i \in JobId : Prune(i)
         \/ Tick
         \/ \E t : Forget(t)
  PROVE  jobs'[j].status = "running"
<1>1. jobs[j] \in Row /\ \A i \in JobId : jobs[i] \in Row
  BY DEF TypeOK
<1>2. ASSUME NEW k, NEW key, NEW p, NEW r, Enqueue(k, key, p, r)
      PROVE  jobs'[j].status = "running"
  <2>1. CASE \E i \in Duplicates(k, key) : jobs' = [jobs EXCEPT ![i] = Resettled(jobs[i], p, r)]
    <3> PICK i \in Duplicates(k, key) : jobs' = [jobs EXCEPT ![i] = Resettled(jobs[i], p, r)]
      BY <2>1
    <3>1. jobs'[j] = IF i = j THEN Resettled(jobs[j], p, r) ELSE jobs[j]
      BY DEF TypeOK
    <3> QED BY <1>1, <3>1 DEF Resettled, Row
  <2>2. CASE \E i \in FreeIds :
               jobs' = [jobs EXCEPT ![i] = NewRow(k, key, Coalesce(p, 0), Coalesce(r, 0), 0)]
    BY <2>2 DEF FreeIds, TypeOK
  <2> QED BY <1>2, <2>1, <2>2 DEF Enqueue
<1>3. ASSUME NEW k, NEW t, Claim(k, t)
      PROVE  jobs'[j].status = "running"
  BY <1>3 DEF Claim, Claimable, Due, Take, TypeOK
<1>4. ASSUME NEW i, NEW t, Renew(i, t)
      PROVE  jobs'[j].status = "running"
  <2>1. jobs'[j] = IF i = j THEN [jobs[j] EXCEPT !.lease = LeaseTicks] ELSE jobs[j]
    BY <1>4 DEF Renew, TypeOK
  <2> QED BY <1>1, <2>1 DEF Row
<1>5. ASSUME NEW i \in JobId, Prune(i)
      PROVE  jobs'[j].status = "running"
  BY <1>5 DEF Prune, TypeOK
<1>6. CASE Tick
  <2>1. jobs'[j] = [jobs[j] EXCEPT !.wait = Countdown(@), !.lease = Countdown(@)]
    BY <1>6 DEF Tick
  <2> QED BY <1>1, <2>1 DEF Row
<1>7. ASSUME NEW t, Forget(t)
      PROVE  jobs'[j].status = "running"
  BY <1>7 DEF Forget
<1> QED BY <1>2, <1>3, <1>4, <1>5, <1>6, <1>7

\* An acknowledgement ends the one row its token owns, as it says.
LEMMA FinishEnds ==
  ASSUME TypeOK, NEW i \in JobId, NEW t, NEW ok \in BOOLEAN, Finish(i, t, ok),
         NEW j \in JobId, jobs[j].status = "running"
  PROVE  \/ jobs'[j].status = "running"
         \/ j = i /\ jobs[j].token = t /\ (jobs'[j].status = "succeeded" => ok)
<1> PICK N \in SUBSET FreeIds : \E parent \in Bijection(N, Recurring({i}, ok)) :
       jobs' = [r \in JobId |->
                  IF r \in {i} THEN Released(r, ok)
                  ELSE IF r \in N THEN NextOccurrence(jobs[parent[r]])
                  ELSE jobs[r]]
  BY DEF Finish, Release
<1>1. j # i => jobs'[j] = jobs[j]
  BY DEF FreeIds
<1>2. j = i => jobs'[j] = Released(j, ok) /\ jobs[j].token = t
  BY DEF Finish, Owns
<1>3. ~ok => Released(j, ok).status # "succeeded"
  <2>1. jobs[j] \in Row
    BY DEF TypeOK
  <2> QED BY <2>1 DEF Released, Row
<1> QED BY <1>1, <1>2, <1>3

\* A sweep ends expired rows only, and none of them as a success.
LEMMA ReconcileEnds ==
  ASSUME TypeOK, Reconcile, NEW j \in JobId, jobs[j].status = "running"
  PROVE  \/ jobs'[j].status = "running"
         \/ jobs[j].lease = 0 /\ jobs'[j].status # "succeeded"
<1> PICK S \in SUBSET Expired : Release(S, FALSE)
  BY DEF Reconcile
<1> PICK N \in SUBSET FreeIds : \E parent \in Bijection(N, Recurring(S, FALSE)) :
       jobs' = [r \in JobId |->
                  IF r \in S THEN Released(r, FALSE)
                  ELSE IF r \in N THEN NextOccurrence(jobs[parent[r]])
                  ELSE jobs[r]]
  BY DEF Release
<1>1. j \notin S => jobs'[j] = jobs[j]
  BY DEF FreeIds
<1>2. j \in S => jobs'[j] = Released(j, FALSE) /\ jobs[j].lease = 0
  BY DEF Expired
<1>3. Released(j, FALSE).status # "succeeded"
  <2>1. jobs[j] \in Row
    BY DEF TypeOK
  <2> QED BY <2>1 DEF Released, Row
<1> QED BY <1>1, <1>2, <1>3

-----------------------------------------------------------------------------
\* The refinement mapping, before and after a step, read off the two tables.
LEMMA MapView ==
  /\ [s \in Kind \X Key |-> PhaseOf(s)] = [s \in Kind \X Key |-> PhaseIn(jobs, s)]
  /\ [s \in Kind \X Key |-> TriesOf(s)] = [s \in Kind \X Key |-> TriesIn(jobs, s)]
  /\ [s \in Kind \X Key |-> PhaseOf(s)]' = [s \in Kind \X Key |-> PhaseIn(jobs', s)]
  /\ [s \in Kind \X Key |-> TriesOf(s)]' = [s \in Kind \X Key |-> TriesIn(jobs', s)]
BY DEF PhaseOf, TriesOf, PhaseIn, TriesIn, Occurrence, OccurrenceIn, Active

\* A schedule with one occurrence has the phase and the tries of that row.
LEMMA OneView ==
  ASSUME NEW T, NEW s, NEW j \in JobId, OccurrenceIn(T, s) = {j}
  PROVE  /\ T[j].status = "running" => PhaseIn(T, s) = "leased"
         /\ T[j].status # "running" => PhaseIn(T, s) = "pending"
         /\ TriesIn(T, s) = T[j].attempts
<1>1. (CHOOSE i \in {j} : TRUE) = j
  OBVIOUS
<1> QED BY <1>1 DEF PhaseIn, TriesIn

\* Two tables with the same occurrences of a schedule show the same of it.
LEMMA SameView ==
  ASSUME NEW T, NEW U, NEW s, OccurrenceIn(U, s) = OccurrenceIn(T, s),
         \A j \in OccurrenceIn(T, s) : /\ U[j].status = T[j].status
                                       /\ U[j].attempts = T[j].attempts
  PROVE  PhaseIn(U, s) = PhaseIn(T, s) /\ TriesIn(U, s) = TriesIn(T, s)
<1>1. PhaseIn(U, s) = PhaseIn(T, s)
  BY DEF PhaseIn
<1>2. TriesIn(U, s) = TriesIn(T, s)
  <2>1. CASE OccurrenceIn(T, s) = {}
    BY <2>1 DEF TriesIn
  <2>2. CASE OccurrenceIn(T, s) # {}
    <3>1. (CHOOSE j \in OccurrenceIn(T, s) : TRUE) \in OccurrenceIn(T, s)
      BY <2>2
    <3> QED BY <2>2, <3>1 DEF TriesIn
  <2> QED BY <2>1, <2>2
<1> QED BY <1>1, <1>2

\* An active row of a singleton is its schedule's one occurrence.
LEMMA TheOccurrence ==
  ASSUME NEW s \in Kind \X Key, NEW j \in JobId
  PROVE  /\ SingletonActive /\ j \in OccurrenceIn(jobs, s) => OccurrenceIn(jobs, s) = {j}
         /\ SingletonActive' /\ j \in OccurrenceIn(jobs', s) => OccurrenceIn(jobs', s) = {j}
<1>1. s[1] # Null /\ s[2] # Null
  BY QueueAssumption DEF QueueAssumption
<1>2. ASSUME SingletonActive, j \in OccurrenceIn(jobs, s)
      PROVE  OccurrenceIn(jobs, s) = {j}
  BY <1>1, <1>2 DEF SingletonActive, OccurrenceIn, Active
<1>3. ASSUME SingletonActive', j \in OccurrenceIn(jobs', s)
      PROVE  OccurrenceIn(jobs', s) = {j}
  BY <1>1, <1>3 DEF SingletonActive, OccurrenceIn, Active
<1> QED BY <1>2, <1>3

\* A step that leaves the occurrences of every schedule alone is a stutter.
LEMMA UntouchedStep ==
  ASSUME \A s \in Kind \X Key :
           /\ OccurrenceIn(jobs', s) = OccurrenceIn(jobs, s)
           /\ \A j \in OccurrenceIn(jobs, s) : /\ jobs'[j].status = jobs[j].status
                                                /\ jobs'[j].attempts = jobs[j].attempts
  PROVE  UNCHANGED Promise!recurringVars
<1>1. \A s \in Kind \X Key : /\ PhaseIn(jobs', s) = PhaseIn(jobs, s)
                              /\ TriesIn(jobs', s) = TriesIn(jobs, s)
  BY SameView
<1> QED BY <1>1, MapView DEF Promise!recurringVars

\* A row that changes neither its identity nor its attempt touches no schedule.
LEMMA QuietRows ==
  ASSUME \A j \in JobId : /\ jobs'[j].status = jobs[j].status
                          /\ jobs'[j].kind = jobs[j].kind /\ jobs'[j].key = jobs[j].key
                          /\ jobs'[j].attempts = jobs[j].attempts
  PROVE  UNCHANGED Promise!recurringVars
<1>1. \A s \in Kind \X Key :
        /\ OccurrenceIn(jobs', s) = OccurrenceIn(jobs, s)
        /\ \A j \in OccurrenceIn(jobs, s) : /\ jobs'[j].status = jobs[j].status
                                             /\ jobs'[j].attempts = jobs[j].attempts
  BY DEF OccurrenceIn
<1> QED BY <1>1, UntouchedStep

\* An enqueue starts its schedule if it has no occurrence, and touches no other.
LEMMA EnqueueView ==
  ASSUME QueueInv, NEW k \in Kind, NEW key \in Key \cup {Null},
         NEW prio \in Priority \cup {Null}, NEW repeat \in Interval \cup {Null},
         Enqueue(k, key, prio, repeat)
  PROVE  Promise!Next \/ UNCHANGED Promise!recurringVars
<1> TypeOK /\ SingletonActive
  BY DEF QueueInv
<1>1. ASSUME NEW j \in Duplicates(k, key),
             jobs' = [jobs EXCEPT ![j] = Resettled(jobs[j], prio, repeat)]
      PROVE  UNCHANGED Promise!recurringVars
  <2>1. \A i \in JobId : jobs[i] \in Row
    BY DEF TypeOK
  <2>2. \A i \in JobId : jobs'[i] = IF i = j THEN Resettled(jobs[j], prio, repeat) ELSE jobs[i]
    BY <1>1 DEF TypeOK
  <2>3. j \in JobId
    BY DEF Duplicates
  <2>4. LET row == Resettled(jobs[j], prio, repeat)
        IN  /\ row.status = jobs[j].status /\ row.kind = jobs[j].kind
            /\ row.key = jobs[j].key /\ row.attempts = jobs[j].attempts
    BY <2>1, <2>3 DEF Resettled, Row
  <2> QED BY <2>2, <2>4, QuietRows
<1>2. ASSUME Duplicates(k, key) = {}, NEW j \in FreeIds,
             jobs' = [jobs EXCEPT ![j] =
                        NewRow(k, key, Coalesce(prio, 0), Coalesce(repeat, 0), 0)]
      PROVE  Promise!Next \/ UNCHANGED Promise!recurringVars
  <2>1. j \in JobId /\ jobs[j].status = "absent"
    BY DEF FreeIds
  <2>2. /\ jobs'[j].status = "queued" /\ jobs'[j].kind = k /\ jobs'[j].key = key
        /\ jobs'[j].attempts = 0
        /\ \A i \in JobId \ {j} : jobs'[i] = jobs[i]
    BY <1>2, <2>1 DEF TypeOK, NewRow
  <2>3. ASSUME NEW s \in Kind \X Key, s # <<k, key>>
        PROVE  /\ OccurrenceIn(jobs', s) = OccurrenceIn(jobs, s)
               /\ \A i \in OccurrenceIn(jobs, s) : jobs'[i] = jobs[i]
    <3>1. ~(s[1] = k /\ s[2] = key)
      BY <2>3
    <3> QED BY <2>1, <2>2, <3>1 DEF OccurrenceIn
  <2>4. CASE key = Null
    <3>1. \A s \in Kind \X Key : s # <<k, key>>
      BY <2>4, QueueAssumption DEF QueueAssumption
    <3> QED BY <2>3, <3>1, UntouchedStep
  <2>5. CASE key # Null
    <3> DEFINE s0 == <<k, key>>
    <3>1. s0 \in Kind \X Key /\ s0[1] = k /\ s0[2] = key
      BY <2>5
    <3>2. OccurrenceIn(jobs, s0) = {}
      BY <1>2, <2>5 DEF Duplicates, OccurrenceIn, Active
    <3>3. OccurrenceIn(jobs', s0) = {j}
      BY <2>1, <2>2, <3>1, <3>2 DEF OccurrenceIn
    <3> HIDE DEF s0
    <3>4. PhaseIn(jobs, s0) = "unscheduled" /\ TriesIn(jobs, s0) = 0
      BY <3>2 DEF PhaseIn, TriesIn
    <3>5. PhaseIn(jobs', s0) = "pending" /\ TriesIn(jobs', s0) = 0
      BY <2>1, <2>2, <3>3, OneView
    <3>6. \A s \in Kind \X Key : s # s0 => /\ PhaseIn(jobs', s) = PhaseIn(jobs, s)
                                          /\ TriesIn(jobs', s) = TriesIn(jobs, s)
      BY <2>3, SameView DEF s0
    <3> DEFINE P0 == [s \in Kind \X Key |-> PhaseIn(jobs, s)]
               P1 == [s \in Kind \X Key |-> PhaseIn(jobs', s)]
               T0 == [s \in Kind \X Key |-> TriesIn(jobs, s)]
               T1 == [s \in Kind \X Key |-> TriesIn(jobs', s)]
    <3>7. P0[s0] = "unscheduled" /\ P1 = [P0 EXCEPT ![s0] = "pending"] /\ T1 = T0
      BY <3>1, <3>4, <3>5, <3>6
    <3> HIDE DEF P0, P1, T0, T1
    <3>8. Promise!Begin(s0)
      BY <3>7, MapView, Zenon DEF Promise!Begin, P0, P1, T0, T1
    <3> QED BY <3>1, <3>8 DEF Promise!Next
  <2> QED BY <2>4, <2>5
<1> QED BY <1>1, <1>2 DEF Enqueue

\* A claim leases the one occurrence of its schedule, for one more attempt.
LEMMA ClaimView ==
  ASSUME QueueInv, NEW k \in Kind, NEW t \in Token, Claim(k, t)
  PROVE  Promise!Next \/ UNCHANGED Promise!recurringVars
<1> TypeOK /\ SingletonActive /\ AttemptsAccounted /\ SingletonActive'
  BY ClaimInv DEF QueueInv
<1> PICK j \in Claimable(k) : jobs' = Take(j, t)
  BY DEF Claim
<1>1. /\ j \in JobId /\ jobs[j] \in Row /\ jobs[j].status = "queued"
      /\ jobs[j].kind = k /\ jobs[j].attempts < MaxAttempts
  BY DEF Claimable, Due, TypeOK, AttemptsAccounted
<1>2. /\ jobs'[j].status = "running" /\ jobs'[j].kind = k /\ jobs'[j].key = jobs[j].key
      /\ jobs'[j].attempts = jobs[j].attempts + 1
      /\ \A i \in JobId \ {j} : jobs'[i] = jobs[i]
  BY <1>1 DEF Take, TypeOK, Row
<1> DEFINE s0 == <<k, jobs[j].key>>
<1>3. ASSUME NEW s \in Kind \X Key, s # s0
      PROVE  /\ OccurrenceIn(jobs', s) = OccurrenceIn(jobs, s)
             /\ \A i \in OccurrenceIn(jobs, s) : jobs'[i] = jobs[i]
  <2>1. ~(s[1] = k /\ s[2] = jobs[j].key)
    BY <1>3
  <2> QED BY <1>1, <1>2, <2>1 DEF OccurrenceIn
<1>4. CASE jobs[j].key = Null
  <2>1. \A s \in Kind \X Key : s # s0
    BY <1>4, QueueAssumption DEF QueueAssumption
  <2> QED BY <1>3, <2>1, UntouchedStep
<1>5. CASE jobs[j].key # Null
  <2>1. s0 \in Kind \X Key /\ s0[1] = k /\ s0[2] = jobs[j].key
    BY <1>1, <1>5 DEF Row
  <2>2. j \in OccurrenceIn(jobs, s0) /\ j \in OccurrenceIn(jobs', s0)
    BY <1>1, <1>2, <2>1 DEF OccurrenceIn
  <2> HIDE DEF s0
  <2>3. OccurrenceIn(jobs, s0) = {j} /\ OccurrenceIn(jobs', s0) = {j}
    BY <1>1, <2>1, <2>2, TheOccurrence
  <2>4. /\ PhaseIn(jobs, s0) = "pending" /\ TriesIn(jobs, s0) = jobs[j].attempts
        /\ PhaseIn(jobs', s0) = "leased" /\ TriesIn(jobs', s0) = jobs[j].attempts + 1
    BY <1>1, <1>2, <2>3, OneView
  <2>5. \A s \in Kind \X Key : s # s0 => /\ PhaseIn(jobs', s) = PhaseIn(jobs, s)
                                        /\ TriesIn(jobs', s) = TriesIn(jobs, s)
    BY <1>3, SameView
  <2> DEFINE P0 == [s \in Kind \X Key |-> PhaseIn(jobs, s)]
             P1 == [s \in Kind \X Key |-> PhaseIn(jobs', s)]
             T0 == [s \in Kind \X Key |-> TriesIn(jobs, s)]
             T1 == [s \in Kind \X Key |-> TriesIn(jobs', s)]
  <2>6. /\ P0[s0] = "pending" /\ T0[s0] < MaxAttempts
        /\ P1 = [P0 EXCEPT ![s0] = "leased"] /\ T1 = [T0 EXCEPT ![s0] = T0[s0] + 1]
    BY <1>1, <2>1, <2>4, <2>5
  <2> HIDE DEF P0, P1, T0, T1
  <2>7. Promise!Lease(s0)
    BY <2>6, MapView, Zenon DEF Promise!Lease, P0, P1, T0, T1
  <2> QED BY <2>1, <2>7 DEF Promise!Next
<1> QED BY <1>4, <1>5

\* The end of an attempt ends the lease of its schedule: the same occurrence is
\* pending again, or the next one is.
LEMMA ReleaseView ==
  ASSUME QueueInv, KeyedRecurs, NEW S \in SUBSET JobId, NEW ok \in BOOLEAN,
         \A j \in S : jobs[j].status = "running",
         Release(S, ok)
  PROVE  Promise!Next
<1> TypeOK /\ SingletonActive /\ AttemptsAccounted /\ SingletonActive' /\ TypeOK'
    /\ MaxAttempts \in Nat
  BY ReleaseInv, QueueAssumption DEF QueueInv, QueueAssumption
<1> PICK N \in SUBSET FreeIds : \E parent \in Bijection(N, Recurring(S, ok)) :
       jobs' = [j \in JobId |->
                  IF j \in S THEN Released(j, ok)
                  ELSE IF j \in N THEN NextOccurrence(jobs[parent[j]])
                  ELSE jobs[j]]
  BY DEF Release
<1> PICK parent \in Bijection(N, Recurring(S, ok)) :
       jobs' = [j \in JobId |->
                  IF j \in S THEN Released(j, ok)
                  ELSE IF j \in N THEN NextOccurrence(jobs[parent[j]])
                  ELSE jobs[j]]
  OBVIOUS
<1>1. /\ \A n \in N : /\ n \in JobId /\ jobs[n].status = "absent" /\ n \notin S
                     /\ parent[n] \in Recurring(S, ok)
      /\ \A r \in Recurring(S, ok) : \E n \in N : parent[n] = r
  BY DEF FreeIds, Bijection, Injection, Surjection
<1>2. ASSUME NEW j \in S
      PROVE  /\ jobs'[j].status = "queued" <=> ~Terminal(j, ok)
             /\ jobs'[j].status # "running"
             /\ jobs'[j].kind = jobs[j].kind /\ jobs'[j].key = jobs[j].key
             /\ jobs'[j].attempts = jobs[j].attempts
  <2>1. jobs'[j] = Released(j, ok)
    OBVIOUS
  <2> QED BY <2>1, ReleasedFacts
<1>3. ASSUME NEW n \in N
      PROVE  /\ jobs'[n].status = "queued" /\ jobs'[n].attempts = 0
             /\ jobs'[n].kind = jobs[parent[n]].kind /\ jobs'[n].key = jobs[parent[n]].key
  <2>1. jobs'[n] = NextOccurrence(jobs[parent[n]])
    BY <1>1
  <2> QED BY <2>1 DEF NextOccurrence, NewRow
<1>4. \A j \in JobId \ (S \cup N) : jobs'[j] = jobs[j]
  OBVIOUS
<1> DEFINE Ended == {s \in Kind \X Key : \E j \in S : jobs[j].kind = s[1] /\ jobs[j].key = s[2]}
<1>5. ASSUME NEW s \in Kind \X Key, s \notin Ended
      PROVE  PhaseIn(jobs', s) = PhaseIn(jobs, s) /\ TriesIn(jobs', s) = TriesIn(jobs, s)
  <2>1. \A j \in S : ~(jobs[j].kind = s[1] /\ jobs[j].key = s[2])
    BY <1>5
  <2>2. \A n \in N : ~(jobs'[n].kind = s[1] /\ jobs'[n].key = s[2])
    <3>1. \A n \in N : parent[n] \in S
      BY <1>1 DEF Recurring
    <3> QED BY <1>3, <2>1, <3>1
  <2>3. \A j \in JobId : j \in OccurrenceIn(jobs', s) <=> j \in OccurrenceIn(jobs, s)
    BY <1>1, <1>2, <1>4, <2>1, <2>2 DEF OccurrenceIn
  <2>4. OccurrenceIn(jobs', s) = OccurrenceIn(jobs, s)
    BY <2>3 DEF OccurrenceIn
  <2>5. \A j \in OccurrenceIn(jobs, s) : jobs'[j] = jobs[j]
    BY <1>1, <1>4, <2>1 DEF OccurrenceIn
  <2> QED BY <2>4, <2>5, SameView
<1>6. ASSUME NEW s \in Ended
      PROVE  /\ PhaseIn(jobs, s) = "leased" /\ PhaseIn(jobs', s) = "pending"
             /\ \/ TriesIn(jobs', s) = 0
                \/ TriesIn(jobs', s) = TriesIn(jobs, s) /\ TriesIn(jobs, s) < MaxAttempts
  <2>1. s \in Kind \X Key
    OBVIOUS
  <2> PICK j \in S : jobs[j].kind = s[1] /\ jobs[j].key = s[2]
    OBVIOUS
  <2>2. /\ j \in JobId /\ j \in OccurrenceIn(jobs, s) /\ jobs[j].status = "running"
        /\ jobs[j] \in Row
    BY DEF OccurrenceIn, TypeOK
  <2>3. OccurrenceIn(jobs, s) = {j}
    BY <2>1, <2>2, TheOccurrence
  <2>4. PhaseIn(jobs, s) = "leased" /\ TriesIn(jobs, s) = jobs[j].attempts
    BY <2>2, <2>3, OneView
  <2>5. CASE ~Terminal(j, ok)
    <3>1. j \in OccurrenceIn(jobs', s)
      BY <1>2, <2>2, <2>5 DEF OccurrenceIn
    <3>2. OccurrenceIn(jobs', s) = {j}
      BY <2>1, <2>2, <3>1, TheOccurrence
    <3>3. PhaseIn(jobs', s) = "pending" /\ TriesIn(jobs', s) = jobs[j].attempts
      BY <1>2, <2>2, <3>2, OneView
    <3>4. jobs[j].attempts < MaxAttempts
      BY <2>2, <2>5 DEF Terminal, Row
    <3> QED BY <2>4, <3>3, <3>4
  <2>6. CASE Terminal(j, ok)
    <3>1. jobs[j].key # Null
      BY <2>1, QueueAssumption DEF QueueAssumption
    <3>2. jobs[j].repeat > 0
      BY <2>2, <3>1 DEF KeyedRecurs, Active
    <3>3. j \in Recurring(S, ok)
      BY <2>6, <3>2 DEF Recurring
    <3> PICK n \in N : parent[n] = j
      BY <1>1, <3>3
    <3>4. n \in JobId /\ n \in OccurrenceIn(jobs', s) /\ jobs'[n].status = "queued"
          /\ jobs'[n].attempts = 0
      BY <1>1, <1>3 DEF OccurrenceIn
    <3>5. OccurrenceIn(jobs', s) = {n}
      BY <2>1, <3>4, TheOccurrence
    <3>6. PhaseIn(jobs', s) = "pending" /\ TriesIn(jobs', s) = 0
      BY <3>4, <3>5, OneView
    <3> QED BY <2>4, <3>6
  <2> QED BY <2>5, <2>6
<1>7. ASSUME NEW s \in Kind \X Key
      PROVE  TriesIn(jobs', s) \in 0..MaxAttempts
  <2>1. CASE OccurrenceIn(jobs', s) = {}
    BY <2>1 DEF TriesIn
  <2>2. CASE OccurrenceIn(jobs', s) # {}
    <3>1. (CHOOSE j \in OccurrenceIn(jobs', s) : TRUE) \in JobId
      BY <2>2 DEF OccurrenceIn
    <3> QED BY <2>2, <3>1 DEF TriesIn, TypeOK, Row
  <2> QED BY <2>1, <2>2
<1> HIDE DEF Ended
<1>8. Promise!LeasesEnd(Ended)
  <2>1. Ended \in SUBSET (Kind \X Key)
    BY DEF Ended
  <2> DEFINE P0 == [s \in Kind \X Key |-> PhaseIn(jobs, s)]
             P1 == [s \in Kind \X Key |-> PhaseIn(jobs', s)]
             T0 == [s \in Kind \X Key |-> TriesIn(jobs, s)]
             T1 == [s \in Kind \X Key |-> TriesIn(jobs', s)]
             M0 == [s \in Kind \X Key |-> PhaseOf(s)]
             U0 == [s \in Kind \X Key |-> TriesOf(s)]
  <2>2. \A s \in Ended : P0[s] = "leased"
    BY <1>6, <2>1
  <2>3. P1 = [s \in Kind \X Key |-> IF s \in Ended THEN "pending" ELSE P0[s]]
    BY <1>5, <1>6
  <2>4. T1 \in [Kind \X Key -> 0..MaxAttempts]
    BY <1>7
  <2>5. \A s \in Ended : T1[s] = 0 \/ (T1[s] = T0[s] /\ T0[s] < MaxAttempts)
    BY <1>6, <2>1
  <2>6. \A s \in (Kind \X Key) \ Ended : T1[s] = T0[s]
    BY <1>5
  <2>7. M0 = P0 /\ U0 = T0 /\ M0' = P1 /\ U0' = T1
    BY MapView
  <2> HIDE DEF P0, P1, T0, T1, M0, U0
  <2>8. /\ \A s \in Ended : M0[s] = "leased"
        /\ M0' = [s \in Kind \X Key |-> IF s \in Ended THEN "pending" ELSE M0[s]]
        /\ U0' \in [Kind \X Key -> 0..MaxAttempts]
        /\ \A s \in Ended : U0'[s] = 0 \/ (U0'[s] = U0[s] /\ U0[s] < MaxAttempts)
        /\ \A s \in (Kind \X Key) \ Ended : U0'[s] = U0[s]
    BY <2>2, <2>3, <2>4, <2>5, <2>6, <2>7
  <2> QED BY <2>8 DEF Promise!LeasesEnd, M0, U0
<1>9. Ended \in SUBSET (Kind \X Key)
  BY DEF Ended
<1> QED BY <1>8, <1>9 DEF Promise!Next

\* A renewal, a tick, a forgotten token and a pruned row touch no schedule.
LEMMA QuietView ==
  ASSUME QueueInv,
         \/ \E j \in JobId, t \in issued : Renew(j, t)
         \/ \E j \in JobId : Prune(j)
         \/ Tick
         \/ \E t \in Token : Forget(t)
         \/ UNCHANGED queueVars
  PROVE  /\ UNCHANGED Promise!recurringVars
         /\ KeyedRecurs => KeyedRecurs'
<1>1. /\ \A j \in JobId : jobs[j] \in Row
      /\ jobs \in [JobId -> Row]
  BY DEF QueueInv, TypeOK
<1>2. ASSUME \A j \in JobId : /\ jobs'[j].status = jobs[j].status
                              /\ jobs'[j].kind = jobs[j].kind /\ jobs'[j].key = jobs[j].key
                              /\ jobs'[j].attempts = jobs[j].attempts
                              /\ jobs'[j].repeat = jobs[j].repeat
      PROVE  UNCHANGED Promise!recurringVars /\ (KeyedRecurs => KeyedRecurs')
  <2>1. UNCHANGED Promise!recurringVars
    BY <1>2, QuietRows
  <2>2. KeyedRecurs => KeyedRecurs'
    BY <1>2 DEF KeyedRecurs, Active
  <2> QED BY <2>1, <2>2
<1>3. ASSUME NEW i \in JobId, NEW t \in issued, Renew(i, t)
      PROVE  UNCHANGED Promise!recurringVars /\ (KeyedRecurs => KeyedRecurs')
  <2>1. \A j \in JobId :
          jobs'[j] = IF j = i THEN [jobs[j] EXCEPT !.lease = LeaseTicks] ELSE jobs[j]
    BY <1>1, <1>3 DEF Renew
  <2> QED BY <1>1, <1>2, <2>1 DEF Row
<1>4. CASE Tick
  <2>1. \A j \in JobId :
          jobs'[j] = [jobs[j] EXCEPT !.wait = Countdown(@), !.lease = Countdown(@)]
    BY <1>4 DEF Tick
  <2> QED BY <1>1, <1>2, <2>1 DEF Row
<1>5. CASE (\E t \in Token : Forget(t)) \/ UNCHANGED queueVars
  BY <1>2, <1>5 DEF Forget, queueVars
<1>6. ASSUME NEW i \in JobId, Prune(i)
      PROVE  UNCHANGED Promise!recurringVars /\ (KeyedRecurs => KeyedRecurs')
  <2>1. /\ ~Active(i) /\ jobs'[i].status = "absent"
        /\ \A j \in JobId \ {i} : jobs'[j] = jobs[j]
    BY <1>1, <1>6 DEF Prune, Active, NoRow
  <2>2. \A s \in Kind \X Key :
          /\ OccurrenceIn(jobs', s) = OccurrenceIn(jobs, s)
          /\ \A j \in OccurrenceIn(jobs, s) : /\ jobs'[j].status = jobs[j].status
                                               /\ jobs'[j].attempts = jobs[j].attempts
    BY <2>1 DEF OccurrenceIn, Active
  <2>3. KeyedRecurs => KeyedRecurs'
    BY <2>1 DEF KeyedRecurs, Active
  <2> QED BY <2>2, <2>3, UntouchedStep
<1> QED BY <1>3, <1>4, <1>5, <1>6

\* Every keyed occurrence repeats: it was enqueued with an interval, and so was
\* the one it succeeds.
LEMMA KeyedRecursStep ==
  ASSUME QueueInv, KeyedRecurs, [Next]_queueVars
  PROVE  KeyedRecurs'
<1>1. /\ \A j \in JobId : jobs[j] \in Row
      /\ jobs \in [JobId -> Row]
  BY DEF QueueInv, TypeOK
<1>2. ASSUME NEW k \in Kind, NEW key \in Key \cup {Null},
             NEW prio \in Priority \cup {Null}, NEW repeat \in Interval \cup {Null},
             key # Null => repeat # Null, Enqueue(k, key, prio, repeat)
      PROVE  KeyedRecurs'
  <2>1. key # Null => repeat > 0 /\ repeat # Null
    BY <1>2, QueueAssumption DEF QueueAssumption
  <2>2. CASE \E j \in Duplicates(k, key) :
               jobs' = [jobs EXCEPT ![j] = Resettled(jobs[j], prio, repeat)]
    <3> PICK j \in Duplicates(k, key) :
               jobs' = [jobs EXCEPT ![j] = Resettled(jobs[j], prio, repeat)]
      BY <2>2
    <3>1. j \in JobId /\ key # Null /\ jobs[j] \in Row
      BY <1>1 DEF Duplicates
    <3>2. jobs'[j].repeat = repeat
      BY <1>1, <2>1, <3>1 DEF Resettled, Coalesce, Row
    <3>3. \A i \in JobId \ {j} : jobs'[i] = jobs[i]
      BY <1>1
    <3> QED BY <2>1, <3>1, <3>2, <3>3 DEF KeyedRecurs, Active
  <2>3. CASE \E j \in FreeIds : jobs' = [jobs EXCEPT ![j] =
                        NewRow(k, key, Coalesce(prio, 0), Coalesce(repeat, 0), 0)]
    <3> PICK j \in FreeIds : jobs' = [jobs EXCEPT ![j] =
                        NewRow(k, key, Coalesce(prio, 0), Coalesce(repeat, 0), 0)]
      BY <2>3
    <3>1. /\ j \in JobId /\ jobs'[j].key = key /\ jobs'[j].repeat = Coalesce(repeat, 0)
          /\ \A i \in JobId \ {j} : jobs'[i] = jobs[i]
      BY <1>1 DEF FreeIds, NewRow
    <3>2. key # Null => jobs'[j].repeat > 0
      BY <2>1, <3>1 DEF Coalesce
    <3> QED BY <3>1, <3>2 DEF KeyedRecurs, Active
  <2> QED BY <1>2, <2>2, <2>3 DEF Enqueue
<1>3. ASSUME NEW k \in Kind, NEW t \in Token, Claim(k, t) PROVE KeyedRecurs'
  <2> PICK j \in Claimable(k) : jobs' = Take(j, t)
    BY <1>3 DEF Claim
  <2>1. /\ j \in JobId /\ jobs[j].status = "queued"
        /\ jobs'[j].key = jobs[j].key /\ jobs'[j].repeat = jobs[j].repeat
        /\ \A i \in JobId \ {j} : jobs'[i] = jobs[i]
    BY <1>1 DEF Take, Claimable, Due, Row
  <2> QED BY <2>1 DEF KeyedRecurs, Active
<1>4. ASSUME NEW S \in SUBSET JobId, NEW ok \in BOOLEAN,
             \A j \in S : jobs[j].status = "running", Release(S, ok)
      PROVE  KeyedRecurs'
  <2> PICK N \in SUBSET FreeIds : \E parent \in Bijection(N, Recurring(S, ok)) :
         jobs' = [j \in JobId |->
                    IF j \in S THEN Released(j, ok)
                    ELSE IF j \in N THEN NextOccurrence(jobs[parent[j]])
                    ELSE jobs[j]]
    BY <1>4 DEF Release
  <2> PICK parent \in Bijection(N, Recurring(S, ok)) :
         jobs' = [j \in JobId |->
                    IF j \in S THEN Released(j, ok)
                    ELSE IF j \in N THEN NextOccurrence(jobs[parent[j]])
                    ELSE jobs[j]]
    OBVIOUS
  <2> SUFFICES ASSUME NEW j \in JobId, Active(j)', jobs'[j].key # Null
               PROVE  jobs'[j].repeat > 0
    BY DEF KeyedRecurs
  <2>1. CASE j \in S
    <3>1. jobs'[j].key = jobs[j].key /\ jobs'[j].repeat = jobs[j].repeat
      BY <1>4, <2>1, ReleasedFacts
    <3> QED BY <1>4, <2>1, <3>1 DEF KeyedRecurs, Active
  <2>2. CASE j \notin S /\ j \in N
    <3>1. jobs'[j].repeat = jobs[parent[j]].repeat
      BY <2>2 DEF NextOccurrence, NewRow
    <3>2. parent[j] \in Recurring(S, ok)
      BY <2>2 DEF Bijection, Injection
    <3> QED BY <3>1, <3>2 DEF Recurring
  <2>3. CASE j \notin S /\ j \notin N
    BY <2>3 DEF KeyedRecurs, Active
  <2> QED BY <2>1, <2>2, <2>3
<1>5. CASE Reconcile \/ \E j \in JobId, t \in issued, ok \in BOOLEAN : Finish(j, t, ok)
  <2>1. \E S \in SUBSET JobId, ok \in BOOLEAN :
          (\A j \in S : jobs[j].status = "running") /\ Release(S, ok)
    <3>1. CASE Reconcile
      BY <3>1 DEF Reconcile, Expired
    <3>2. ASSUME NEW j \in JobId, NEW t \in issued, NEW ok \in BOOLEAN, Finish(j, t, ok)
          PROVE  (\A i \in {j} : jobs[i].status = "running") /\ Release({j}, ok)
      BY <3>2 DEF Finish, Owns
    <3> QED BY <1>5, <3>1, <3>2
  <2> QED BY <1>4, <2>1
<1>6. ASSUME NEW k \in Kind, NEW key \in Key, NEW r \in Interval, Enqueue(k, key, Null, r)
      PROVE  KeyedRecurs'
  <2>1. r # Null
    BY QueueAssumption DEF QueueAssumption
  <2> QED BY <1>2, <1>6, <2>1
<1>7. ASSUME NEW k \in Kind, NEW p \in Priority, Enqueue(k, Null, p, Null)
      PROVE  KeyedRecurs'
  BY <1>2, <1>7
<1> QED BY <1>3, <1>5, <1>6, <1>7, QuietView DEF Next

\* Every transaction of the queue is a step of the promised schedules.
LEMMA NextView ==
  ASSUME QueueInv, KeyedRecurs, [Next]_queueVars
  PROVE  Promise!Next \/ UNCHANGED Promise!recurringVars
<1>1. ASSUME NEW k \in Kind, NEW key \in Key, NEW r \in Interval, Enqueue(k, key, Null, r)
      PROVE  Promise!Next \/ UNCHANGED Promise!recurringVars
  BY <1>1, EnqueueView
<1>2. ASSUME NEW k \in Kind, NEW p \in Priority, Enqueue(k, Null, p, Null)
      PROVE  Promise!Next \/ UNCHANGED Promise!recurringVars
  BY <1>2, EnqueueView
<1>3. ASSUME NEW k \in Kind, NEW t \in Token, Claim(k, t)
      PROVE  Promise!Next \/ UNCHANGED Promise!recurringVars
  BY <1>3, ClaimView
<1>4. ASSUME NEW j \in JobId, NEW t \in issued, NEW ok \in BOOLEAN, Finish(j, t, ok)
      PROVE  Promise!Next
  <2>1. {j} \in SUBSET JobId /\ (\A i \in {j} : jobs[i].status = "running") /\ Release({j}, ok)
    BY <1>4 DEF Finish, Owns
  <2> QED BY <2>1, ReleaseView
<1>5. CASE Reconcile
  <2> PICK S \in SUBSET Expired : Release(S, FALSE)
    BY <1>5 DEF Reconcile
  <2>1. S \in SUBSET JobId /\ (\A i \in S : jobs[i].status = "running") /\ FALSE \in BOOLEAN
    BY DEF Expired
  <2> QED BY <2>1, ReleaseView
<1> QED BY <1>1, <1>2, <1>3, <1>4, <1>5, QuietView DEF Next

\* The refinement: what the table does to its rows is, for every repeating
\* singleton, a schedule that is never doubled, lost or attempted too often.
THEOREM SchedulesKeepPromise == Spec => KeepsPromise
<1>1. Init => KeyedRecurs /\ Promise!Init
  <2> SUFFICES ASSUME Init PROVE KeyedRecurs /\ Promise!Init
    OBVIOUS
  <2>1. \A j \in JobId : jobs[j].status = "absent"
    BY DEF Init, NoRow
  <2>2. \A s \in Kind \X Key : OccurrenceIn(jobs, s) = {}
    BY <2>1 DEF OccurrenceIn
  <2>3. \A s \in Kind \X Key : /\ PhaseIn(jobs, s) = "unscheduled"
                              /\ TriesIn(jobs, s) = 0
    BY <2>2 DEF PhaseIn, TriesIn
  <2>4. KeyedRecurs
    BY <2>1 DEF KeyedRecurs, Active
  <2>5. Promise!Init
    BY <2>3, MapView DEF Promise!Init
  <2> QED BY <2>4, <2>5
<1>2. QueueInv /\ KeyedRecurs /\ [Next]_queueVars => KeyedRecurs'
  BY KeyedRecursStep
<1>3. QueueInv /\ KeyedRecurs /\ [Next]_queueVars => [Promise!Next]_(Promise!recurringVars)
  BY NextView
<1> QED BY <1>1, <1>2, <1>3, QueueInvariant, PTL DEF Spec, KeepsPromise, Promise!Spec
=============================================================================
