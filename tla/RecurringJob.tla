---------------------------- MODULE RecurringJob ----------------------------
(***************************************************************************)
(* What the queue promises for one repeating singleton, without a table:   *)
(* once scheduled there is always exactly one occurrence; it is pending or *)
(* leased to one holder; it is leased at most MaxAttempts times; and the   *)
(* end of one occurrence is the start of the next.                         *)
(***************************************************************************)
EXTENDS Integers

CONSTANTS Schedule, MaxAttempts

VARIABLES phase, tries

recurringVars == <<phase, tries>>

Phase == {"unscheduled", "pending", "leased"}

Init ==
  /\ phase = [s \in Schedule |-> "unscheduled"]
  /\ tries = [s \in Schedule |-> 0]

Begin(s) ==
  /\ phase[s] = "unscheduled"
  /\ phase' = [phase EXCEPT ![s] = "pending"]
  /\ UNCHANGED tries

Lease(s) ==
  /\ phase[s] = "pending"
  /\ tries[s] < MaxAttempts
  /\ phase' = [phase EXCEPT ![s] = "leased"]
  /\ tries' = [tries EXCEPT ![s] = @ + 1]

\* Leases end one by one by acknowledgement, or several in one sweep: each
\* occurrence in S either keeps its count for a retry or is over.
LeasesEnd(S) ==
  /\ \A s \in S : phase[s] = "leased"
  /\ phase' = [s \in Schedule |-> IF s \in S THEN "pending" ELSE phase[s]]
  /\ tries' \in [Schedule -> 0..MaxAttempts]
  /\ \A s \in S : \/ tries'[s] = 0
                  \/ tries'[s] = tries[s] /\ tries[s] < MaxAttempts
  /\ \A s \in Schedule \ S : tries'[s] = tries[s]

Next ==
  \/ \E s \in Schedule : Begin(s) \/ Lease(s)
  \/ \E S \in SUBSET Schedule : LeasesEnd(S)

Spec == Init /\ [][Next]_recurringVars
=============================================================================
