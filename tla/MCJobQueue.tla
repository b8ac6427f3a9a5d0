----------------------------- MODULE MCJobQueue -----------------------------
(* Instances of JobQueue for TLC. *)
EXTENDS JobQueue, TLC

CONSTANTS BackoffBase, BackoffCap, MaxCapacity

\* The retry delay of finish and reconcile: 15 s doubling, at most an hour; here
\* BackoffBase ticks doubling up to BackoffCap.
MCBackoff == [n \in 1..MaxAttempts |->
                LET delay == BackoffBase * 2^(n - 1)
                IN IF delay < BackoffCap THEN delay ELSE BackoffCap]
MCCapacity == [k \in Kind |-> MaxCapacity]
MCPriority == {0, 1}
MCInterval == {1}
MCSymmetry == Permutations(JobId) \cup Permutations(Token)
=============================================================================
