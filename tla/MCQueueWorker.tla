---------------------------- MODULE MCQueueWorker ----------------------------
(* Instances of QueueWorker for TLC: the loops of several processes, one kind. *)
EXTENDS QueueWorker, TLC

CONSTANTS cycle, scheduler

MCKind == {cycle}
MCKey == {scheduler}
MCKindOf == [w \in Loop |-> cycle]
MCCapacity == [k \in Kind |-> 1]
MCPriority == {0}
MCInterval == {1}
MCBackoff == [n \in 1..MaxAttempts |-> 1]
MCSymmetry == Permutations(JobId) \cup Permutations(Token) \cup Permutations(Loop)
=============================================================================
