---------------------------- MODULE MCPaidCancel -----------------------------
(* An instance of PaidCancel for TLC. *)
EXTENDS PaidCancel, TLC

CONSTANTS l1, minute, day, MinuteBudget, DayBudget

MCRetryFor == [key \in RetryKey |-> l1]
MCCost == [l \in Logical |-> 1]
MCWindow == {minute, day}
MCSpan == [w \in Window |-> IF w = minute THEN 1 ELSE 2]
MCBudget == [w \in Window |-> IF w = minute THEN MinuteBudget ELSE DayBudget]
=============================================================================
