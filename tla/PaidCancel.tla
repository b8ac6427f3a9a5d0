----------------------------- MODULE PaidCancel -----------------------------
(***************************************************************************)
(* PaidCall with a record of the sends that were cancelled while they      *)
(* waited for the provider (the except branch of execute_paid,             *)
(* backend/services/ai_runtime.py).                                        *)
(***************************************************************************)
EXTENDS PaidCall

VARIABLE cancelled   \* history: the tickets of cancelled sends

CancelInit == Init /\ cancelled = {}

CancelNext ==
  /\ Next
  /\ cancelled' = cancelled \cup {call[c].ticket : c \in {d \in Caller : CancelSend(d)}}

CancelSpec == CancelInit /\ [][CancelNext]_<<vars, cancelled>>

\* docs/SOURCE_REVIEW.md:168: a cancelled send is not sent again by itself, that
\* is, by a call without the key of an explicit retry.
CancelledNotResent ==
  [][\A t \in cancelled :
       t[3] < MaxSends =>
         sends'[<<t[1], t[2], t[3] + 1>>].status = "absent"]_<<vars, cancelled>>
=============================================================================
