--------------------------- MODULE MCReviewAccess ---------------------------
(* Two logins of the owner, the second code of Telegram, one connection of a  *)
(* client, and two settings, one of them without a row.                      *)
EXTENDS ReviewAccess, TLC

Alike == Permutations(Login) \cup Permutations(Request)
=============================================================================
