----------------------------- MODULE ManageAuth -----------------------------
(***************************************************************************)
(* The second factor of the management console (services/manage_auth.py):  *)
(* a code sent by Telegram after a password login, and the elevated        *)
(* session a right code opens.                                             *)
(*                                                                         *)
(* The owner has one row of manage_login_state, whatever login asks, and   *)
(* every change of it commits under its row lock.  A code is the number of *)
(* its challenge; a verification that names an older challenge is refused  *)
(* and not shown.  Time is what may have passed: the five minutes of a     *)
(* code, the minute between two of them, the fifteen of a lock.            *)
(***************************************************************************)
EXTENDS Naturals

CONSTANTS
  None,
  Login,       \* the owner's login sessions (auth.sessions)
  MaxTries,    \* wrong codes before the lock; five
  MaxCodes     \* bound: codes sent

ASSUME ManageConstants == None \notin Login /\ MaxTries \in Nat \ {0} /\ MaxCodes \in Nat

VARIABLES
  live,        \* logins that are still active
  otp,         \* the row of manage_login_state
  sessions,    \* rows of manage_sessions that have not expired
  guesses      \* ghost: wrong codes since a success or the end of a lock,
               \* and sessions opened by the present code

authVars == <<live, otp, sessions, guesses>>

Init_auth ==
  /\ live = Login
  /\ otp = [challenge |-> 0, login |-> None, unused |-> FALSE, fresh |-> FALSE,
            attempts |-> 0, locked |-> "no", rested |-> TRUE, delivered |-> FALSE]
  /\ sessions = {}
  /\ guesses = [wrong |-> 0, opened |-> 0]

\* Faulty variant: a new code starts with all its attempts.
CarriedNone == 0

\* Wrong attempts carry over to the new code; only an expired lock resets them.
Carried == IF otp.locked = "no" THEN otp.attempts ELSE 0

\* A login with a fresh password asks for a code; the lock and the minute since the
\* last one refuse it.
Issue(l) ==
  /\ l \in live /\ otp.locked # "running" /\ otp.rested
  /\ otp.challenge < MaxCodes
  /\ otp' = [challenge |-> otp.challenge + 1, login |-> l, unused |-> TRUE, fresh |-> TRUE,
             attempts |-> Carried, locked |-> "no", rested |-> FALSE, delivered |-> FALSE]
  /\ guesses' = [guesses EXCEPT !.opened = 0]
  /\ UNCHANGED <<live, sessions>>

\* What a verification asks of the row before it looks at the code.
Verifiable(l) ==
  /\ l \in live /\ otp.login = l /\ otp.unused /\ otp.fresh
  /\ otp.attempts < MaxTries

Wrong ==
  [otp EXCEPT !.attempts = @ + 1,
              !.locked = IF otp.attempts + 1 >= MaxTries THEN "running" ELSE @]

VerifyWrong(l) ==
  /\ Verifiable(l)
  /\ otp' = Wrong
  /\ guesses' = [guesses EXCEPT !.wrong = @ + 1]
  /\ UNCHANGED <<live, sessions>>

\* The code is consumed with the session it opens, and only after Telegram answered.
VerifyRight(l) ==
  /\ Verifiable(l) /\ otp.delivered
  /\ otp' = [otp EXCEPT !.unused = FALSE, !.attempts = 0]
  /\ sessions' = sessions \cup {[code |-> otp.challenge, login |-> l]}
  /\ guesses' = [wrong |-> 0, opened |-> guesses.opened + 1]
  /\ UNCHANGED live

\* The answer of Telegram, and time.
Delivered ==
  /\ otp.challenge > 0 /\ ~otp.delivered
  /\ otp' = [otp EXCEPT !.delivered = TRUE]
  /\ UNCHANGED <<live, sessions, guesses>>
MinutePasses ==
  /\ ~otp.rested
  /\ otp' = [otp EXCEPT !.rested = TRUE]
  /\ UNCHANGED <<live, sessions, guesses>>
CodeExpires ==
  /\ otp.fresh /\ otp.rested
  /\ otp' = [otp EXCEPT !.fresh = FALSE]
  /\ UNCHANGED <<live, sessions, guesses>>
LockExpires ==
  /\ otp.locked = "running" /\ ~otp.fresh
  /\ otp' = [otp EXCEPT !.locked = "over"]
  /\ guesses' = [guesses EXCEPT !.wrong = 0]
  /\ UNCHANGED <<live, sessions>>

SessionExpires(s) ==
  /\ sessions' = sessions \ {s}
  /\ UNCHANGED <<live, otp, guesses>>

\* The login ends in Supabase: signed out, expired or banned.
LoginEnds(l) ==
  /\ l \in live
  /\ live' = live \ {l}
  /\ UNCHANGED <<otp, sessions, guesses>>

SessionRow == [code : 1..MaxCodes, login : Login]

LoginState ==
  [challenge : 0..MaxCodes, login : Login \cup {None}, unused : BOOLEAN, fresh : BOOLEAN,
   attempts : 0..MaxTries, locked : {"no", "running", "over"},
   rested : BOOLEAN, delivered : BOOLEAN]

AuthTypeOK ==
  /\ live \subseteq Login
  /\ otp \in LoginState
  /\ sessions \subseteq SessionRow
  /\ guesses \in [wrong : Nat, opened : Nat]

\* However attempts, resends and the owner's logins interleave, no more than MaxTries
\* wrong codes are looked at between a success or the end of a lock and the next, and
\* a code opens one session.  Attempts belong to the row, codes replace one another.
GuessesLimited == guesses.wrong <= MaxTries /\ guesses.opened <= 1
=============================================================================
