---------------------------- MODULE ReviewOAuth ----------------------------
(***************************************************************************)
(* The authorization server of the review tools (services/review_oauth.py, *)
(* routers/review_oauth.py): requests, the owner's consent, grants, codes, *)
(* rotated refresh tokens, expiry and revocation, on the logins and        *)
(* elevated sessions of ManageAuth.                                        *)
(*                                                                         *)
(* Exchanges, changes of expiry and revocations lock the row of the grant  *)
(* and are one step.  A consent holds a shared lock on its session from    *)
(* the check to the grant, and a logout deletes the sessions before it     *)
(* revokes the grants: both are two steps.  A client is whoever presents a *)
(* code or a token that was issued, the newest or one used before: that is *)
(* what a lost answer leaves it with.  Dates are numbers a clock passes.   *)
(***************************************************************************)
EXTENDS ManageAuth, Sequences, FiniteSets

CONSTANTS
  Never,         \* no expiry date: a grant the owner made permanent
  Request,       \* authorization requests
  RequestLimit,  \* REQUEST_LIMIT
  PruneLimit,    \* requests that one clean-up deletes (200)
  LastDate,      \* bound: dates
  MaxTokens      \* bound: refresh tokens of one grant

ASSUME OAuthConstants == LastDate \in Nat \ {0} /\ Never \notin Nat

VARIABLES
  clock,         \* the date
  requests,      \* rows of review_oauth_requests
  consents,      \* consents that hold their session
  leaving,       \* the logout under way
  grants,        \* rows of review_oauth_grants, with their code and refresh tokens
  ended          \* ghost: sessions ended by a logout

oauthVars == <<clock, requests, consents, leaving, grants, ended>>

Date == 1..LastDate
Expiry == Date \cup {Never}
Past(d) == d # Never /\ d <= clock

Init_oauth ==
  /\ clock = 0
  /\ requests = [r \in Request |-> "new"]
  /\ consents = {} /\ leaving = None /\ grants = <<>> /\ ended = {}

-----------------------------------------------------------------------------
(* Requests and consent.                                                     *)

Pending == {r \in Request : requests[r] \in {"open", "decided"}}
Lapsed  == {r \in Request : requests[r] = "over"}

\* _cleanup deletes some of the rows that expired, so many at a time.  The grants it
\* deletes were over thirty days ago: nobody can use them any more.
_cleanup(gone) ==
  /\ gone \subseteq Lapsed
  /\ gone = Lapsed \/ Cardinality(gone) = PruneLimit
  /\ Cardinality(gone) <= PruneLimit
Without(gone) == [r \in Request |-> IF r \in gone THEN "gone" ELSE requests[r]]

\* An expired row counts until it is deleted.
begin_authorization(r) ==
  /\ requests[r] = "new"
  /\ \E gone \in SUBSET Lapsed :
       /\ _cleanup(gone)
       /\ Cardinality((Pending \cup Lapsed) \ gone) < RequestLimit
       /\ requests' = [Without(gone) EXCEPT ![r] = "open"]
  /\ UNCHANGED <<authVars, clock, consents, leaving, grants, ended>>

RequestExpires(r) ==
  /\ r \in Pending
  /\ requests' = [requests EXCEPT ![r] = "over"]
  /\ UNCHANGED <<authVars, clock, consents, leaving, grants, ended>>

\* _manage: an elevated session of a live login, locked FOR SHARE.  Rows that a logout
\* is deleting are waited for, and are gone afterwards.
_Manage(s) ==
  /\ s \in sessions /\ s.login \in live
  /\ leaving # None => s \notin leaving.taken

\* Faulty variant: the check of the session does not lock it.
NoneHeld(l) == FALSE

\* The list of grants in the owner's console cleans up as well.
list_grants(s) ==
  /\ _Manage(s)
  /\ \E gone \in SUBSET Lapsed : _cleanup(gone) /\ requests' = Without(gone)
  /\ UNCHANGED <<authVars, clock, consents, leaving, grants, ended>>

\* What the shared locks keep a logout of login l from.
Held(l) == \E c \in consents : c.session.login = l

Consent(s, r) ==
  /\ _Manage(s)
  /\ consents' = consents \cup {[session |-> s, request |-> r]}
  /\ UNCHANGED <<authVars, clock, requests, leaving, grants, ended>>

\* A new grant lives thirty days, which any date still to come stands for.
NewGrant(s, d) ==
  [login |-> s.login, session |-> s, revoked |-> FALSE, expires |-> d,
   code |-> "fresh", access |-> FALSE, refresh |-> <<>>]

\* decide_authorization under the lock of the request: it is decided once.
Decide(c, approved, d) ==
  /\ requests[c.request] = "open"
  /\ ~Past(d)
  /\ requests' = [requests EXCEPT ![c.request] = "decided"]
  /\ grants' = IF approved THEN Append(grants, NewGrant(c.session, d)) ELSE grants
  /\ consents' = consents \ {c}
  /\ UNCHANGED <<authVars, clock, leaving, ended>>

\* Refused, or a lock not had in time.
ConsentFails(c) ==
  /\ consents' = consents \ {c}
  /\ UNCHANGED <<authVars, clock, requests, leaving, grants, ended>>

-----------------------------------------------------------------------------
(* Tokens.                                                                   *)

Expired(g) == Past(grants[g].expires)
ValidGrant(g) == ~grants[g].revoked /\ ~Expired(g) /\ grants[g].login \in live

\* _issue_tokens: a short access token, and a refresh token that expires with the grant.
Issued(grant, rotate) ==
  [grant EXCEPT !.access = TRUE,
                !.refresh = IF rotate THEN Append(@, [spent |-> FALSE, expires |-> grant.expires]) ELSE @]

\* The code is read again under the lock of its grant.  Without offline_access in the
\* scope there is no refresh token.
ExchangeCode(g, offline) ==
  /\ ValidGrant(g)
  /\ grants[g].code = "fresh"
  /\ grants' = [grants EXCEPT ![g] = Issued([@ EXCEPT !.code = "spent"], offline)]
  /\ UNCHANGED <<authVars, clock, requests, consents, leaving, ended>>

Spend(g, t) == [grants[g] EXCEPT !.refresh[t].spent = TRUE]

\* A token that was used already revokes the grant: its answer was lost, or somebody
\* else has it.
ExchangeRefresh(g, t) ==
  /\ ValidGrant(g)
  /\ IF grants[g].refresh[t].spent
     THEN grants' = [grants EXCEPT ![g].revoked = TRUE]
     ELSE /\ ~Past(grants[g].refresh[t].expires) /\ Len(grants[g].refresh) < MaxTokens
          /\ grants' = [grants EXCEPT ![g] = Issued(Spend(g, t), TRUE)]
  /\ UNCHANGED <<authVars, clock, requests, consents, leaving, ended>>

validate_access_token(g) == ValidGrant(g) /\ grants[g].access

\* Faulty variant: the tokens keep the date they were issued with.
ProlongedAlone(grant, d) == [grant EXCEPT !.expires = d]

\* The expiry of a grant that is neither revoked nor over, and of its unused tokens.
Prolonged(grant, d) ==
  [grant EXCEPT !.expires = d,
                !.refresh = [t \in DOMAIN @ |-> IF @[t].spent THEN @[t] ELSE [@[t] EXCEPT !.expires = d]]]
update_grant_expiry(s, g, d) ==
  /\ _Manage(s)
  /\ ~grants[g].revoked /\ ~Expired(g) /\ ~Past(d) /\ d # grants[g].expires
  /\ grants' = [grants EXCEPT ![g] = Prolonged(@, d)]
  /\ UNCHANGED <<authVars, clock, requests, consents, leaving, ended>>

\* By the owner's console (revoke_grant) or by the client, with any token of the grant
\* (revoke_token): the session is not asked of the client.
Revoke(g) ==
  /\ ~grants[g].revoked
  /\ (\E s \in sessions : _Manage(s)) \/ grants[g].code = "spent"
  /\ grants' = [grants EXCEPT ![g].revoked = TRUE]
  /\ UNCHANGED <<authVars, clock, requests, consents, leaving, ended>>

-----------------------------------------------------------------------------
(* Logout (manage_auth.revoke) and time.                                     *)

LogoutSessions(l) ==
  /\ leaving = None /\ ~Held(l)
  /\ leaving' = [login |-> l, taken |-> {s \in sessions : s.login = l}]
  /\ UNCHANGED <<authVars, clock, requests, consents, grants, ended>>

\* The grants of the login are revoked by the next statement of the transaction, which
\* sees what committed meanwhile.
LogoutGrants ==
  /\ leaving # None
  /\ sessions' = sessions \ leaving.taken
  /\ grants' = [g \in DOMAIN grants |->
                  IF grants[g].login = leaving.login THEN [grants[g] EXCEPT !.revoked = TRUE] ELSE grants[g]]
  /\ ended' = ended \cup leaving.taken
  /\ leaving' = None
  /\ UNCHANGED <<live, otp, guesses, clock, requests, consents>>

\* The transaction is rolled back: the row of a grant stayed locked.
LogoutFails ==
  /\ leaving # None
  /\ leaving' = None
  /\ UNCHANGED <<authVars, clock, requests, consents, grants, ended>>

Tick ==
  /\ clock < LastDate
  /\ clock' = clock + 1
  /\ UNCHANGED <<authVars, requests, consents, leaving, grants, ended>>

\* Two minutes of a code, a quarter of an hour of an access token.
CodeLapses(g) ==
  /\ grants[g].code = "fresh"
  /\ grants' = [grants EXCEPT ![g].code = "lapsed"]
  /\ UNCHANGED <<authVars, clock, requests, consents, leaving, ended>>
AccessLapses(g) ==
  /\ grants[g].access
  /\ grants' = [grants EXCEPT ![g].access = FALSE]
  /\ UNCHANGED <<authVars, clock, requests, consents, leaving, ended>>

-----------------------------------------------------------------------------
(* Properties.                                                               *)

OAuthTypeOK ==
  /\ clock \in 0..LastDate
  /\ requests \in [Request -> {"new", "open", "decided", "over", "gone"}]
  /\ consents \subseteq [session : SessionRow, request : Request]
  /\ leaving \in [login : Login, taken : SUBSET SessionRow] \cup {None}
  /\ grants \in Seq([login : Login, session : SessionRow, revoked : BOOLEAN, expires : Expiry,
                     code : {"fresh", "spent", "lapsed"}, access : BOOLEAN,
                     refresh : Seq([spent : BOOLEAN, expires : Expiry])])
  /\ ended \subseteq SessionRow

Unspent(g) == {t \in DOMAIN grants[g].refresh : ~grants[g].refresh[t].spent}

\* A grant has one credential that can be turned into others: its code, or else one
\* refresh token, which expires when the grant does.  Repeated and concurrent
\* exchanges, replays and changes of the expiry never make it two.
OneCredential ==
  \A g \in DOMAIN grants :
    /\ Cardinality(Unspent(g)) + (IF grants[g].code = "fresh" THEN 1 ELSE 0) <= 1
    /\ \A t \in Unspent(g) : grants[g].refresh[t].expires = grants[g].expires

\* No grant outlives the logout of the session that consented to it, even a consent
\* under way when the logout came: one of the two waits for the other.
LogoutEndsGrants ==
  \A g \in DOMAIN grants : grants[g].session \in ended => grants[g].revoked
=============================================================================
