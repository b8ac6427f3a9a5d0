------------------------- MODULE ReviewAccessProofs -------------------------
(***************************************************************************)
(* Safety of the owner's codes, of the grants of the review tools and of   *)
(* the settings, for every number of logins, codes, requests, grants,      *)
(* tokens, dates and edits.  Each component has an invariant of its own;   *)
(* that no grant outlives a logout needs one over two of them: a session   *)
(* that was ended can never be opened again, and a consent under way holds *)
(* a session that no logout has taken.                                     *)
(***************************************************************************)
EXTENDS ReviewAccess, FiniteSetTheorems, TLAPS

-----------------------------------------------------------------------------
(* The invariants.                                                           *)

\* The wrong codes since a success or a lock are among the attempts of the row, a lock
\* is over with all attempts made, and a code that was not used opened no session.
GuessInv ==
  /\ guesses.wrong <= otp.attempts
  /\ otp.locked # "no" => otp.attempts = MaxTries
  /\ otp.locked = "over" => guesses.wrong = 0
  /\ guesses.opened <= 1
  /\ otp.unused => guesses.opened = 0 /\ otp.challenge > 0

\* The sessions the logout under way will end.
Taken == IF leaving = None THEN {} ELSE leaving.taken

\* The present code, while it is unused, is not the code of any session there was.
SessionsAreUsed ==
  \A s \in sessions \cup ended \cup Taken :
    s.code <= otp.challenge /\ (otp.unused => s.code # otp.challenge)

LogoutInv ==
  /\ SessionsAreUsed
  /\ sessions \cap ended = {}
  /\ \A c \in consents : c.session \notin ended \cup Taken
  /\ \A s \in Taken : s.login = leaving.login
  /\ \A g \in DOMAIN grants : grants[g].login = grants[g].session.login
  /\ LogoutEndsGrants

TokenRow == [spent : BOOLEAN, expires : Expiry]
GrantRow == [login : Login, session : SessionRow, revoked : BOOLEAN, expires : Expiry,
             code : {"fresh", "spent", "lapsed"}, access : BOOLEAN, refresh : Seq(TokenRow)]

\* A grant whose code can still be exchanged has no refresh token; otherwise at most
\* one token is unspent, and that one expires with the grant.
Single(grant) ==
  /\ grant.code = "fresh" => grant.refresh = <<>>
  /\ \A t, u \in DOMAIN grant.refresh :
       ~grant.refresh[t].spent /\ ~grant.refresh[u].spent => t = u
  /\ \A t \in DOMAIN grant.refresh :
       ~grant.refresh[t].spent => grant.refresh[t].expires = grant.expires
CredentialInv == \A g \in DOMAIN grants : Single(grants[g])

EditRow == [id : Nat, key : Key, by : Admin \cup Nat, step : {"read", "sent"},
            expected : Nat, value : SUBSET Nat]

\* An edit whose version is still the stored one was made on the stored value.
SettingInv ==
  /\ edits \subseteq EditRow
  /\ \A e \in edits : Current(e) => e.value = setting[e.key].value \cup {e.id}
  /\ SavesAreWhole

AccessInv == TypeOK /\ GuessInv /\ LogoutInv /\ CredentialInv /\ SettingInv

-----------------------------------------------------------------------------
(* Codes of Telegram.                                                        *)

\* Steps of the codes, of the elevated sessions and of the owner's logins, those that
\* count as events included, keep the guesses limited.
LEMMA AuthSteps ==
  ASSUME AuthTypeOK, GuessInv, AuthStep \/ AuthEvent
  PROVE  AuthTypeOK' /\ GuessInv'
<1> USE ManageConstants DEF ManageConstants, AuthTypeOK, LoginState, GuessInv, SessionRow
<1>1. ASSUME NEW l \in Login, Issue(l) PROVE AuthTypeOK' /\ GuessInv'
  <2>1. Carried \in 0..MaxTries /\ guesses.wrong <= Carried
    BY <1>1 DEF Carried, Issue
  <2>2. /\ otp'.attempts = Carried /\ otp'.locked = "no" /\ otp'.unused /\ otp'.challenge = otp.challenge + 1
        /\ guesses' = [guesses EXCEPT !.opened = 0]
    BY <1>1 DEF Issue
  <2>3. AuthTypeOK'
    BY <1>1, <2>1 DEF Issue
  <2>4. GuessInv'
    BY <2>1, <2>2
  <2> QED BY <2>3, <2>4
<1>2. ASSUME NEW l \in Login, VerifyRight(l) PROVE AuthTypeOK' /\ GuessInv'
  <2>1. /\ otp' = [otp EXCEPT !.unused = FALSE, !.attempts = 0] /\ otp.unused /\ otp.attempts < MaxTries
        /\ guesses' = [wrong |-> 0, opened |-> guesses.opened + 1]
        /\ sessions' = sessions \cup {[code |-> otp.challenge, login |-> l]} /\ live' = live
    BY <1>2 DEF VerifyRight, Verifiable
  <2>2. AuthTypeOK'
    <3>1. [code |-> otp.challenge, login |-> l] \in SessionRow
      BY <2>1
    <3>2. sessions' \subseteq SessionRow
      BY <2>1, <3>1
    <3>3. guesses' \in [wrong : Nat, opened : Nat] /\ live' \subseteq Login
      BY <2>1
    <3>4. 0 \in 0..MaxTries
      OBVIOUS
    <3>5. otp' \in LoginState
      BY <2>1, <3>4
    <3> QED BY <3>2, <3>3, <3>5
  <2>3. GuessInv'
    BY <2>1
  <2> QED BY <2>2, <2>3
<1>3. ASSUME NEW l \in Login, VerifyWrong(l) PROVE AuthTypeOK' /\ GuessInv'
  <2>1. /\ otp' = Wrong /\ otp.attempts < MaxTries
        /\ guesses' = [guesses EXCEPT !.wrong = @ + 1] /\ sessions' = sessions /\ live' = live
    BY <1>3 DEF VerifyWrong, Verifiable
  <2>2. /\ otp'.attempts = otp.attempts + 1 /\ otp'.unused = otp.unused /\ otp'.challenge = otp.challenge
        /\ otp'.locked = IF otp.attempts + 1 >= MaxTries THEN "running" ELSE otp.locked
    BY <2>1 DEF Wrong
  <2>3. AuthTypeOK'
    <3>1. otp.attempts + 1 \in 0..MaxTries
      BY <2>1
    <3>2. (IF otp.attempts + 1 >= MaxTries THEN "running" ELSE otp.locked) \in {"no", "running", "over"}
      OBVIOUS
    <3>3. otp' \in LoginState
      BY <2>1, <3>1, <3>2 DEF Wrong
    <3> QED BY <2>1, <3>3
  <2>4. GuessInv'
    BY <2>1, <2>2
  <2> QED BY <2>3, <2>4
<1>4. CASE Delivered
  BY <1>4 DEF Delivered
<1>5. CASE MinutePasses
  BY <1>5 DEF MinutePasses
<1>6. CASE CodeExpires
  BY <1>6 DEF CodeExpires
<1>7. CASE LockExpires
  BY <1>7 DEF LockExpires
<1>8. ASSUME NEW l \in Login, LoginEnds(l) PROVE AuthTypeOK' /\ GuessInv'
  BY <1>8 DEF LoginEnds
<1>9. ASSUME NEW s \in sessions, SessionExpires(s) PROVE AuthTypeOK' /\ GuessInv'
  BY <1>9 DEF SessionExpires
<1> QED BY <1>1, <1>2, <1>3, <1>4, <1>5, <1>6, <1>7, <1>8, <1>9 DEF AuthStep, AuthEvent

\* What such a step may do to the sessions: it opens one only with the present code,
\* which is then used, and codes only go up.
LEMMA AuthOpens ==
  ASSUME AuthTypeOK, GuessInv, AuthStep \/ AuthEvent
  PROVE  /\ otp.challenge \in Nat /\ otp'.challenge \in Nat
         /\ otp'.challenge >= otp.challenge
         /\ otp'.unused => otp.unused \/ otp'.challenge > otp.challenge
         /\ \A s \in sessions' \ sessions :
              otp.unused /\ s.code = otp.challenge /\ otp'.challenge = otp.challenge /\ ~otp'.unused
<1> USE ManageConstants DEF ManageConstants, AuthTypeOK, LoginState, GuessInv
<1> DEFINE Goal == /\ otp.challenge \in Nat /\ otp'.challenge \in Nat
                   /\ otp'.challenge >= otp.challenge
                   /\ otp'.unused => otp.unused \/ otp'.challenge > otp.challenge
                   /\ \A s \in sessions' \ sessions :
                        otp.unused /\ s.code = otp.challenge /\ otp'.challenge = otp.challenge /\ ~otp'.unused
<1>1. ASSUME NEW l \in Login, Issue(l) PROVE Goal
  BY <1>1 DEF Issue
<1>2. ASSUME NEW l \in Login, VerifyRight(l) PROVE Goal
  BY <1>2 DEF VerifyRight, Verifiable
<1>3. ASSUME NEW l \in Login, VerifyWrong(l) PROVE Goal
  BY <1>3 DEF VerifyWrong, Verifiable, Wrong
<1>4. CASE Delivered
  BY <1>4 DEF Delivered
<1>5. CASE MinutePasses
  BY <1>5 DEF MinutePasses
<1>6. CASE CodeExpires
  BY <1>6 DEF CodeExpires
<1>7. CASE LockExpires
  BY <1>7 DEF LockExpires
<1>8. ASSUME NEW l \in Login, LoginEnds(l) PROVE Goal
  BY <1>8 DEF LoginEnds
<1>9. ASSUME NEW s \in sessions, SessionExpires(s) PROVE Goal
  BY <1>9 DEF SessionExpires
<1> QED BY <1>1, <1>2, <1>3, <1>4, <1>5, <1>6, <1>7, <1>8, <1>9 DEF AuthStep, AuthEvent

-----------------------------------------------------------------------------
(* Grants.                                                                   *)

\* A grant is a row, and its tokens are numbered.
LEMMA GrantFacts ==
  ASSUME grants \in Seq(GrantRow), NEW g \in Grant
  PROVE  /\ grants[g] \in GrantRow /\ grants[g].refresh \in Seq(TokenRow)
         /\ \A t \in DOMAIN grants[g].refresh : grants[g].refresh[t] \in TokenRow
<1>1. grants[g] \in GrantRow
  BY DEF Grant
<1>2. grants[g].refresh \in Seq(TokenRow)
  BY <1>1 DEF GrantRow
<1> QED BY <1>1, <1>2

\* One grant changes, the others stay.
LEMMA GrantSet ==
  ASSUME grants \in Seq(GrantRow), NEW g \in Grant, NEW row \in GrantRow,
         grants' = [grants EXCEPT ![g] = row]
  PROVE  /\ grants' \in Seq(GrantRow) /\ DOMAIN grants' = DOMAIN grants
         /\ grants'[g] = row
         /\ \A h \in Grant \ {g} : grants'[h] = grants[h]
BY DEF Grant

\* Tokens are issued to a grant all of whose refresh tokens are spent.
LEMMA IssuedSingle ==
  ASSUME NEW grant \in GrantRow, NEW rotate \in BOOLEAN, grant.code # "fresh",
         \A t \in DOMAIN grant.refresh : grant.refresh[t].spent
  PROVE  LET new == Issued(grant, rotate)
         IN  /\ new \in GrantRow /\ Single(new)
             /\ new.login = grant.login /\ new.session = grant.session /\ new.revoked = grant.revoked
<1> DEFINE new == Issued(grant, rotate)
           token == [spent |-> FALSE, expires |-> grant.expires]
<1>0. token \in TokenRow /\ grant.refresh \in Seq(TokenRow)
  BY DEF TokenRow, GrantRow
<1>1. new \in GrantRow
  <2>1. (IF rotate THEN Append(grant.refresh, token) ELSE grant.refresh) \in Seq(TokenRow)
    BY <1>0
  <2> QED BY <2>1 DEF Issued, GrantRow
<1>2. /\ new.login = grant.login /\ new.session = grant.session /\ new.revoked = grant.revoked
      /\ new.code = grant.code /\ new.expires = grant.expires
      /\ new.refresh = IF rotate THEN Append(grant.refresh, token) ELSE grant.refresh
  BY DEF Issued, GrantRow
<1>3. Single(new)
  <2>1. CASE ~rotate
    BY <1>2, <2>1 DEF Single
  <2>2. CASE rotate
    <3>1. /\ DOMAIN new.refresh = 1..(Len(grant.refresh) + 1)
          /\ Len(grant.refresh) \in Nat /\ DOMAIN grant.refresh = 1..Len(grant.refresh)
          /\ new.refresh[Len(grant.refresh) + 1] = token
          /\ \A t \in 1..Len(grant.refresh) : new.refresh[t] = grant.refresh[t]
      BY <1>0, <1>2, <2>2
    <3>2. \A t \in DOMAIN new.refresh : ~new.refresh[t].spent => t = Len(grant.refresh) + 1
      BY <3>1
    <3> QED BY <1>2, <3>1, <3>2 DEF Single
  <2> QED BY <2>1, <2>2
<1> QED BY <1>1, <1>2, <1>3

\* No grant disappears, moves to another login or session, or comes back to life.
GrantsKept ==
  /\ DOMAIN grants' = DOMAIN grants
  /\ \A g \in DOMAIN grants :
       /\ grants'[g].login = grants[g].login /\ grants'[g].session = grants[g].session
       /\ grants[g].revoked => grants'[g].revoked

\* One grant changes and keeps what every grant keeps.
LEMMA OneGrant ==
  ASSUME grants \in Seq(GrantRow), CredentialInv, NEW g \in Grant, NEW row \in GrantRow,
         grants' = [grants EXCEPT ![g] = row],
         row.login = grants[g].login, row.session = grants[g].session,
         grants[g].revoked => row.revoked, Single(row)
  PROVE  grants' \in Seq(GrantRow) /\ CredentialInv' /\ GrantsKept
<1>1. /\ grants' \in Seq(GrantRow) /\ DOMAIN grants' = DOMAIN grants
      /\ grants'[g] = row
      /\ \A h \in Grant \ {g} : grants'[h] = grants[h]
  BY GrantSet
<1>2. CredentialInv'
  <2> SUFFICES ASSUME NEW h \in DOMAIN grants' PROVE Single(grants'[h])
    BY DEF CredentialInv, Single
  <2> QED BY <1>1 DEF CredentialInv, Grant
<1>3. GrantsKept
  BY <1>1 DEF GrantsKept, Grant
<1> QED BY <1>1, <1>2, <1>3

\* The exchange of a code, once: the grant had no token, and has one or none.
LEMMA ExchangeCodeStep ==
  ASSUME grants \in Seq(GrantRow), CredentialInv, NEW g \in Grant, NEW offline \in BOOLEAN,
         ExchangeCode(g, offline)
  PROVE  grants' \in Seq(GrantRow) /\ CredentialInv' /\ GrantsKept
<1> DEFINE spent == [grants[g] EXCEPT !.code = "spent"]
<1>1. grants[g] \in GrantRow /\ Single(grants[g]) /\ grants[g].code = "fresh"
  BY DEF Grant, CredentialInv, ExchangeCode
<1>2. /\ spent \in GrantRow /\ spent.code = "spent" /\ spent.refresh = <<>>
      /\ spent.login = grants[g].login /\ spent.session = grants[g].session
      /\ spent.revoked = grants[g].revoked
  BY <1>1 DEF GrantRow, Single
<1>3. grants' = [grants EXCEPT ![g] = Issued(spent, offline)]
  BY DEF ExchangeCode
<1> HIDE DEF spent
<1>4. \A t \in DOMAIN spent.refresh : spent.refresh[t].spent
  BY <1>2
<1> QED BY <1>2, <1>3, <1>4, IssuedSingle, OneGrant

\* The exchange of a refresh token: an unspent one is spent for the next, any other
\* revokes the grant.
LEMMA ExchangeRefreshStep ==
  ASSUME grants \in Seq(GrantRow), CredentialInv, NEW g \in Grant,
         NEW t \in DOMAIN grants[g].refresh, ExchangeRefresh(g, t)
  PROVE  grants' \in Seq(GrantRow) /\ CredentialInv' /\ GrantsKept
<1>1. /\ grants[g] \in GrantRow /\ Single(grants[g])
      /\ grants[g].refresh \in Seq(TokenRow) /\ grants[g].code # "fresh"
      /\ \A u \in DOMAIN grants[g].refresh : grants[g].refresh[u] \in TokenRow
  BY GrantFacts DEF Grant, CredentialInv, Single
<1>2. CASE grants[g].refresh[t].spent
  <2> DEFINE row == [grants[g] EXCEPT !.revoked = TRUE]
  <2>1. /\ row \in GrantRow /\ row.revoked /\ row.login = grants[g].login
        /\ row.session = grants[g].session /\ row.refresh = grants[g].refresh
        /\ row.code = grants[g].code /\ row.expires = grants[g].expires
    BY <1>1 DEF GrantRow
  <2>2. grants' = [grants EXCEPT ![g] = row]
    BY <1>2 DEF ExchangeRefresh
  <2>3. Single(row)
    BY <1>1, <2>1 DEF Single
  <2> HIDE DEF row
  <2> QED BY <2>1, <2>2, <2>3, OneGrant
<1>3. CASE ~grants[g].refresh[t].spent
  <2> DEFINE row == Spend(g, t)
  <2>1. /\ row.login = grants[g].login /\ row.session = grants[g].session
        /\ row.revoked = grants[g].revoked /\ row.code = grants[g].code
        /\ row.refresh = [grants[g].refresh EXCEPT ![t].spent = TRUE]
    BY <1>1 DEF GrantRow, Spend
  <2>2. row.refresh \in Seq(TokenRow)
    <3>1. [grants[g].refresh[t] EXCEPT !.spent = TRUE] \in TokenRow
      BY <1>1 DEF TokenRow
    <3> QED BY <1>1, <2>1, <3>1
  <2>3. row \in GrantRow
    BY <1>1, <2>1, <2>2 DEF GrantRow, Spend
  <2>4. \A u \in DOMAIN row.refresh : row.refresh[u].spent
    <3> SUFFICES ASSUME NEW u \in DOMAIN grants[g].refresh PROVE row.refresh[u].spent
      BY <1>1, <2>1
    <3>1. CASE u = t
      BY <1>1, <2>1, <3>1 DEF TokenRow
    <3>2. CASE u # t
      BY <1>1, <1>3, <2>1, <3>2 DEF Single
    <3> QED BY <3>1, <3>2
  <2>5. grants' = [grants EXCEPT ![g] = Issued(row, TRUE)]
    BY <1>3 DEF ExchangeRefresh
  <2> HIDE DEF row
  <2>6. row.code # "fresh"
    BY <1>1, <2>1
  <2>7. LET new == Issued(row, TRUE)
        IN  /\ new \in GrantRow /\ Single(new)
            /\ new.login = row.login /\ new.session = row.session /\ new.revoked = row.revoked
    BY <2>3, <2>4, <2>6, IssuedSingle
  <2> QED BY <2>1, <2>5, <2>7, OneGrant
<1> QED BY <1>2, <1>3

\* A new expiry is the expiry of the grant and of its unspent token.
LEMMA UpdateExpiryStep ==
  ASSUME grants \in Seq(GrantRow), CredentialInv, NEW s, NEW g \in Grant, NEW d \in Expiry,
         update_grant_expiry(s, g, d)
  PROVE  grants' \in Seq(GrantRow) /\ CredentialInv' /\ GrantsKept
<1> DEFINE row == Prolonged(grants[g], d)
           tokens == [t \in DOMAIN grants[g].refresh |->
                        IF grants[g].refresh[t].spent THEN grants[g].refresh[t]
                        ELSE [grants[g].refresh[t] EXCEPT !.expires = d]]
<1>1. /\ grants[g] \in GrantRow /\ Single(grants[g]) /\ grants[g].refresh \in Seq(TokenRow)
  BY GrantFacts DEF Grant, CredentialInv
<1>2. /\ row.login = grants[g].login /\ row.session = grants[g].session
      /\ row.revoked = grants[g].revoked /\ row.code = grants[g].code /\ row.expires = d
      /\ row.refresh = tokens
  BY <1>1 DEF Prolonged, GrantRow
<1>3. tokens \in Seq(TokenRow)
  <2>1. /\ DOMAIN grants[g].refresh = 1..Len(grants[g].refresh) /\ Len(grants[g].refresh) \in Nat
        /\ \A t \in DOMAIN grants[g].refresh : grants[g].refresh[t] \in TokenRow
    BY <1>1
  <2>2. \A t \in DOMAIN grants[g].refresh : tokens[t] \in TokenRow
    BY <2>1 DEF TokenRow
  <2>3. tokens \in [1..Len(grants[g].refresh) -> TokenRow]
    BY <2>1, <2>2
  <2> HIDE DEF tokens
  <2> QED BY <2>1, <2>3
<1>4. row \in GrantRow
  BY <1>1, <1>2, <1>3 DEF Prolonged, GrantRow
<1>5. Single(row)
  <2>1. /\ DOMAIN tokens = DOMAIN grants[g].refresh
        /\ \A t \in DOMAIN tokens :
             /\ tokens[t].spent = grants[g].refresh[t].spent
             /\ ~tokens[t].spent => tokens[t].expires = d
    BY <1>1 DEF TokenRow
  <2>2. grants[g].refresh = <<>> => tokens = <<>>
    BY <1>1
  <2> HIDE DEF tokens, row
  <2> QED BY <1>1, <1>2, <2>1, <2>2 DEF Single
<1>6. grants' = [grants EXCEPT ![g] = row]
  BY DEF update_grant_expiry
<1> HIDE DEF row
<1> QED BY <1>2, <1>4, <1>5, <1>6, OneGrant

\* What happens to one grant, whoever does it: its rows and credentials stay in order,
\* it is never revived, and nothing else changes.
GrantAction(g) ==
  \/ \E offline \in BOOLEAN : ExchangeCode(g, offline)
  \/ \E t \in DOMAIN grants[g].refresh : ExchangeRefresh(g, t)
  \/ Revoke(g) \/ CodeLapses(g) \/ AccessLapses(g)
  \/ \E s \in sessions, d \in Expiry : update_grant_expiry(s, g, d)

\* Every action on grants keeps what is known of them.
LEMMA GrantActionStep ==
  ASSUME grants \in Seq(GrantRow), CredentialInv, NEW g \in Grant, GrantAction(g)
  PROVE  /\ grants' \in Seq(GrantRow) /\ CredentialInv' /\ GrantsKept
         /\ UNCHANGED <<authVars, clock, requests, consents, leaving, ended>>
<1>1. grants[g] \in GrantRow /\ Single(grants[g])
  BY GrantFacts DEF Grant, CredentialInv
<1>2. ASSUME NEW row, row \in {[grants[g] EXCEPT !.revoked = TRUE], [grants[g] EXCEPT !.code = "lapsed"],
                               [grants[g] EXCEPT !.access = FALSE]},
             grants' = [grants EXCEPT ![g] = row]
      PROVE  grants' \in Seq(GrantRow) /\ CredentialInv' /\ GrantsKept
  <2>1. /\ row \in GrantRow /\ row.login = grants[g].login /\ row.session = grants[g].session
        /\ grants[g].revoked => row.revoked
        /\ row.refresh = grants[g].refresh /\ row.expires = grants[g].expires
        /\ row.code = "fresh" => grants[g].code = "fresh"
    BY <1>1, <1>2 DEF GrantRow
  <2>2. Single(row)
    BY <1>1, <2>1 DEF Single
  <2> QED BY <1>2, <2>1, <2>2, OneGrant
<1>3. CASE \E offline \in BOOLEAN : ExchangeCode(g, offline)
  BY <1>3, ExchangeCodeStep DEF ExchangeCode
<1>4. CASE \E t \in DOMAIN grants[g].refresh : ExchangeRefresh(g, t)
  BY <1>4, ExchangeRefreshStep DEF ExchangeRefresh
<1>5. CASE Revoke(g)
  BY <1>2, <1>5 DEF Revoke
<1>6. CASE CodeLapses(g)
  BY <1>2, <1>6 DEF CodeLapses
<1>7. CASE AccessLapses(g)
  BY <1>2, <1>7 DEF AccessLapses
<1>8. CASE \E s \in sessions, d \in Expiry : update_grant_expiry(s, g, d)
  BY <1>8, UpdateExpiryStep DEF update_grant_expiry
<1> QED BY <1>3, <1>4, <1>5, <1>6, <1>7, <1>8 DEF GrantAction

\* A decision closes the request, and its grant, when there is one, is the last and new.
LEMMA DecideStep ==
  ASSUME AuthTypeOK, OAuthTypeOK, CredentialInv, LogoutInv, NEW c \in consents,
         NEW approved \in BOOLEAN, NEW d \in Date, Decide(c, approved, d)
  PROVE  OAuthTypeOK' /\ CredentialInv' /\ LogoutInv'
<1> DEFINE new == NewGrant(c.session, d)
<1>1. /\ c.session \in SessionRow /\ c.request \in Request /\ grants \in Seq(GrantRow)
      /\ c.session \notin ended \cup Taken
  BY DEF OAuthTypeOK, GrantRow, TokenRow, LogoutInv
<1>2. /\ new \in GrantRow /\ Single(new) /\ new.login = new.session.login
      /\ new.session = c.session
  BY <1>1 DEF NewGrant, GrantRow, TokenRow, SessionRow, Expiry, Single
<1> HIDE DEF new
<1>3. /\ grants' = IF approved THEN Append(grants, new) ELSE grants
      /\ requests' = [requests EXCEPT ![c.request] = "decided"]
      /\ consents' = consents \ {c}
      /\ UNCHANGED <<authVars, clock, leaving, ended>>
  BY DEF Decide, new
<1>4. /\ grants' \in Seq(GrantRow)
      /\ \A g \in DOMAIN grants' : grants'[g] = new \/ (g \in DOMAIN grants /\ grants'[g] = grants[g])
  BY <1>1, <1>2, <1>3
<1>5. OAuthTypeOK'
  BY <1>1, <1>3, <1>4 DEF OAuthTypeOK, GrantRow, TokenRow
<1>6. CredentialInv'
  <2> SUFFICES ASSUME NEW g \in DOMAIN grants' PROVE Single(grants'[g])
    BY DEF CredentialInv, Single
  <2> QED BY <1>2, <1>4 DEF CredentialInv
<1>7. LogoutInv'
  <2>1. /\ \A g \in DOMAIN grants' : grants'[g].login = grants'[g].session.login
        /\ LogoutEndsGrants'
    BY <1>1, <1>2, <1>3, <1>4 DEF LogoutInv, LogoutEndsGrants
  <2>2. SessionsAreUsed' /\ (sessions \cap ended = {})'
        /\ (\A b \in consents : b.session \notin ended \cup Taken)'
        /\ (\A s \in Taken : s.login = leaving.login)'
    BY <1>3 DEF LogoutInv, SessionsAreUsed, Taken, authVars
  <2> QED BY <2>1, <2>2 DEF LogoutInv
<1> QED BY <1>5, <1>6, <1>7

-----------------------------------------------------------------------------
(* Logouts.                                                                  *)

\* A step that opens no session it may not open, takes none, and consents with none
\* that ended, keeps the logouts in order.
LEMMA LogoutKept ==
  ASSUME LogoutInv, GrantsKept, UNCHANGED <<otp, sessions, leaving, ended>>,
         consents' \subseteq consents
  PROVE  LogoutInv'
<1>1. Taken' = Taken
  BY DEF Taken
<1>2. SessionsAreUsed'
  BY <1>1 DEF LogoutInv, SessionsAreUsed
<1>3. LogoutEndsGrants' /\ (\A g \in DOMAIN grants : grants[g].login = grants[g].session.login)'
  BY DEF LogoutInv, GrantsKept, LogoutEndsGrants
<1> QED BY <1>1, <1>2, <1>3 DEF LogoutInv

\* Codes and elevated sessions.
LEMMA AuthLogout ==
  ASSUME AuthTypeOK, OAuthTypeOK, GuessInv, LogoutInv, AuthStep \/ AuthEvent, UNCHANGED oauthVars
  PROVE  LogoutInv'
<1>1. Taken' = Taken /\ UNCHANGED <<consents, leaving, grants, ended>>
  BY DEF Taken, oauthVars
<1>2. /\ otp.challenge \in Nat /\ otp'.challenge \in Nat
      /\ otp'.challenge >= otp.challenge
      /\ otp'.unused => otp.unused \/ otp'.challenge > otp.challenge
      /\ \A s \in sessions' \ sessions :
           otp.unused /\ s.code = otp.challenge /\ otp'.challenge = otp.challenge /\ ~otp'.unused
  BY AuthOpens
<1>3. \A s \in sessions \cup ended \cup Taken : s.code \in Nat
  BY ManageConstants DEF AuthTypeOK, OAuthTypeOK, SessionRow, Taken, ManageConstants
<1>4. SessionsAreUsed'
  <2> SUFFICES ASSUME NEW s \in sessions' \cup ended \cup Taken
               PROVE  s.code <= otp'.challenge /\ (otp'.unused => s.code # otp'.challenge)
    BY <1>1 DEF SessionsAreUsed
  <2>1. CASE s \in sessions \cup ended \cup Taken
    BY <1>2, <1>3, <2>1 DEF LogoutInv, SessionsAreUsed
  <2>2. CASE s \in sessions' \ sessions
    BY <1>2, <2>2
  <2> QED BY <2>1, <2>2
<1>5. (sessions \cap ended = {})'
  <2>1. ASSUME NEW s \in sessions', s \in ended PROVE FALSE
    BY <1>2, <1>3, <2>1 DEF LogoutInv, SessionsAreUsed
  <2> QED BY <1>1, <2>1
<1>6. LogoutEndsGrants'
  BY <1>1 DEF LogoutInv, LogoutEndsGrants
<1> QED BY <1>1, <1>4, <1>5, <1>6 DEF LogoutInv

\* The deletion of the sessions, which waits for consents of the login under way.
LEMMA LogoutSessionsStep ==
  ASSUME AuthTypeOK, OAuthTypeOK, CredentialInv, LogoutInv, NEW l \in Login, LogoutSessions(l)
  PROVE  OAuthTypeOK' /\ CredentialInv' /\ LogoutInv'
<1> DEFINE taken == {s \in sessions : s.login = l}
<1>1. /\ leaving = None /\ leaving' = [login |-> l, taken |-> taken] /\ ~Held(l)
      /\ UNCHANGED <<authVars, clock, requests, consents, grants, ended>>
  BY DEF LogoutSessions
<1>2. taken \subseteq SessionRow
  BY DEF AuthTypeOK
<1>3. OAuthTypeOK' /\ CredentialInv'
  BY <1>1, <1>2 DEF OAuthTypeOK, CredentialInv, Single
<1>4. Taken = {} /\ Taken' \subseteq taken
  BY <1>1 DEF Taken
<1>5. SessionsAreUsed'
  BY <1>1, <1>4 DEF LogoutInv, SessionsAreUsed, authVars
<1>6. (\A c \in consents : c.session \notin ended \cup Taken)'
  BY <1>1, <1>4 DEF LogoutInv, Held
<1>7. /\ (sessions \cap ended = {})' /\ LogoutEndsGrants'
      /\ (\A g \in DOMAIN grants : grants[g].login = grants[g].session.login)'
  BY <1>1 DEF LogoutInv, authVars, LogoutEndsGrants
<1>8. (\A s \in Taken : s.login = leaving.login)'
  BY <1>1, <1>4
<1> QED BY <1>3, <1>5, <1>6, <1>7, <1>8 DEF LogoutInv

\* The revocation of the grants: every grant of a session that ends is one of its login.
LEMMA LogoutGrantsStep ==
  ASSUME AuthTypeOK, OAuthTypeOK, CredentialInv, LogoutInv, LogoutGrants
  PROVE  AuthTypeOK' /\ OAuthTypeOK' /\ CredentialInv' /\ LogoutInv'
<1> USE DEF LogoutGrants
<1>1. /\ Taken = leaving.taken /\ Taken' = {} /\ leaving \in [login : Login, taken : SUBSET SessionRow]
      /\ grants \in Seq(GrantRow)
  BY DEF Taken, OAuthTypeOK, GrantRow, TokenRow
<1>2. AuthTypeOK'
  BY DEF AuthTypeOK
<1>3. ASSUME NEW g \in DOMAIN grants
      PROVE  /\ grants'[g] \in GrantRow /\ Single(grants'[g])
             /\ grants'[g].login = grants[g].login /\ grants'[g].session = grants[g].session
             /\ grants[g].revoked \/ grants[g].login = leaving.login => grants'[g].revoked
  <2>1. grants[g] \in GrantRow /\ Single(grants[g])
    BY <1>1 DEF CredentialInv
  <2>2. grants'[g] = IF grants[g].login = leaving.login THEN [grants[g] EXCEPT !.revoked = TRUE] ELSE grants[g]
    OBVIOUS
  <2>3. /\ grants'[g] \in GrantRow /\ grants'[g].login = grants[g].login
        /\ grants'[g].session = grants[g].session
        /\ grants[g].revoked \/ grants[g].login = leaving.login => grants'[g].revoked
        /\ grants'[g].refresh = grants[g].refresh /\ grants'[g].code = grants[g].code
        /\ grants'[g].expires = grants[g].expires
    BY <2>1, <2>2 DEF GrantRow
  <2>4. Single(grants'[g])
    BY <2>1, <2>3 DEF Single
  <2> QED BY <2>3, <2>4
<1>4. DOMAIN grants' = DOMAIN grants /\ grants' \in Seq(GrantRow)
  <2>1. DOMAIN grants' = DOMAIN grants
    OBVIOUS
  <2>2. DOMAIN grants = 1..Len(grants) /\ Len(grants) \in Nat
    BY <1>1
  <2>3. grants' \in [1..Len(grants) -> GrantRow]
    BY <1>3, <2>1, <2>2
  <2> QED BY <2>1, <2>2, <2>3
<1>5. OAuthTypeOK' /\ CredentialInv'
  <2>1. OAuthTypeOK'
    BY <1>1, <1>4 DEF OAuthTypeOK, GrantRow, TokenRow
  <2>2. CredentialInv'
    <3> SUFFICES ASSUME NEW g \in DOMAIN grants' PROVE Single(grants'[g])
      BY DEF CredentialInv, Single
    <3> QED BY <1>3, <1>4
  <2> QED BY <2>1, <2>2
<1>6. SessionsAreUsed' /\ (sessions \cap ended = {})'
  BY <1>1 DEF LogoutInv, SessionsAreUsed
<1>7. (\A c \in consents : c.session \notin ended \cup Taken)' /\ (\A s \in Taken : s.login = leaving.login)'
  BY <1>1 DEF LogoutInv
<1>8. LogoutEndsGrants' /\ (\A g \in DOMAIN grants : grants[g].login = grants[g].session.login)'
  BY <1>1, <1>3, <1>4 DEF LogoutInv, LogoutEndsGrants
<1> QED BY <1>2, <1>5, <1>6, <1>7, <1>8 DEF LogoutInv

\* Every step of the authorization server, those that count as events included.
LEMMA OAuthSteps ==
  ASSUME AuthTypeOK, GuessInv, OAuthTypeOK, CredentialInv, LogoutInv, OAuthStep \/ OAuthEvent
  PROVE  AuthTypeOK' /\ GuessInv' /\ OAuthTypeOK' /\ CredentialInv' /\ LogoutInv'
<1> DEFINE Goal == AuthTypeOK' /\ GuessInv' /\ OAuthTypeOK' /\ CredentialInv' /\ LogoutInv'
<1>0. grants \in Seq(GrantRow)
  BY DEF OAuthTypeOK, GrantRow, TokenRow
<1>1. ASSUME UNCHANGED authVars PROVE AuthTypeOK' /\ GuessInv'
  BY <1>1 DEF authVars, AuthTypeOK, GuessInv
<1>2. ASSUME UNCHANGED grants PROVE GrantsKept /\ CredentialInv'
  BY <1>2 DEF GrantsKept, CredentialInv, Single
<1>3. ASSUME NEW r \in Request, begin_authorization(r) PROVE Goal
  <2>1. requests' \in [Request -> {"new", "open", "decided", "over", "gone"}]
    BY <1>3 DEF begin_authorization, Without, OAuthTypeOK
  <2>2. LogoutInv' /\ OAuthTypeOK'
    BY <1>2, <1>3, <2>1, LogoutKept DEF begin_authorization, authVars, OAuthTypeOK
  <2> QED BY <1>1, <1>2, <1>3, <2>2 DEF begin_authorization
<1>15. ASSUME NEW s \in sessions, list_grants(s) PROVE Goal
  <2>1. requests' \in [Request -> {"new", "open", "decided", "over", "gone"}]
    BY <1>15 DEF list_grants, Without, OAuthTypeOK
  <2>2. LogoutInv' /\ OAuthTypeOK'
    BY <1>2, <1>15, <2>1, LogoutKept DEF list_grants, authVars, OAuthTypeOK
  <2> QED BY <1>1, <1>2, <1>15, <2>2 DEF list_grants
<1>4. ASSUME NEW r \in Request, NEW s \in sessions, Consent(s, r) PROVE Goal
  <2>1. OAuthTypeOK'
    BY <1>4 DEF Consent, OAuthTypeOK, AuthTypeOK
  <2>2. s \notin ended \cup Taken /\ Taken' = Taken
    BY <1>4 DEF Consent, _Manage, LogoutInv, Taken
  <2>3. LogoutInv'
    BY <1>4, <2>2 DEF Consent, LogoutInv, SessionsAreUsed, LogoutEndsGrants, authVars
  <2> QED BY <1>1, <1>2, <1>4, <2>1, <2>3 DEF Consent
<1>5. ASSUME NEW c \in consents, ConsentFails(c) PROVE Goal
  <2>1. LogoutInv' /\ OAuthTypeOK'
    BY <1>2, <1>5, LogoutKept DEF ConsentFails, authVars, OAuthTypeOK
  <2> QED BY <1>1, <1>2, <1>5, <2>1 DEF ConsentFails
<1>6. ASSUME NEW c \in consents, NEW approved \in BOOLEAN, NEW d \in Date, Decide(c, approved, d)
      PROVE  Goal
  BY <1>1, <1>6, DecideStep DEF Decide
<1>7. ASSUME NEW g \in Grant, GrantAction(g) PROVE Goal
  <2>1. /\ grants' \in Seq(GrantRow) /\ CredentialInv' /\ GrantsKept
        /\ UNCHANGED <<authVars, clock, requests, consents, leaving, ended>>
    BY <1>0, <1>7, GrantActionStep
  <2>2. LogoutInv' /\ OAuthTypeOK'
    BY <2>1, LogoutKept DEF authVars, OAuthTypeOK, GrantRow, TokenRow
  <2> QED BY <1>1, <2>1, <2>2
<1>8. ASSUME LogoutGrants PROVE Goal
  <2>1. GuessInv'
    BY <1>8 DEF LogoutGrants, GuessInv
  <2> QED BY <1>8, <2>1, LogoutGrantsStep
<1>9. ASSUME NEW r \in Request, RequestExpires(r) PROVE Goal
  <2>1. LogoutInv' /\ OAuthTypeOK'
    BY <1>2, <1>9, LogoutKept DEF RequestExpires, authVars, OAuthTypeOK
  <2> QED BY <1>1, <1>2, <1>9, <2>1 DEF RequestExpires
<1>10. ASSUME NEW l \in Login, LogoutSessions(l) PROVE Goal
  BY <1>1, <1>10, LogoutSessionsStep DEF LogoutSessions
<1>11. ASSUME LogoutFails PROVE Goal
  <2>1. Taken' = {} /\ OAuthTypeOK'
    BY <1>11 DEF LogoutFails, Taken, OAuthTypeOK
  <2>2. LogoutInv'
    BY <1>11, <2>1 DEF LogoutFails, LogoutInv, SessionsAreUsed, LogoutEndsGrants, authVars
  <2> QED BY <1>1, <1>2, <1>11, <2>1, <2>2 DEF LogoutFails
<1>12. ASSUME Tick PROVE Goal
  <2>1. LogoutInv' /\ OAuthTypeOK'
    BY <1>2, <1>12, LogoutKept, OAuthConstants DEF Tick, authVars, OAuthTypeOK, OAuthConstants
  <2> QED BY <1>1, <1>2, <1>12, <2>1 DEF Tick
<1> HIDE DEF Goal
<1>13. ASSUME OAuthStep PROVE Goal
  <2>1. (\E g \in Grant : \/ \E offline \in BOOLEAN : ExchangeCode(g, offline)
                          \/ \E t \in DOMAIN grants[g].refresh : ExchangeRefresh(g, t)) => Goal
    BY <1>7 DEF GrantAction
  <2>2. (\E r \in Request : begin_authorization(r) \/ \E s \in sessions : Consent(s, r)) => Goal
    BY <1>3, <1>4
  <2>3. (\E c \in consents : \/ ConsentFails(c)
                           \/ \E approved \in BOOLEAN, d \in Date : Decide(c, approved, d)) => Goal
    BY <1>5, <1>6
  <2> QED BY <1>8, <1>13, <1>15, <2>1, <2>2, <2>3 DEF OAuthStep
<1>14. ASSUME OAuthEvent PROVE Goal
  <2>1. (\E g \in Grant : \/ Revoke(g) \/ CodeLapses(g) \/ AccessLapses(g)
                          \/ \E s \in sessions, d \in Expiry : update_grant_expiry(s, g, d)) => Goal
    BY <1>7 DEF GrantAction
  <2>2. (\E r \in Request : RequestExpires(r)) \/ (\E l \in Login : LogoutSessions(l)) => Goal
    BY <1>9, <1>10
  <2> QED BY <1>11, <1>12, <1>14, <2>1, <2>2 DEF OAuthEvent
<1> QED BY <1>13, <1>14 DEF Goal

-----------------------------------------------------------------------------
(* Settings.                                                                 *)

\* An edit is made on what is stored, by an administrator or a grant of the tools.
LEMMA LoadStep ==
  ASSUME SettingTypeOK, SettingInv, NEW k \in Key, NEW by \in Admin \cup Nat, Load(k, by)
  PROVE  SettingTypeOK' /\ SettingInv'
<1> USE SettingConstants DEF SettingConstants
<1> DEFINE e == [id |-> begun', key |-> k, by |-> by, step |-> "read",
                 expected |-> setting[k].version, value |-> setting[k].value \cup {begun'}]
<1>1. /\ begun \in 0..MaxEdits /\ begun < MaxEdits /\ begun' = begun + 1
      /\ edits' = edits \cup {e} /\ UNCHANGED <<setting, frontier, won>>
  BY DEF Load, get_setting, SettingTypeOK
<1>2. /\ setting[k].version \in Nat /\ setting[k].value \subseteq 1..begun
  <2>1. setting[k].value = {w[2] : w \in {w \in won : w[1] = k}}
    BY DEF SettingInv, SavesAreWhole
  <2> QED BY <2>1 DEF SettingTypeOK
<1>3. SavesAreWhole'
  BY <1>1 DEF SettingInv, SavesAreWhole
<1>4. /\ e \in EditRow /\ e.id \in 1..begun' /\ e.key = k /\ e.step = "read"
      /\ e.expected = setting[k].version /\ e.value = setting[k].value \cup {e.id}
      /\ e.value \subseteq 1..begun'
  BY <1>1, <1>2 DEF EditRow
<1> HIDE DEF e
<1>5. SettingTypeOK'
  BY <1>1, <1>2, <1>4 DEF SettingTypeOK
<1>6. edits' \subseteq EditRow
  BY <1>1, <1>4 DEF SettingInv
<1>7. (\A f \in edits : Current(f) => f.value = setting[f.key].value \cup {f.id})'
  BY <1>1, <1>4 DEF SettingInv, Current
<1> QED BY <1>3, <1>5, <1>6, <1>7 DEF SettingInv

\* An edit that arrives, or is given up, is the same edit.
LEMMA EditStep ==
  ASSUME SettingTypeOK, SettingInv, NEW e \in edits, Submit(e) \/ Abandon(e)
  PROVE  SettingTypeOK' /\ SettingInv'
<1> DEFINE f == [e EXCEPT !.step = "sent"]
<1>1. UNCHANGED <<setting, begun, frontier, won>> /\ edits' \subseteq edits \cup {f}
  BY DEF Submit, Abandon
<1>2. /\ f \in EditRow /\ f.id = e.id /\ f.key = e.key /\ f.step = "sent"
      /\ f.expected = e.expected /\ f.value = e.value
  BY DEF SettingInv, EditRow
<1> HIDE DEF f
<1>3. SettingTypeOK'
  BY <1>1, <1>2 DEF SettingTypeOK
<1>4. SettingInv'
  BY <1>1, <1>2 DEF SettingInv, SavesAreWhole, Current
<1> QED BY <1>3, <1>4

\* A save of an edit made on the stored value adds exactly that edit to it, and makes
\* every other edit of the setting out of date.
LEMMA SaveStep ==
  ASSUME SettingTypeOK, SettingInv, NEW e \in edits, Save(e)
  PROVE  SettingTypeOK' /\ SettingInv'
<1> USE SettingConstants DEF SettingConstants
<1>1. edits' \subseteq edits /\ begun' = begun
  BY DEF Save
<1>2. CASE ~Current(e)
  <2>1. UNCHANGED <<setting, frontier, won>>
    BY <1>2 DEF Save
  <2>2. SettingTypeOK'
    BY <1>1, <2>1 DEF SettingTypeOK
  <2>3. SettingInv'
    BY <1>1, <2>1 DEF SettingInv, SavesAreWhole, Current
  <2> QED BY <2>2, <2>3
<1>3. CASE Current(e)
  <2>1. /\ setting' = [setting EXCEPT ![e.key] = [version |-> setting[e.key].version + 1, value |-> e.value]]
        /\ frontier' = IF e.key = SeedKey THEN frontier \cup {e.id} ELSE frontier
        /\ won' = won \cup {<<e.key, e.id>>}
    BY <1>3 DEF Save
  <2>2. /\ e.key \in Key /\ e.id \in 1..begun /\ e.value \subseteq 1..begun /\ begun \in 0..MaxEdits
        /\ e.value = setting[e.key].value \cup {e.id}
        /\ setting \in [Key -> [version : Nat, value : SUBSET (1..MaxEdits)]]
    BY <1>3 DEF SettingTypeOK, SettingInv
  <2>3. /\ setting' \in [Key -> [version : Nat, value : SUBSET (1..MaxEdits)]]
        /\ setting'[e.key].version = setting[e.key].version + 1
        /\ setting'[e.key].value = setting[e.key].value \cup {e.id}
        /\ \A k \in Key \ {e.key} : setting'[k] = setting[k]
    <3>1. [version |-> setting[e.key].version + 1, value |-> e.value] \in [version : Nat, value : SUBSET (1..MaxEdits)]
      BY <2>2
    <3> QED BY <2>1, <2>2, <3>1
  <2>4. \A k \in Key : /\ setting[k].version \in Nat /\ setting'[k].version \in Nat
                      /\ setting'[k].version >= setting[k].version
    BY <2>2, <2>3
  <2>5. SettingTypeOK'
    <3>1. won' \subseteq Key \X (1..begun) /\ frontier' \subseteq 1..begun
      <4>1. won \subseteq Key \X (1..begun) /\ frontier \subseteq 1..begun
        BY DEF SettingTypeOK
      <4>2. <<e.key, e.id>> \in Key \X (1..begun)
        BY <2>2
      <4> QED BY <2>1, <2>2, <4>1, <4>2
    <3>2. ASSUME NEW f \in edits PROVE f.expected \in 0..setting'[f.key].version
      <4>1. f.key \in Key /\ f.expected \in 0..setting[f.key].version
        BY DEF SettingTypeOK
      <4> QED BY <2>4, <4>1
    <3> QED BY <1>1, <2>2, <2>3, <3>1, <3>2 DEF SettingTypeOK
  <2>6. SavesAreWhole'
    <3>1. \A k \in Key : setting'[k].value = {w[2] : w \in {w \in won' : w[1] = k}}
      <4> SUFFICES ASSUME NEW k \in Key
                   PROVE  setting'[k].value = {w[2] : w \in {w \in won' : w[1] = k}}
        OBVIOUS
      <4>1. setting[k].value = {w[2] : w \in {w \in won : w[1] = k}}
        BY DEF SettingInv, SavesAreWhole
      <4>2. CASE k = e.key
        <5>1. {w \in won' : w[1] = k} = {w \in won : w[1] = k} \cup {<<k, e.id>>}
          BY <2>1, <4>2
        <5> DEFINE W == {w \in won : w[1] = k}
        <5> HIDE DEF W
        <5>2. {w[2] : w \in W \cup {<<k, e.id>>}} = {w[2] : w \in W} \cup {e.id}
          <6>1. <<k, e.id>>[2] = e.id
            OBVIOUS
          <6> DEFINE x == <<k, e.id>>
          <6> HIDE DEF x
          <6>2. {w[2] : w \in W \cup {x}} = {w[2] : w \in W} \cup {x[2]}
            OBVIOUS
          <6> QED BY <6>1, <6>2 DEF x
        <5> QED BY <2>3, <4>1, <4>2, <5>1, <5>2 DEF W
      <4>3. CASE k # e.key
        <5>1. {w \in won' : w[1] = k} = {w \in won : w[1] = k}
          BY <2>1, <4>3
        <5> QED BY <2>3, <4>1, <4>3, <5>1
      <4> QED BY <4>2, <4>3
    <3>2. frontier' = setting'[SeedKey].value
      BY <2>1, <2>3 DEF SettingInv, SavesAreWhole
    <3> QED BY <3>1, <3>2 DEF SavesAreWhole
  <2>7. \A f \in edits : setting'[f.key].version = f.expected => f.value = setting'[f.key].value \cup {f.id}
    <3> SUFFICES ASSUME NEW f \in edits, setting'[f.key].version = f.expected
                 PROVE  f.value = setting'[f.key].value \cup {f.id}
      OBVIOUS
    <3>1. f.key \in Key /\ f.expected \in 0..setting[f.key].version
      BY DEF SettingTypeOK
    <3>2. f.key # e.key
      BY <2>3, <2>4, <3>1
    <3> QED BY <2>3, <3>1, <3>2 DEF SettingInv, Current
  <2> QED BY <1>1, <2>5, <2>6, <2>7 DEF SettingInv, Current
<1> QED BY <1>2, <1>3

-----------------------------------------------------------------------------
(* The composition.                                                          *)

\* Init: nobody has logged in, nothing is granted, every setting has its seeded version.
LEMMA AccessInit == Init => AccessInv
<1> SUFFICES ASSUME Init PROVE AccessInv
  OBVIOUS
<1> USE ManageConstants, OAuthConstants, SettingConstants, AccessConstants
    DEF ManageConstants, OAuthConstants, SettingConstants, AccessConstants, Init
<1>1. AuthTypeOK /\ GuessInv
  BY DEF Init_auth, AuthTypeOK, LoginState, GuessInv
<1>2. OAuthTypeOK
  <2>1. <<>> \in Seq([login : Login, session : SessionRow, revoked : BOOLEAN, expires : Expiry,
                     code : {"fresh", "spent", "lapsed"}, access : BOOLEAN,
                     refresh : Seq([spent : BOOLEAN, expires : Expiry])])
    OBVIOUS
  <2> QED BY <2>1 DEF Init_oauth, OAuthTypeOK
<1>3. CredentialInv /\ LogoutInv
  BY DEF Init_auth, Init_oauth, CredentialInv, LogoutInv, SessionsAreUsed, Taken, LogoutEndsGrants
<1>4. SettingTypeOK /\ SettingInv
  <2>1. \A k \in Key : {w[2] : w \in {w \in won : w[1] = k}} = {}
    BY DEF Init_settings
  <2> QED BY <2>1 DEF Init_settings, SettingTypeOK, SettingInv, SavesAreWhole
<1> QED BY <1>1, <1>2, <1>3, <1>4 DEF AccessInv, TypeOK

\* An edit begins with what is stored, arrives, is saved or is given up.
LEMMA SettingSteps ==
  ASSUME SettingTypeOK, SettingInv, OAuthTypeOK, SettingStep \/ SettingEvent
  PROVE  SettingTypeOK' /\ SettingInv'
<1> DEFINE Goal == SettingTypeOK' /\ SettingInv'
<1>1. ASSUME NEW e \in edits, Submit(e) \/ Abandon(e) PROVE Goal
  BY <1>1, EditStep
<1>2. ASSUME NEW e \in edits, Save(e) PROVE Goal
  BY <1>2, SaveStep
<1>3. ASSUME NEW k \in Key, NEW by \in Admin \cup Nat, Load(k, by) PROVE Goal
  BY <1>3, LoadStep
<1>4. Grant \subseteq Nat
  BY DEF Grant, OAuthTypeOK
<1> HIDE DEF Goal
<1>5. ASSUME NEW e \in edits, update_setting(e) \/ set_discovery_enabled(e) PROVE Goal
  BY <1>1, <1>5 DEF update_setting, set_discovery_enabled
<1>6. ASSUME NEW k \in Key, NEW a \in Admin, read_settings(k, a) PROVE Goal
  BY <1>3, <1>6 DEF read_settings
<1>7. ASSUME NEW g \in Grant, get_discovery_control(g) PROVE Goal
  BY <1>3, <1>4, <1>7, AccessConstants DEF get_discovery_control, AccessConstants
<1> QED BY <1>1, <1>2, <1>5, <1>6, <1>7 DEF SettingStep, SettingEvent, Goal

\* Steps of one component leave what the others are about alone.
LEMMA AccessNext == AccessInv /\ [Next]_vars => AccessInv'
<1> SUFFICES ASSUME AccessInv, [Next]_vars PROVE AccessInv'
  OBVIOUS
<1>0. /\ AuthTypeOK /\ OAuthTypeOK /\ SettingTypeOK /\ events \in 0..MaxEvents
      /\ GuessInv /\ LogoutInv /\ CredentialInv /\ SettingInv
  BY DEF AccessInv, TypeOK
<1>1. ASSUME UNCHANGED authVars PROVE AuthTypeOK' /\ GuessInv'
  BY <1>0, <1>1 DEF authVars, AuthTypeOK, GuessInv
<1>2. ASSUME UNCHANGED oauthVars PROVE OAuthTypeOK' /\ CredentialInv'
  BY <1>0, <1>2 DEF oauthVars, OAuthTypeOK, CredentialInv, Single
<1>3. ASSUME UNCHANGED <<authVars, oauthVars>> PROVE LogoutInv'
  BY <1>0, <1>3 DEF authVars, oauthVars, LogoutInv, SessionsAreUsed, Taken, LogoutEndsGrants
<1>4. ASSUME UNCHANGED settingVars PROVE SettingTypeOK' /\ SettingInv'
  BY <1>0, <1>4 DEF settingVars, SettingTypeOK, SettingInv, SavesAreWhole, Current
<1>5. events' \in 0..MaxEvents
  BY <1>0, AccessConstants DEF AccessConstants, Next, vars
<1>6. ASSUME AuthStep \/ AuthEvent, UNCHANGED <<oauthVars, settingVars>> PROVE AccessInv'
  <2>1. AuthTypeOK' /\ GuessInv' /\ LogoutInv'
    BY <1>0, <1>6, AuthSteps, AuthLogout
  <2> QED BY <1>2, <1>4, <1>5, <1>6, <2>1 DEF AccessInv, TypeOK
<1>7. ASSUME OAuthStep \/ OAuthEvent, UNCHANGED settingVars PROVE AccessInv'
  <2>1. AuthTypeOK' /\ GuessInv' /\ OAuthTypeOK' /\ CredentialInv' /\ LogoutInv'
    BY <1>0, <1>7, OAuthSteps
  <2> QED BY <1>4, <1>5, <1>7, <2>1 DEF AccessInv, TypeOK
<1>8. ASSUME SettingStep \/ SettingEvent, UNCHANGED <<authVars, oauthVars>> PROVE AccessInv'
  <2>1. SettingTypeOK' /\ SettingInv'
    BY <1>0, <1>8, SettingSteps
  <2> QED BY <1>1, <1>2, <1>3, <1>5, <1>8, <2>1 DEF AccessInv, TypeOK
<1>9. CASE UNCHANGED vars
  BY <1>1, <1>2, <1>3, <1>4, <1>5, <1>9 DEF vars, AccessInv, TypeOK
<1> QED BY <1>6, <1>7, <1>8, <1>9 DEF Next

-----------------------------------------------------------------------------
(* What a step does to a grant and to a setting.                             *)

\* A grant keeps its owner, and what was used, spent or revoked stays so: a revoked one
\* gets no token any more.
WitherRow(x, y) ==
  /\ y.login = x.login /\ y.session = x.session
  /\ x.code # "fresh" => y.code # "fresh"
  /\ Len(x.refresh) <= Len(y.refresh)
  /\ \A t \in DOMAIN x.refresh : x.refresh[t].spent => y.refresh[t].spent
  /\ x.revoked => y.revoked /\ (y.access => x.access) /\ Len(y.refresh) = Len(x.refresh)
GrantsWither ==
  /\ Len(grants) <= Len(grants') /\ ended \subseteq ended'
  /\ \A g \in DOMAIN grants : WitherRow(grants[g], grants'[g])

\* A save adds one edit to its setting, under the next version, and the edit was not in it.
Saved(k) ==
  \E e \in edits :
    /\ e.key = k /\ e.step = "sent" /\ e.id \notin setting[k].value
    /\ setting'[k].version = setting[k].version + 1
    /\ setting'[k].value = setting[k].value \cup {e.id}
    /\ \A j \in Key \ {k} : setting'[j] = setting[j]
SavesAdd == \A k \in Key : setting'[k] # setting[k] => Saved(k)

\* An edit that is in the value was made on an older version, so that its request, when
\* it is repeated, is refused.
Repeats == \A e \in edits : e.id \in setting[e.key].value => e.expected < setting[e.key].version

\* One grant changes.
LEMMA OneWithers ==
  ASSUME grants \in Seq(GrantRow), NEW g \in Grant, NEW row \in GrantRow,
         grants' = [grants EXCEPT ![g] = row], WitherRow(grants[g], row), ended' = ended
  PROVE  GrantsWither
<1>1. /\ grants' \in Seq(GrantRow) /\ DOMAIN grants' = DOMAIN grants /\ grants'[g] = row
      /\ \A h \in Grant \ {g} : grants'[h] = grants[h]
  BY GrantSet
<1>2. Len(grants') = Len(grants) /\ Len(grants) \in Nat
  BY <1>1
<1>3. ASSUME NEW h \in DOMAIN grants PROVE WitherRow(grants[h], grants'[h])
  <2>1. CASE h = g
    BY <1>1, <2>1
  <2>2. CASE h # g
    <3>1. grants'[h] = grants[h]
      BY <1>1, <2>2 DEF Grant
    <3>2. Len(grants[h].refresh) \in Nat
      BY GrantFacts DEF Grant
    <3> QED BY <3>1, <3>2 DEF WitherRow
  <2> QED BY <2>1, <2>2
<1> QED BY <1>2, <1>3 DEF GrantsWither

\* New tokens come after the old ones, which they leave as they are.
LEMMA IssuedWithers ==
  ASSUME NEW grant \in GrantRow, ~grant.revoked, NEW rotate \in BOOLEAN, grant.code # "fresh"
  PROVE  Issued(grant, rotate) \in GrantRow /\ WitherRow(grant, Issued(grant, rotate))
<1> DEFINE tok == [spent |-> FALSE, expires |-> grant.expires]
<1> DEFINE new == Issued(grant, rotate)
<1>1. grant.refresh \in Seq(TokenRow) /\ tok \in TokenRow
  BY DEF GrantRow, TokenRow
<1>2. /\ new.refresh = IF rotate THEN Append(grant.refresh, tok) ELSE grant.refresh
      /\ new.login = grant.login /\ new.session = grant.session /\ new.revoked = grant.revoked
      /\ new.code = grant.code /\ new.expires = grant.expires /\ new.access = TRUE
      /\ DOMAIN new = DOMAIN grant
  BY DEF Issued, GrantRow
<1> HIDE DEF tok
<1>3. /\ Append(grant.refresh, tok) \in Seq(TokenRow) /\ Len(Append(grant.refresh, tok)) = Len(grant.refresh) + 1
      /\ \A t \in DOMAIN grant.refresh : Append(grant.refresh, tok)[t] = grant.refresh[t]
      /\ Len(grant.refresh) \in Nat
  BY <1>1
<1>4. new \in GrantRow
  <2>1. Issued(grant, rotate) = [grant EXCEPT !.access = TRUE, !.refresh = new.refresh]
    BY <1>2 DEF Issued, tok, GrantRow
  <2>2. new.refresh \in Seq(TokenRow)
    BY <1>1, <1>2, <1>3
  <2> QED BY <2>1, <2>2 DEF GrantRow
<1> HIDE DEF new
<1>5. WitherRow(grant, new)
  BY <1>2, <1>3 DEF WitherRow
<1> QED BY <1>4, <1>5 DEF new

\* Two changes after each other are one.
LEMMA WitherTwice ==
  ASSUME NEW x \in GrantRow, NEW y \in GrantRow, NEW z \in GrantRow, WitherRow(x, y), WitherRow(y, z)
  PROVE  WitherRow(x, z)
<1>1. /\ x.refresh \in Seq(TokenRow) /\ y.refresh \in Seq(TokenRow) /\ z.refresh \in Seq(TokenRow)
  BY DEF GrantRow
<1>2. /\ Len(x.refresh) \in Nat /\ Len(y.refresh) \in Nat /\ Len(z.refresh) \in Nat
      /\ DOMAIN x.refresh = 1..Len(x.refresh) /\ DOMAIN y.refresh = 1..Len(y.refresh)
  BY <1>1
<1> QED BY <1>2 DEF WitherRow

\* A code that is exchanged is spent, and the grant was not revoked.
LEMMA CodeWithers ==
  ASSUME grants \in Seq(GrantRow), NEW g \in Grant, NEW offline \in BOOLEAN, ExchangeCode(g, offline)
  PROVE  GrantsWither
<1> DEFINE row == [grants[g] EXCEPT !.code = "spent"]
<1>1. /\ grants[g] \in GrantRow /\ ~grants[g].revoked
      /\ grants' = [grants EXCEPT ![g] = Issued(row, offline)] /\ ended' = ended
  BY GrantFacts DEF ExchangeCode, ValidGrant
<1>0. grants[g].refresh \in Seq(TokenRow) /\ Len(grants[g].refresh) \in Nat
  BY GrantFacts
<1>2. /\ row \in GrantRow /\ row.code = "spent" /\ row.refresh = grants[g].refresh
      /\ row.login = grants[g].login /\ row.session = grants[g].session
      /\ row.revoked = grants[g].revoked /\ row.access = grants[g].access
  BY <1>1 DEF GrantRow
<1> HIDE DEF row
<1>3. WitherRow(grants[g], row)
  BY <1>0, <1>2 DEF WitherRow
<1>4. Issued(row, offline) \in GrantRow /\ WitherRow(row, Issued(row, offline))
  BY <1>1, <1>2, IssuedWithers
<1>5. WitherRow(grants[g], Issued(row, offline))
  BY <1>1, <1>2, <1>3, <1>4, WitherTwice
<1> QED BY <1>1, <1>4, <1>5, OneWithers

\* A refresh token that is exchanged is spent, and one that was spent before revokes.
LEMMA RefreshWithers ==
  ASSUME grants \in Seq(GrantRow), CredentialInv, NEW g \in Grant,
         NEW t \in DOMAIN grants[g].refresh, ExchangeRefresh(g, t)
  PROVE  GrantsWither
<1>1. /\ grants[g] \in GrantRow /\ ~grants[g].revoked /\ ended' = ended
      /\ grants[g].refresh \in Seq(TokenRow) /\ Len(grants[g].refresh) \in Nat
      /\ \A u \in DOMAIN grants[g].refresh : grants[g].refresh[u] \in TokenRow
      /\ grants[g].code # "fresh"
  BY GrantFacts DEF ExchangeRefresh, ValidGrant, CredentialInv, Single, Grant
<1>2. CASE grants[g].refresh[t].spent
  <2> DEFINE row == [grants[g] EXCEPT !.revoked = TRUE]
  <2>1. /\ row \in GrantRow /\ row.login = grants[g].login /\ row.session = grants[g].session
        /\ row.refresh = grants[g].refresh /\ row.code = grants[g].code
    BY <1>1 DEF GrantRow
  <2>2. grants' = [grants EXCEPT ![g] = row]
    BY <1>2 DEF ExchangeRefresh
  <2> HIDE DEF row
  <2>3. WitherRow(grants[g], row)
    BY <1>1, <2>1 DEF WitherRow
  <2> QED BY <1>1, <2>1, <2>2, <2>3, OneWithers
<1>3. CASE ~grants[g].refresh[t].spent
  <2> DEFINE row == Spend(g, t)
  <2>1. /\ row.login = grants[g].login /\ row.session = grants[g].session
        /\ row.revoked = grants[g].revoked /\ row.code = grants[g].code
        /\ row.refresh = [grants[g].refresh EXCEPT ![t].spent = TRUE]
    BY <1>1 DEF GrantRow, Spend
  <2>2. row.refresh \in Seq(TokenRow)
    <3>1. [grants[g].refresh[t] EXCEPT !.spent = TRUE] \in TokenRow
      BY <1>1 DEF TokenRow
    <3> QED BY <1>1, <2>1, <3>1
  <2>3. row \in GrantRow
    BY <1>1, <2>1, <2>2 DEF GrantRow, Spend
  <2>4. /\ Len(row.refresh) = Len(grants[g].refresh)
        /\ \A u \in DOMAIN grants[g].refresh : grants[g].refresh[u].spent => row.refresh[u].spent
    BY <1>1, <2>1, <2>2 DEF TokenRow
  <2>5. grants' = [grants EXCEPT ![g] = Issued(row, TRUE)]
    BY <1>3 DEF ExchangeRefresh
  <2> HIDE DEF row
  <2>6. WitherRow(grants[g], row)
    BY <1>1, <2>1, <2>4 DEF WitherRow
  <2>7. Issued(row, TRUE) \in GrantRow /\ WitherRow(row, Issued(row, TRUE))
    BY <1>1, <2>1, <2>3, IssuedWithers
  <2>8. WitherRow(grants[g], Issued(row, TRUE))
    BY <1>1, <2>3, <2>6, <2>7, WitherTwice
  <2> QED BY <1>1, <2>5, <2>7, <2>8, OneWithers
<1> QED BY <1>2, <1>3

\* A new date is one for unspent tokens of a grant that was not revoked.
LEMMA ExpiryWithers ==
  ASSUME grants \in Seq(GrantRow), NEW s, NEW g \in Grant, NEW d \in Expiry,
         update_grant_expiry(s, g, d)
  PROVE  GrantsWither
<1> DEFINE row == Prolonged(grants[g], d)
           old == grants[g].refresh
           tokens == [t \in DOMAIN old |->
                        IF old[t].spent THEN old[t] ELSE [old[t] EXCEPT !.expires = d]]
<1>1. /\ grants[g] \in GrantRow /\ ~grants[g].revoked /\ old \in Seq(TokenRow)
      /\ grants' = [grants EXCEPT ![g] = row] /\ ended' = ended
      /\ DOMAIN old = 1..Len(old) /\ Len(old) \in Nat
      /\ \A t \in DOMAIN old : old[t] \in TokenRow
  BY GrantFacts DEF update_grant_expiry
<1>2. /\ row.login = grants[g].login /\ row.session = grants[g].session
      /\ row.revoked = grants[g].revoked /\ row.code = grants[g].code /\ row.refresh = tokens
  BY <1>1 DEF Prolonged, GrantRow
<1>3. tokens \in Seq(TokenRow) /\ Len(tokens) = Len(old)
  <2>1. \A t \in 1..Len(old) : tokens[t] \in TokenRow
    BY <1>1 DEF TokenRow
  <2>2. tokens \in [1..Len(old) -> TokenRow]
    BY <1>1, <2>1
  <2> HIDE DEF tokens
  <2>3. tokens \in Seq(TokenRow)
    <3>1. Len(old) \in Nat
      BY <1>1
    <3> HIDE DEF old
    <3> QED BY <2>2, <3>1
  <2>4. DOMAIN tokens = 1..Len(tokens) /\ Len(tokens) \in Nat /\ DOMAIN tokens = 1..Len(old)
    BY <2>2, <2>3
  <2> QED BY <1>1, <2>3, <2>4
<1>4. row \in GrantRow
  BY <1>1, <1>2, <1>3 DEF Prolonged, GrantRow
<1>5. \A t \in DOMAIN old : old[t].spent => tokens[t].spent
  OBVIOUS
<1> HIDE DEF row, tokens
<1>6. WitherRow(grants[g], row)
  BY <1>1, <1>2, <1>3, <1>5 DEF WitherRow
<1> QED BY <1>1, <1>4, <1>6, OneWithers

\* Whatever happens to one grant.
LEMMA ActionWithers ==
  ASSUME grants \in Seq(GrantRow), CredentialInv, NEW g \in Grant, GrantAction(g)
  PROVE  GrantsWither
<1>1. grants[g] \in GrantRow /\ grants[g].refresh \in Seq(TokenRow) /\ Len(grants[g].refresh) \in Nat
  BY GrantFacts
<1>2. ASSUME NEW row, row \in {[grants[g] EXCEPT !.revoked = TRUE], [grants[g] EXCEPT !.code = "lapsed"],
                               [grants[g] EXCEPT !.access = FALSE]},
             grants' = [grants EXCEPT ![g] = row], ended' = ended
      PROVE  GrantsWither
  <2>1. /\ row \in GrantRow /\ row.login = grants[g].login /\ row.session = grants[g].session
        /\ grants[g].revoked => row.revoked
        /\ row.refresh = grants[g].refresh
        /\ row.code = "fresh" => grants[g].code = "fresh"
        /\ row.access => grants[g].access
    BY <1>1, <1>2 DEF GrantRow
  <2>2. WitherRow(grants[g], row)
    BY <1>1, <2>1 DEF WitherRow
  <2> QED BY <1>2, <2>1, <2>2, OneWithers
<1>3. CASE \E offline \in BOOLEAN : ExchangeCode(g, offline)
  BY <1>3, CodeWithers
<1>4. CASE \E t \in DOMAIN grants[g].refresh : ExchangeRefresh(g, t)
  BY <1>4, RefreshWithers
<1>5. CASE Revoke(g)
  BY <1>2, <1>5 DEF Revoke
<1>6. CASE CodeLapses(g)
  BY <1>2, <1>6 DEF CodeLapses
<1>7. CASE AccessLapses(g)
  BY <1>2, <1>7 DEF AccessLapses
<1>8. CASE \E s \in sessions, d \in Expiry : update_grant_expiry(s, g, d)
  BY <1>8, ExpiryWithers
<1> QED BY <1>3, <1>4, <1>5, <1>6, <1>7, <1>8 DEF GrantAction

\* A step that leaves the grants alone, adds one, or revokes those of a login.
LEMMA OthersWither ==
  ASSUME grants \in Seq(GrantRow), ended \subseteq ended',
         DOMAIN grants \subseteq DOMAIN grants', grants' \in Seq(GrantRow),
         \A g \in DOMAIN grants : \/ grants'[g] = grants[g]
                                  \/ grants'[g] = [grants[g] EXCEPT !.revoked = TRUE]
  PROVE  GrantsWither
<1>1. Len(grants) \in Nat /\ Len(grants') \in Nat /\ Len(grants) <= Len(grants')
  <2>1. /\ DOMAIN grants = 1..Len(grants) /\ DOMAIN grants' = 1..Len(grants')
        /\ Len(grants) \in Nat /\ Len(grants') \in Nat
    OBVIOUS
  <2> QED BY <2>1
<1>2. ASSUME NEW g \in DOMAIN grants PROVE WitherRow(grants[g], grants'[g])
  <2>1. /\ grants[g] \in GrantRow /\ grants[g].refresh \in Seq(TokenRow)
        /\ Len(grants[g].refresh) \in Nat
    BY GrantFacts DEF Grant
  <2> DEFINE row == [grants[g] EXCEPT !.revoked = TRUE]
  <2>2. /\ row.login = grants[g].login /\ row.session = grants[g].session /\ row.revoked
        /\ row.code = grants[g].code /\ row.access = grants[g].access /\ row.refresh = grants[g].refresh
    BY <2>1 DEF GrantRow
  <2> HIDE DEF row
  <2>3. grants'[g] = grants[g] \/ grants'[g] = row
    BY DEF row
  <2> QED BY <2>1, <2>2, <2>3 DEF WitherRow
<1> QED BY <1>1, <1>2 DEF GrantsWither

\* Every step of the authorization server.
LEMMA OAuthWithers ==
  ASSUME AuthTypeOK, OAuthTypeOK, OAuthTypeOK', CredentialInv, OAuthStep \/ OAuthEvent
  PROVE  GrantsWither
<1>0. grants \in Seq(GrantRow) /\ grants' \in Seq(GrantRow)
  BY DEF OAuthTypeOK, GrantRow, TokenRow
<1>1. ASSUME UNCHANGED <<grants, ended>> PROVE GrantsWither
  BY <1>0, <1>1, OthersWither
<1>2. ASSUME NEW c \in consents, NEW approved \in BOOLEAN, NEW d \in Date, Decide(c, approved, d)
      PROVE  GrantsWither
  <2> DEFINE new == NewGrant(c.session, d)
  <2>1. (grants' = Append(grants, new) \/ grants' = grants) /\ ended' = ended
    BY <1>2 DEF Decide
  <2> HIDE DEF new
  <2>2. DOMAIN grants \subseteq DOMAIN grants' /\ \A g \in DOMAIN grants : grants'[g] = grants[g]
    BY <1>0, <2>1
  <2> QED BY <1>0, <2>1, <2>2, OthersWither
<1>3. ASSUME LogoutGrants PROVE GrantsWither
  <2>1. /\ ended \subseteq ended' /\ DOMAIN grants' = DOMAIN grants
        /\ \A g \in DOMAIN grants : \/ grants'[g] = grants[g]
                                    \/ grants'[g] = [grants[g] EXCEPT !.revoked = TRUE]
    BY <1>3 DEF LogoutGrants
  <2> QED BY <1>0, <2>1, OthersWither
<1>4. ASSUME NEW g \in Grant, GrantAction(g) PROVE GrantsWither
  BY <1>0, <1>4, ActionWithers
<1>5. ASSUME OAuthStep PROVE GrantsWither
  <2>1. (\E g \in Grant : \/ \E offline \in BOOLEAN : ExchangeCode(g, offline)
                          \/ \E t \in DOMAIN grants[g].refresh : ExchangeRefresh(g, t)) => GrantsWither
    BY <1>4 DEF GrantAction
  <2>2. (\E r \in Request : begin_authorization(r) \/ \E s \in sessions : Consent(s, r))
          => UNCHANGED <<grants, ended>>
    BY DEF begin_authorization, Consent
  <2>4. (\E s \in sessions : list_grants(s)) => UNCHANGED <<grants, ended>>
    BY DEF list_grants
  <2>3. (\E c \in consents : \/ ConsentFails(c)
                             \/ \E approved \in BOOLEAN, d \in Date : Decide(c, approved, d)) => GrantsWither
    BY <1>1, <1>2 DEF ConsentFails
  <2> QED BY <1>1, <1>3, <1>5, <2>1, <2>2, <2>3, <2>4 DEF OAuthStep
<1>6. ASSUME OAuthEvent PROVE GrantsWither
  <2>1. (\E g \in Grant : \/ Revoke(g) \/ CodeLapses(g) \/ AccessLapses(g)
                          \/ \E s \in sessions, d \in Expiry : update_grant_expiry(s, g, d)) => GrantsWither
    BY <1>4 DEF GrantAction
  <2>2. (\E r \in Request : RequestExpires(r)) \/ (\E l \in Login : LogoutSessions(l)) \/ LogoutFails \/ Tick
          => UNCHANGED <<grants, ended>>
    BY DEF RequestExpires, LogoutSessions, LogoutFails, Tick
  <2> QED BY <1>1, <1>6, <2>1, <2>2 DEF OAuthEvent
<1> QED BY <1>5, <1>6

\* An edit that begins is in no value yet; a save makes what is in it older.
LEMMA RepeatsStep ==
  ASSUME SettingTypeOK, SettingInv, Repeats, SettingStep \/ SettingEvent
  PROVE  Repeats'
<1>0. /\ begun \in 0..MaxEdits /\ MaxEdits \in Nat
      /\ \A k \in Key : setting[k].version \in Nat /\ setting[k].value \subseteq 1..begun
  <2>1. ASSUME NEW k \in Key PROVE setting[k].version \in Nat /\ setting[k].value \subseteq 1..begun
    <3>1. setting[k].value = {w[2] : w \in {w \in won : w[1] = k}}
      BY DEF SettingInv, SavesAreWhole
    <3> QED BY <3>1 DEF SettingTypeOK
  <2> QED BY <2>1, SettingConstants DEF SettingTypeOK, SettingConstants
<1>1. ASSUME NEW e \in edits, Submit(e) \/ Abandon(e) PROVE Repeats'
  <2> DEFINE f == [e EXCEPT !.step = "sent"]
  <2>1. setting' = setting /\ edits' \subseteq edits \cup {f}
    BY <1>1 DEF Submit, Abandon
  <2>2. f.id = e.id /\ f.key = e.key /\ f.expected = e.expected
    BY DEF SettingInv, EditRow
  <2> HIDE DEF f
  <2> QED BY <2>1, <2>2 DEF Repeats
<1>2. ASSUME NEW k \in Key, NEW by, Load(k, by) PROVE Repeats'
  <2> DEFINE f == [id |-> begun', key |-> k, by |-> by, step |-> "read",
                   expected |-> setting[k].version, value |-> setting[k].value \cup {begun'}]
  <2>1. setting' = setting /\ edits' = edits \cup {f} /\ begun' = begun + 1
    BY <1>2 DEF Load, get_setting
  <2>2. f.id = begun + 1 /\ f.key = k
    BY <2>1
  <2> HIDE DEF f
  <2>3. f.id \notin setting[f.key].value
    BY <1>0, <2>2
  <2> QED BY <2>1, <2>3 DEF Repeats
<1>3. ASSUME NEW e \in edits, Save(e) PROVE Repeats'
  <2>1. CASE ~Current(e)
    BY <1>3, <2>1 DEF Save, Repeats
  <2>2. CASE Current(e)
    <3>1. /\ e.key \in Key /\ edits' \subseteq edits
          /\ setting' = [setting EXCEPT ![e.key] = [version |-> setting[e.key].version + 1, value |-> e.value]]
      BY <1>3, <2>2 DEF Save, SettingTypeOK
    <3>2. /\ setting'[e.key].version = setting[e.key].version + 1
          /\ \A k \in Key \ {e.key} : setting'[k] = setting[k]
      BY <3>1 DEF SettingTypeOK
    <3> SUFFICES ASSUME NEW f \in edits', f.id \in setting'[f.key].value
                 PROVE  f.expected < setting'[f.key].version
      BY DEF Repeats
    <3>3. f \in edits /\ f.key \in Key /\ f.expected \in 0..setting[f.key].version
      BY <3>1 DEF SettingTypeOK
    <3>4. CASE f.key = e.key
      BY <1>0, <3>1, <3>2, <3>3, <3>4
    <3>5. CASE f.key # e.key
      BY <3>2, <3>3, <3>5 DEF Repeats
    <3> QED BY <3>4, <3>5
  <2> QED BY <2>1, <2>2
<1> QED BY <1>1, <1>2, <1>3, AccessConstants
        DEF SettingStep, SettingEvent, update_setting, set_discovery_enabled, read_settings,
            get_discovery_control, AccessConstants

\* Only a save changes a setting, and it adds its edit.
LEMMA SavesAddStep ==
  ASSUME SettingTypeOK, SettingInv, Repeats, SettingStep \/ SettingEvent
  PROVE  SavesAdd
<1>1. ASSUME UNCHANGED setting PROVE SavesAdd
  BY <1>1 DEF SavesAdd
<1>2. ASSUME NEW e \in edits, Save(e) PROVE SavesAdd
  <2>1. CASE ~Current(e)
    BY <1>1, <1>2, <2>1 DEF Save
  <2>2. CASE Current(e)
    <3>1. /\ e.key \in Key /\ e.step = "sent" /\ e.expected = setting[e.key].version
          /\ e.value = setting[e.key].value \cup {e.id} /\ setting[e.key].version \in Nat
          /\ setting' = [setting EXCEPT ![e.key] = [version |-> setting[e.key].version + 1, value |-> e.value]]
      BY <1>2, <2>2 DEF Save, SettingTypeOK, SettingInv, Current
    <3>2. /\ setting'[e.key].version = setting[e.key].version + 1 /\ setting'[e.key].value = e.value
          /\ \A k \in Key \ {e.key} : setting'[k] = setting[k]
      BY <3>1 DEF SettingTypeOK
    <3>3. e.id \notin setting[e.key].value
      BY <3>1 DEF Repeats
    <3>4. Saved(e.key)
      BY <3>1, <3>2, <3>3 DEF Saved
    <3> QED BY <3>2, <3>4 DEF SavesAdd
  <2> QED BY <2>1, <2>2
<1>3. (\E e \in edits : Submit(e) \/ Abandon(e)) \/ (\E k, by : Load(k, by)) => UNCHANGED setting
  BY DEF Submit, Abandon, Load
<1> QED BY <1>1, <1>2, <1>3
        DEF SettingStep, SettingEvent, update_setting, set_discovery_enabled, read_settings, get_discovery_control

-----------------------------------------------------------------------------
(* Theorems.                                                                 *)

\* The invariant of the whole.
THEOREM AccessInvariant == Spec => []AccessInv
<1> QED BY AccessInit, AccessNext, PTL DEF Spec

\* Types of the rows of manage_login_state, of sessions, requests, grants, settings and
\* of the edits under way.
THEOREM AccessTyped == Spec => []TypeOK
<1>1. AccessInv => TypeOK
  BY DEF AccessInv
<1> QED BY <1>1, AccessInvariant, PTL

\* However many codes the owner asks for, from whatever logins: at most MaxTries wrong
\* ones are looked at before a success or the end of a lock, and a code opens one session.
THEOREM GuessesAreLimited == Spec => []GuessesLimited
<1>1. AccessInv => GuessesLimited
  BY ManageConstants DEF AccessInv, TypeOK, AuthTypeOK, LoginState, GuessInv, GuessesLimited, ManageConstants
<1> QED BY <1>1, AccessInvariant, PTL

\* A grant never has two credentials, and its token never outlives it.
THEOREM OneCredentialOnly == Spec => []OneCredential
<1>1. AccessInv => OneCredential
  <2> SUFFICES ASSUME AccessInv, NEW g \in DOMAIN grants
               PROVE  /\ Cardinality(Unspent(g)) + (IF grants[g].code = "fresh" THEN 1 ELSE 0) <= 1
                      /\ \A t \in Unspent(g) : grants[g].refresh[t].expires = grants[g].expires
    BY DEF OneCredential
  <2>1. Single(grants[g])
    BY DEF AccessInv, CredentialInv
  <2>2. CASE Unspent(g) = {}
    BY <2>1, <2>2, FS_EmptySet DEF Single
  <2>3. CASE Unspent(g) # {}
    <3>1. PICK t \in Unspent(g) : TRUE
      BY <2>3
    <3>2. Unspent(g) = {t}
      BY <2>1, <3>1 DEF Single, Unspent
    <3>3. grants[g].code # "fresh"
      BY <2>1, <3>1 DEF Single, Unspent
    <3>4. Cardinality(Unspent(g)) = 1
      BY <3>2, FS_Singleton
    <3>5. \A u \in Unspent(g) : grants[g].refresh[u].expires = grants[g].expires
      BY <2>1 DEF Single, Unspent
    <3> QED BY <3>3, <3>4, <3>5
  <2> QED BY <2>2, <2>3
<1> QED BY <1>1, AccessInvariant, PTL

\* A grant whose session was ended by a logout is revoked, whatever was under way.
THEOREM LogoutEndsAllGrants == Spec => []LogoutEndsGrants
<1>1. AccessInv => LogoutEndsGrants
  BY DEF AccessInv, LogoutInv
<1> QED BY <1>1, AccessInvariant, PTL

\* No save of a setting is lost or made twice, and the seeds go with the profiles.
THEOREM NoSaveLost == Spec => []SavesAreWhole
<1>1. AccessInv => SavesAreWhole
  BY DEF AccessInv, SettingInv
<1> QED BY <1>1, AccessInvariant, PTL

\* What was used, spent or revoked of a grant stays so, a revoked grant gets no token, no
\* grant moves to another login or session, and what a logout ended stays ended.
THEOREM GrantsOnlyWither == Spec => [][GrantsWither]_vars
<1>1. AccessInv /\ AccessInv' /\ [Next]_vars => [GrantsWither]_vars
  <2> SUFFICES ASSUME AccessInv, AccessInv', Next PROVE GrantsWither
    OBVIOUS
  <2>1. AuthTypeOK /\ OAuthTypeOK /\ OAuthTypeOK' /\ CredentialInv
    BY DEF AccessInv, TypeOK
  <2>2. CASE OAuthStep \/ OAuthEvent
    BY <2>1, <2>2, OAuthWithers
  <2>3. CASE UNCHANGED <<grants, ended>>
    <3>1. grants \in Seq(GrantRow) /\ grants' \in Seq(GrantRow)
      BY <2>1 DEF OAuthTypeOK, GrantRow, TokenRow
    <3> QED BY <2>3, <3>1, OthersWither
  <2> QED BY <2>2, <2>3 DEF Next, oauthVars
<1> QED BY <1>1, AccessInvariant, PTL DEF Spec

\* A setting changes by saves only, each of which adds one edit that was not in it,
\* under the next version: an answer that was lost and a request repeated, by the API or
\* by the tools, never save twice and never take an edit out.
THEOREM EverySaveAddsItsEdit == Spec => [][SavesAdd]_vars
<1>1. Init => Repeats
  BY DEF Init, Init_settings, Repeats
<1>2. AccessInv /\ Repeats /\ [Next]_vars => Repeats'
  <2> SUFFICES ASSUME AccessInv, Repeats, [Next]_vars PROVE Repeats'
    OBVIOUS
  <2>1. SettingTypeOK /\ SettingInv
    BY DEF AccessInv, TypeOK
  <2>2. CASE SettingStep \/ SettingEvent
    BY <2>1, <2>2, RepeatsStep
  <2>3. CASE UNCHANGED settingVars
    BY <2>3 DEF settingVars, Repeats
  <2> QED BY <2>2, <2>3 DEF Next, vars
<1>3. AccessInv /\ Repeats /\ [Next]_vars => [SavesAdd]_vars
  <2> SUFFICES ASSUME AccessInv, Repeats, Next PROVE SavesAdd
    OBVIOUS
  <2>1. SettingTypeOK /\ SettingInv
    BY DEF AccessInv, TypeOK
  <2>2. CASE SettingStep \/ SettingEvent
    BY <2>1, <2>2, SavesAddStep
  <2>3. CASE UNCHANGED settingVars
    BY <2>3 DEF settingVars, SavesAdd
  <2> QED BY <2>2, <2>3 DEF Next
<1> QED BY <1>1, <1>2, <1>3, AccessInvariant, PTL DEF Spec
=============================================================================
