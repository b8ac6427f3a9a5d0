---------------------------- MODULE ReviewAccess ----------------------------
(***************************************************************************)
(* Who changes settings: administrators, with the key of the API, and the  *)
(* review tools (services/admin_review_mcp.py), whose every request shows  *)
(* an access token of ReviewOAuth.  The token is looked at when a request  *)
(* comes in and not again before its change is saved.                      *)
(***************************************************************************)
EXTENDS ReviewOAuth, Settings

CONSTANTS
  Admin,         \* administrators
  Switch,        \* discovery.control, which the tools may set
  MaxEvents      \* bound: edits, faults, expirations and revocations

ASSUME AccessConstants == Switch \in Key /\ MaxEvents \in Nat

VARIABLE events

vars == <<authVars, oauthVars, settingVars, events>>

Init == Init_auth /\ Init_oauth /\ Init_settings /\ events = 0

Grant == DOMAIN grants

\* What the tools ask of a request that shows a token.  Holders of a fixed key are
\* among the administrators.
Authenticated(g) == g \in Grant /\ validate_access_token(g)

read_settings(k, a) == Load(k, a)
update_setting(e) == e.by \in Admin /\ Submit(e)

\* The tools show the version with the switch, and ask for it to set the switch.
get_discovery_control(g) == Authenticated(g) /\ Load(Switch, g)
set_discovery_enabled(e) == Authenticated(e.by) /\ Submit(e)

AuthStep ==
  \/ \E l \in Login : Issue(l) \/ VerifyRight(l) \/ VerifyWrong(l)
  \/ Delivered \/ MinutePasses

OAuthStep ==
  \/ \E r \in Request : begin_authorization(r) \/ \E s \in sessions : Consent(s, r)
  \/ \E s \in sessions : list_grants(s)
  \/ \E c \in consents : \/ ConsentFails(c)
                         \/ \E approved \in BOOLEAN, d \in Date : Decide(c, approved, d)
  \/ \E g \in Grant : \/ \E offline \in BOOLEAN : ExchangeCode(g, offline)
                      \/ \E t \in DOMAIN grants[g].refresh : ExchangeRefresh(g, t)
  \/ LogoutGrants

SettingStep == \E e \in edits : update_setting(e) \/ set_discovery_enabled(e) \/ Save(e)

\* What begins an edit, and what time, faults and the owner do, is bounded together.
SettingEvent ==
  \/ \E k \in Key, a \in Admin : read_settings(k, a)
  \/ \E g \in Grant : get_discovery_control(g)
  \/ \E e \in edits : Abandon(e)
AuthEvent ==
  \/ \E l \in Login : LoginEnds(l)
  \/ CodeExpires \/ LockExpires \/ \E s \in sessions : SessionExpires(s)
OAuthEvent ==
  \/ \E r \in Request : RequestExpires(r)
  \/ \E l \in Login : LogoutSessions(l)
  \/ LogoutFails \/ Tick
  \/ \E g \in Grant : \/ Revoke(g) \/ CodeLapses(g) \/ AccessLapses(g)
                      \/ \E s \in sessions, d \in Expiry : update_grant_expiry(s, g, d)

Next ==
  \/ AuthStep /\ UNCHANGED <<oauthVars, settingVars, events>>
  \/ OAuthStep /\ UNCHANGED <<settingVars, events>>
  \/ SettingStep /\ UNCHANGED <<authVars, oauthVars, events>>
  \/ /\ events < MaxEvents /\ events' = events + 1
     /\ \/ AuthEvent /\ UNCHANGED <<oauthVars, settingVars>>
        \/ OAuthEvent /\ UNCHANGED settingVars
        \/ SettingEvent /\ UNCHANGED <<authVars, oauthVars>>

Spec == Init /\ [][Next]_vars

TypeOK == AuthTypeOK /\ OAuthTypeOK /\ SettingTypeOK /\ events \in 0..MaxEvents
=============================================================================
