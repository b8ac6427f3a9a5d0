------------------------------ MODULE Settings ------------------------------
(***************************************************************************)
(* The versioned settings of the application (services/settings.py and the *)
(* function save_app_setting): read with a version, edited, prepared, and  *)
(* saved if the version is still the stored one, with the seeds of the     *)
(* discovery profiles in the same transaction.                             *)
(*                                                                         *)
(* A value is the set of the edits it holds: an edit adds itself to the    *)
(* value it was made on, so that a lost update shows.                      *)
(***************************************************************************)
EXTENDS Naturals

CONSTANTS
  Key,         \* the settings
  SeedKey,     \* discovery.profiles, whose edits bring seeds
  Stored,      \* the keys that have a row; the others read as a default
  MaxEdits     \* bound: edits begun

ASSUME SettingConstants == SeedKey \in Key /\ MaxEdits \in Nat

VARIABLES
  setting,     \* the rows; version 0 is an absent one
  edits,       \* edits in the hands of clients and of the API
  begun,       \* edits begun
  frontier,    \* edits whose seeds are in the frontier
  won          \* ghost: the edits whose save took place

settingVars == <<setting, edits, begun, frontier, won>>

Init_settings ==
  /\ setting = [k \in Key |-> [version |-> IF k \in Stored THEN 1 ELSE 0, value |-> {}]]
  /\ edits = {} /\ begun = 0 /\ frontier = {} /\ won = {}

\* get_setting: an absent row is the default, as version 0.
get_setting(k) == setting[k]

Load(k, by) ==
  /\ begun < MaxEdits
  /\ begun' = begun + 1
  /\ edits' = edits \cup {[id |-> begun', key |-> k, by |-> by, step |-> "read",
                           expected |-> get_setting(k).version, value |-> get_setting(k).value \cup {begun'}]}
  /\ UNCHANGED <<setting, frontier, won>>

\* The request arrives; the value is validated, and its seeds are resolved, while
\* others save.
Submit(e) ==
  /\ e.step = "read"
  /\ edits' = (edits \ {e}) \cup {[e EXCEPT !.step = "sent"]}
  /\ UNCHANGED <<setting, begun, frontier, won>>

\* A seed that does not resolve in time, or a client that gives up.
Abandon(e) ==
  /\ edits' = edits \ {e}
  /\ UNCHANGED <<setting, begun, frontier, won>>

\* Faulty variant: the insert for version 0 replaces a row that came to be meanwhile.
CurrentOrAbsent(e) == e.expected \in {0, setting[e.key].version}

\* save_app_setting: an insert for version 0, an update of the version expected.
Current(e) == setting[e.key].version = e.expected

\* The answer may be lost, and the client then repeats the request.
Save(e) ==
  /\ e.step = "sent"
  /\ edits' \in {edits, edits \ {e}}
  /\ IF Current(e)
     THEN /\ setting' = [setting EXCEPT ![e.key] = [version |-> @.version + 1, value |-> e.value]]
          /\ frontier' = IF e.key = SeedKey THEN frontier \cup {e.id} ELSE frontier
          /\ won' = won \cup {<<e.key, e.id>>}
     ELSE UNCHANGED <<setting, frontier, won>>
  /\ UNCHANGED begun

SettingTypeOK ==
  /\ setting \in [Key -> [version : Nat, value : SUBSET (1..MaxEdits)]]
  /\ begun \in 0..MaxEdits
  /\ \A e \in edits : e.id \in 1..begun /\ e.key \in Key /\ e.step \in {"read", "sent"}
                     /\ e.expected \in 0..setting[e.key].version /\ e.value \subseteq 1..begun
  /\ frontier \subseteq 1..begun
  /\ won \subseteq Key \X (1..begun)

\* No save is lost: whatever was read, resolved and repeated in which order, the value
\* of a setting holds every edit that was ever saved and no other, and exactly the
\* seeds of the saved profiles were queued.
SavesAreWhole ==
  /\ \A k \in Key : setting[k].value = {w[2] : w \in {w \in won : w[1] = k}}
  /\ frontier = setting[SeedKey].value
=============================================================================
