---------------------------- MODULE SettingsPage ----------------------------
(***************************************************************************)
(* The settings page of the web client.  The page loads the realm's        *)
(* configuration after it got a token, and again whenever the token is     *)
(* refreshed; loads may overlap each other and a save, and share one       *)
(* `loading` flag.  A save sends all sections of the form.  A request is   *)
(* read by the server at one moment and answered at a later one; others    *)
(* change the realm meanwhile.                                             *)
(***************************************************************************)
EXTENDS Integers, Sequences

CONSTANTS
  Loads,        \* loads, in this order: bounds token refreshes
  Sections,     \* of the configuration: login, smtpServer, sessions, tokens
  MaxSaves,     \* bound on changes of the realm
  MaxToggles    \* bound on required action and identity provider requests

ASSUME SettingsAssumption == MaxSaves \in Nat /\ MaxToggles \in Nat /\ Loads \subseteq Nat

VARIABLES
  realm,     \* the realm's configurations so far, the last one is current
  form,      \* kcConfig
  touched,   \* sections edited since the form was last filled
  isAdmin,
  loading,
  listed,    \* required actions and identity providers are shown
  load,      \* where each load stands
  save,      \* where the save stands
  toggle,    \* a required action or provider request is in flight
  toggles,   \* number of these so far
  failed     \* a request of a load failed (not stored)

settingsVars ==
  <<realm, form, touched, isAdmin, loading, listed, load, save, toggle, toggles, failed>>

Defaults == [s \in Sections |-> 0]
Stored == [s \in Sections |-> 1]
Current == realm[Len(realm)]
NoLoad == [at |-> "none"]
LoadOver == [at |-> "over"]
NoSave == [at |-> "none"]

SettingsInit ==
  /\ realm = <<Stored>>
  /\ form = Defaults
  /\ touched = {}
  /\ isAdmin = FALSE /\ loading = FALSE
  /\ listed = FALSE /\ toggle = FALSE /\ toggles = 0 /\ failed = FALSE
  /\ load = [n \in Loads |-> NoLoad]
  /\ save = NoSave

LoadGoes(n, l) == load' = [load EXCEPT ![n] = l]
toggleVars == <<toggle, toggles>>

-----------------------------------------------------------------------------
\* A token arrives or is refreshed: the effect asks /auth/me.
LoadStarts(n) ==
  /\ load[n] = NoLoad
  /\ \A k \in Loads : k < n => load[k] # NoLoad
  /\ LoadGoes(n, [at |-> "me"])
  /\ UNCHANGED <<realm, form, touched, isAdmin, loading, listed, save, toggleVars, failed>>

\* The administrator's fetchAllData begins.
MeAnswers(n) ==
  /\ load[n].at = "me"
  /\ isAdmin' = TRUE
  /\ loading' = TRUE
  /\ LoadGoes(n, [at |-> "ask"])
  /\ UNCHANGED <<realm, form, touched, listed, save, toggleVars, failed>>

\* fetchAllData(false) has nothing to ask but the tenant.
MeFails(n) ==
  /\ load[n].at = "me"
  /\ failed' = TRUE
  /\ loading' = TRUE
  /\ LoadGoes(n, [at |-> "rest"])
  /\ UNCHANGED <<realm, form, touched, isAdmin, listed, save, toggleVars>>

\* getKeycloakConfig
ConfigRead(n) ==
  /\ load[n].at = "ask"
  /\ LoadGoes(n, [at |-> "reply", config |-> Current])
  /\ UNCHANGED <<realm, form, touched, isAdmin, loading, listed, save, toggleVars, failed>>

ConfigArrives(n) ==
  /\ load[n].at = "reply"
  /\ form' = load[n].config
  /\ touched' = {}
  /\ LoadGoes(n, [at |-> "lists"])
  /\ UNCHANGED <<realm, isAdmin, loading, listed, save, toggleVars, failed>>

\* The failure is ignored and the form stays.
ConfigFails(n) ==
  /\ load[n].at \in {"ask", "reply"}
  /\ failed' = TRUE
  /\ LoadGoes(n, [at |-> "lists"])
  /\ UNCHANGED <<realm, form, touched, isAdmin, loading, listed, save, toggleVars>>

\* Required actions and identity providers; when they fail the old ones stay.
ListsArrive(n) ==
  /\ load[n].at = "lists"
  /\ listed' \in {listed, TRUE}
  /\ LoadGoes(n, [at |-> "rest"])
  /\ UNCHANGED <<realm, form, touched, isAdmin, loading, save, toggleVars, failed>>

\* setLoading(false), whatever else the page is loading
LoadEnds(n) ==
  /\ load[n].at = "rest"
  /\ loading' = FALSE
  /\ LoadGoes(n, LoadOver)
  /\ UNCHANGED <<realm, form, touched, isAdmin, listed, save, toggleVars, failed>>

-----------------------------------------------------------------------------
\* An input of the identity settings, which are shown to administrators.
Edit(s, v) ==
  /\ isAdmin
  /\ form[s] # v
  /\ form' = [form EXCEPT ![s] = v]
  /\ touched' = touched \cup {s}
  /\ UNCHANGED <<realm, isAdmin, loading, listed, load, save, toggleVars, failed>>

\* Another administrator's save.
RealmChanges(s, v) ==
  /\ Len(realm) <= MaxSaves
  /\ realm' = Append(realm, [Current EXCEPT ![s] = v])
  /\ UNCHANGED <<form, touched, isAdmin, loading, listed, load, save, toggleVars, failed>>

\* A button that is not disabled.
CanSaveAlways == isAdmin /\ save = NoSave

\* The button is disabled while the page is loading.  One save at a time: a
\* second one is possible once another request has cleared the flag.
CanSave == isAdmin /\ ~loading /\ save = NoSave

SaveStarts ==
  /\ CanSave
  /\ loading' = TRUE
  /\ save' = [at |-> "sent", config |-> form, touched |-> touched]
  /\ UNCHANGED <<realm, form, touched, isAdmin, listed, load, toggleVars, failed>>

\* updateKeycloakConfig
SaveLands ==
  /\ save.at = "sent"
  /\ Len(realm) <= MaxSaves
  /\ realm' = Append(realm, save.config)
  /\ save' = [at |-> "end"]
  /\ UNCHANGED <<form, touched, isAdmin, loading, listed, load, toggleVars, failed>>

SaveFails ==
  /\ save.at = "sent"
  /\ save' = [at |-> "end"]
  /\ UNCHANGED <<realm, form, touched, isAdmin, loading, listed, load, toggleVars, failed>>

SaveEnds ==
  /\ save.at = "end"
  /\ save' = NoSave
  /\ loading' = FALSE
  /\ UNCHANGED <<realm, form, touched, isAdmin, listed, load, toggleVars, failed>>

\* A checkbox of a required action, or the deletion of a provider; neither is
\* disabled while the page is loading.
ToggleStarts ==
  /\ listed /\ ~toggle
  /\ toggles < MaxToggles
  /\ toggle' = TRUE /\ toggles' = toggles + 1
  /\ loading' = TRUE
  /\ UNCHANGED <<realm, form, touched, isAdmin, listed, load, save, failed>>

ToggleEnds ==
  /\ toggle
  /\ toggle' = FALSE
  /\ loading' = FALSE
  /\ UNCHANGED <<realm, form, touched, isAdmin, listed, load, save, toggles, failed>>

-----------------------------------------------------------------------------
LoadRuns(n) ==
  \/ MeAnswers(n) \/ MeFails(n) \/ ConfigRead(n) \/ ConfigArrives(n)
  \/ ConfigFails(n) \/ ListsArrive(n) \/ LoadEnds(n)

SaveRuns == SaveLands \/ SaveFails \/ SaveEnds

SettingsNext ==
  \/ \E n \in Loads : LoadStarts(n) \/ LoadRuns(n)
  \/ \E s \in Sections : Edit(s, 2) \/ RealmChanges(s, 3)
  \/ SaveStarts \/ SaveRuns \/ ToggleStarts \/ ToggleEnds

\* Requests are answered or fail.
SettingsFairness ==
  /\ \A n \in Loads : WF_settingsVars(LoadRuns(n))
  /\ WF_settingsVars(SaveRuns) /\ WF_settingsVars(ToggleEnds)

SettingsSpec == SettingsInit /\ [][SettingsNext]_settingsVars /\ SettingsFairness

-----------------------------------------------------------------------------
\* fetchAllData, handleSaveConfig and the disabled button: however loads, saves and
\* the other requests that clear `loading` overlap, a page none of whose load
\* requests failed sends a configuration that the realm had as a whole, but for the
\* sections its administrator edited; never the form's defaults, nor sections of
\* two answers.
SaveIsWhatWasLoaded ==
  ~failed /\ save.at = "sent" =>
    \E i \in DOMAIN realm : \A s \in Sections \ save.touched :
      save.config[s] = realm[i][s]

\* handleSaveConfig and fetchAllData: the button does not stay disabled.
SaveComesBack == loading ~> ~loading
=============================================================================
