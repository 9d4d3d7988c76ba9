----------------------------- MODULE SettingsEdits -----------------------------
(***************************************************************************)
(* What the settings panel does with what the user types                   *)
(* (settings-panel.tsx): the settings of Core, edited in dirtyMap and      *)
(* saved key by key, and the settings of one plugin, which are read again  *)
(* after every render of their section: the effect depends on an array     *)
(* that getFillings makes anew (settings-panel.tsx:73).                    *)
(*                                                                         *)
(* A call to Core is answered or fails, and the answers to different calls *)
(* come in any order.                                                      *)
(***************************************************************************)
EXTENDS Naturals, FiniteSets

CONSTANTS
  Keys,       \* settings of Core
  Values, Default, None,
  MaxEdits,   \* bound: edits of the user
  MaxLoads,   \* bound: reads of the plugin's settings in flight
  MaxFetches  \* bound: the panel is opened, or Core connected again

VARIABLES
  stored,     \* what Core stores
  configs,    \* coreConfigs
  dirty,      \* dirtyMap: the edited value, or None
  fetch,      \* config.list in flight: its step and the values it read
  save,       \* handleSaveAll: the edits it has still to send, and those it has saved
  reset,      \* handleReset in flight for a key, or None
  edits, fetches,
  edited,     \* the last edit of a key (history)
  exempt,     \* keys edited while they were saved, or reset, or before a list came (history)
  pStored, pShown,  \* the plugin's setting in Core, and in the page
  loads,      \* its reads in flight: "idle", "sent" or the value
  pSave,      \* handleSave in flight: "none", the value, "written" or "stuck"
  pDirty,     \* dirtyKeys has it
  pTyped,     \* what was typed last, or None
  overwritten \* a read was answered before it was saved, or it was typed during a save (history)

coreVars == <<stored, configs, dirty, fetch, save, reset, edited, exempt>>
pluginVars == <<pStored, pShown, loads, pSave, pDirty, pTyped, overwritten>>
settingsVars == <<coreVars, pluginVars, edits, fetches>>

Clean == [k \in Keys |-> None]
NoFetch == [step |-> "none", values |-> Clean]
NoSave == [on |-> FALSE, todo |-> Clean, saved |-> Clean]

\* A section of plugin settings that has just been rendered reads them.
Mounted == [n \in 1..MaxLoads |-> IF n = 1 THEN "sent" ELSE "idle"]

SettingsInit ==
  /\ stored = [k \in Keys |-> Default] /\ configs = stored /\ dirty = Clean
  /\ fetch = NoFetch /\ save = NoSave /\ reset = None
  /\ edits = 0 /\ fetches = 0 /\ edited = Clean /\ exempt = {}
  /\ pStored = Default /\ pShown = Default /\ loads = Mounted
  /\ pSave = "none" /\ pDirty = FALSE /\ pTyped = None /\ overwritten = FALSE

-----------------------------------------------------------------------------
(* The settings of Core *)

\* handleChange.
Edit(k, v) ==
  /\ edits < MaxEdits /\ edits' = edits + 1
  /\ dirty' = [dirty EXCEPT ![k] = v] /\ edited' = [edited EXCEPT ![k] = v]
  /\ exempt' = IF save.todo[k] # None \/ save.saved[k] # None \/ reset = k
               THEN exempt \cup {k} ELSE exempt \ {k}
  /\ UNCHANGED <<stored, configs, fetch, save, reset, fetches, pluginVars>>

\* The panel is opened, or Core connects again while it is open.  The section
\* of the plugin is rendered anew; the panel itself was there all the time.
Opens ==
  /\ fetches < MaxFetches /\ fetch = NoFetch
  /\ fetches' = fetches + 1 /\ fetch' = [NoFetch EXCEPT !.step = "sent"]
  /\ pShown' = Default /\ loads' = Mounted /\ pSave' = "none" /\ pDirty' = FALSE /\ pTyped' = None
  /\ overwritten' = FALSE
  /\ UNCHANGED <<stored, configs, dirty, save, reset, edits, edited, exempt, pStored>>

CoreLists ==
  /\ fetch.step = "sent" /\ fetch' = [step |-> "read", values |-> stored]
  /\ UNCHANGED <<stored, configs, dirty, save, reset, edits, fetches, edited, exempt, pluginVars>>

\* fetchConfigs: a list that comes clears the edits.
Listed(ok) ==
  /\ fetch.step = "read" /\ fetch' = NoFetch
  /\ IF ok THEN /\ configs' = fetch.values /\ dirty' = Clean
               /\ exempt' = exempt \cup {k \in Keys : dirty[k] # None}
     ELSE UNCHANGED <<configs, dirty, exempt>>
  /\ UNCHANGED <<stored, save, reset, edits, fetches, edited, pluginVars>>

\* handleSaveAll: the button is disabled while it saves.
SaveAll ==
  /\ ~save.on /\ dirty # Clean /\ save' = [on |-> TRUE, todo |-> dirty, saved |-> Clean]
  /\ UNCHANGED <<stored, configs, dirty, fetch, reset, edits, fetches, edited, exempt, pluginVars>>

\* config.set of one key is carried out, or it fails.
SaveKey(k, ok) ==
  /\ save.todo[k] # None
  /\ save' = [save EXCEPT !.todo[k] = None, !.saved[k] = IF ok THEN save.todo[k] ELSE None]
  /\ stored' = IF ok THEN [stored EXCEPT ![k] = save.todo[k]] ELSE stored
  /\ UNCHANGED <<configs, dirty, fetch, reset, edits, fetches, edited, exempt, pluginVars>>

\* Mutant: an edit whose save failed is dropped with the others.
AllClean == Clean

\* The edits that are left: those of keys that were not saved.
Unsaved == [k \in Keys |-> IF save.saved[k] # None THEN None ELSE dirty[k]]

SaveEnds ==
  /\ save.on /\ save.todo = Clean /\ save' = NoSave
  /\ dirty' = Unsaved
  /\ configs' = [k \in Keys |-> IF save.saved[k] # None THEN save.saved[k] ELSE configs[k]]
  /\ UNCHANGED <<stored, fetch, reset, edits, fetches, edited, exempt, pluginVars>>

Reset(k) ==
  /\ reset = None /\ reset' = k /\ exempt' = exempt \cup {k}
  /\ UNCHANGED <<stored, configs, dirty, fetch, save, edits, fetches, edited, pluginVars>>

\* handleReset: the entry is taken out of the list.
ResetSettles(ok) ==
  /\ reset # None /\ reset' = None
  /\ IF ok THEN /\ stored' = [stored EXCEPT ![reset] = Default]
               /\ configs' = [configs EXCEPT ![reset] = None]
               /\ dirty' = [dirty EXCEPT ![reset] = None]
     ELSE UNCHANGED <<stored, configs, dirty>>
  /\ UNCHANGED <<fetch, save, edits, fetches, edited, exempt, pluginVars>>

-----------------------------------------------------------------------------
(* The settings of a plugin *)

\* A render of the section starts another read.
Rendered(l) ==
  IF \E n \in DOMAIN l : l[n] = "idle"
  THEN [l EXCEPT ![CHOOSE n \in DOMAIN l : l[n] = "idle"] = "sent"] ELSE l

Type(v) ==
  /\ edits < MaxEdits /\ edits' = edits + 1
  /\ pShown' = v /\ pDirty' = TRUE /\ pTyped' = v /\ overwritten' = (pSave # "none")
  /\ loads' = Rendered(loads)
  /\ UNCHANGED <<coreVars, fetches, pStored, pSave>>

\* plugin.config.get is carried out; one that fails shows the default.
LoadReads(n, ok) ==
  /\ loads[n] = "sent" /\ loads' = [loads EXCEPT ![n] = IF ok THEN pStored ELSE Default]
  /\ UNCHANGED <<coreVars, edits, fetches, pStored, pShown, pSave, pDirty, pTyped, overwritten>>

\* loadAll ends: what it read replaces what is shown, and renders the section.
LoadAnswered(n) ==
  /\ loads[n] \in Values \cup {Default} /\ pShown' = loads[n]
  /\ loads' = Rendered([loads EXCEPT ![n] = "idle"])
  /\ overwritten' = (overwritten \/ pDirty)
  /\ UNCHANGED <<coreVars, edits, fetches, pStored, pSave, pDirty, pTyped>>

\* onSave sends what is shown.
PluginSave ==
  /\ pDirty /\ pSave = "none" /\ pSave' = pShown /\ loads' = Rendered(loads)
  /\ UNCHANGED <<coreVars, edits, fetches, pStored, pShown, pDirty, pTyped, overwritten>>

\* A save that fails leaves the button disabled.
PluginSaveSettles(ok) ==
  /\ pSave \in Values \cup {Default}
  /\ pSave' = IF ok THEN "written" ELSE "stuck"
  /\ pStored' = IF ok THEN pSave ELSE pStored
  /\ UNCHANGED <<coreVars, edits, fetches, pShown, loads, pDirty, pTyped, overwritten>>

PluginSaved ==
  /\ pSave = "written" /\ pSave' = "none" /\ pDirty' = FALSE /\ loads' = Rendered(loads)
  /\ UNCHANGED <<coreVars, edits, fetches, pStored, pShown, pTyped, overwritten>>

SettingsNext ==
  \/ Opens \/ CoreLists \/ SaveAll \/ SaveEnds \/ PluginSave \/ PluginSaved
  \/ \E ok \in BOOLEAN : Listed(ok) \/ ResetSettles(ok) \/ PluginSaveSettles(ok)
  \/ \E k \in Keys : Reset(k) \/ (\E v \in Values : Edit(k, v)) \/ \E ok \in BOOLEAN : SaveKey(k, ok)
  \/ \E v \in Values : Type(v)
  \/ \E n \in 1..MaxLoads : LoadAnswered(n) \/ \E ok \in BOOLEAN : LoadReads(n, ok)

SettingsSpec == SettingsInit /\ [][SettingsNext]_settingsVars

-----------------------------------------------------------------------------
\* An edit of a setting of Core is shown as one until Core stores it, also when
\* some keys of a save fail, unless it was made while the key was saved or
\* reset, or the list was read again (settings-panel.tsx:261).
EditsKept ==
  \A k \in Keys \ exempt : edited[k] # None => edited[k] \in {dirty[k], stored[k]}

\* What was typed for a plugin is shown until it is saved and is what is stored
\* then, if no read was answered in between (settings-panel.tsx:75).
PluginEditsKept ==
  pTyped # None /\ ~overwritten => IF pDirty THEN pShown = pTyped ELSE pStored = pTyped

\* "which keys the user has modified since the last save"
\* (plugin-settings-group.tsx:119): a modified key shows what was typed.
ModifiedIsShown == pDirty => pShown = pTyped
=============================================================================
