--------------------------- MODULE ConsoleLayouts ---------------------------
(***************************************************************************)
(* The workbench layouts of the console and their copy in localStorage:    *)
(* app/console/controller/use-console-controller.ts (restore, auto-save,   *)
(* entering and leaving nodes), app/console/stage/workbench-persistence.ts *)
(* and appReducer of workbench-state.ts, with what they wait for: the link *)
(* to Core, the plugin sync (core/use-app-sync.ts, plugin-sync.ts) and the *)
(* list of runs (lib/use-ws.ts).                                           *)
(*                                                                         *)
(* instanceStates is a function on the nodes that have a layout.  Of a     *)
(* layout the model keeps whether a view is open in it and the run the     *)
(* view is bound to.  Effects of React run with the render they belong to, *)
(* so an effect is part of the action that enables it.  Every run is a     *)
(* terminal, and the runs are no nodes.                                    *)
(***************************************************************************)
CONSTANTS
  Nodes,       \* keys of instanceStates that are entered
  LocalId,     \* the key of the local node once its identity is known
  LocalAlias,  \* '__local__', its key until then
  NoNode,      \* null: the console, no node is entered
  Runs,
  NoRun

ASSUME NodesAssumption == {LocalId, LocalAlias} \subseteq Nodes /\ NoNode \notin Nodes
ASSUME RunsAssumption == NoRun \notin Runs /\ Runs \cap Nodes = {}

VARIABLES
  layouts,     \* appState.instanceStates
  active,      \* appState.activeInstanceId
  bar,         \* appState.workbenchInstanceIds
  saved,       \* localStorage
  saveDue,     \* autoSaveTimerRef is armed
  link,        \* core.isConnected and connStatus
  syncing,     \* _syncLock of the plugin sync
  synced,      \* pluginsSynced
  restored,    \* instancesRestoredRef
  identified,  \* localNodeId is known
  listing,     \* run.list is in flight
  listed       \* instances of useWs

pageVars == <<layouts, active, bar>>
bootVars == <<link, syncing, synced, restored, identified>>
runVars == <<listing, listed>>
vars == <<pageVars, saved, saveDue, bootVars, runVars>>

Layout == [view: BOOLEAN, run: Runs \cup {NoRun}]
Layouts == UNION {[S -> Layout] : S \in SUBSET Nodes}
NoLayouts == [n \in {} |-> {}]
Snapshot == [layouts |-> layouts, active |-> active, bar |-> bar]

TypeOK ==
  /\ layouts \in Layouts
  /\ active \in Nodes \cup {NoNode}
  /\ bar \subseteq Nodes \cup Runs
  /\ saved \in [layouts: Layouts, active: Nodes \cup {NoNode}, bar: SUBSET (Nodes \cup Runs)]
  /\ saveDue \in BOOLEAN /\ link \in BOOLEAN /\ syncing \in BOOLEAN /\ synced \in BOOLEAN
  /\ restored \in BOOLEAN /\ identified \in BOOLEAN /\ listing \in BOOLEAN
  /\ listed \subseteq Runs
  /\ link => syncing \/ synced

-----------------------------------------------------------------------------
\* { ...instanceStates, [n]: layout }, and the layouts of f over those of g
Put(n, layout, f) ==
  [m \in DOMAIN f \cup {n} |-> IF m = n THEN layout ELSE f[m]]
Over(f, g) ==
  [m \in DOMAIN f \cup DOMAIN g |-> IF m \in DOMAIN f THEN f[m] ELSE g[m]]

\* createInitialState(): one empty tab; with a view, one terminal tab
Empty == [view |-> FALSE, run |-> NoRun]
Terminal == [view |-> TRUE, run |-> NoRun]

\* cleanStaleInstanceIds: no list of runs, nothing is stale.
Clean(layout) ==
  IF listed # {} /\ layout.run \notin listed THEN [layout EXCEPT !.run = NoRun] ELSE layout

\* Mutant: only layouts whose key is a run of the server are restored.
FromStorageRunsOnly == [n \in DOMAIN saved.layouts \cap listed |-> Clean(saved.layouts[n])]

\* restoreInstanceStatesFromStorage
FromStorage == [n \in DOMAIN saved.layouts |-> Clean(saved.layouts[n])]

LocalKey == IF identified THEN LocalId ELSE LocalAlias

\* the node a restore leaves the console on, if any
Landing ==
  IF saved.active \in DOMAIN FromStorage THEN saved.active
  ELSE IF listed # {} THEN LocalKey ELSE NoNode

\* Mutant: a landing that has no layout is left without one.
LandUnready(known) ==
  IF Landing \in DOMAIN known /\ ~known[Landing].view /\ listed # {}
    THEN Put(Landing, Terminal, known)
    ELSE known

\* The landing shows a terminal if it has no layout, or if Core has runs and
\* the layout no view.
Land(known) ==
  IF Landing # NoNode /\ (Landing \in DOMAIN known => ~known[Landing].view /\ listed # {})
    THEN Put(Landing, Terminal, known)
    ELSE known

\* The restore effect: layouts in memory win over those in storage.
Restore ==
  LET ids == listed \cup saved.bar \cup DOMAIN FromStorage
  IN /\ layouts' = Land(Over(layouts, FromStorage))
     /\ bar' = IF ids = {} THEN bar ELSE ids
     /\ active' = IF Landing = NoNode THEN active ELSE Landing
     /\ restored' = TRUE

\* Mutant: the auto-save does not depend on the node entered.
SaveLaterUnlessMoved == saveDue' = (saveDue \/ layouts' # layouts \/ bar' # bar)

\* The auto-save effect: a change of what is saved arms the timer.
SaveLater == saveDue' = (saveDue \/ Snapshot' # Snapshot)

NothingToSave == layouts = NoLayouts /\ bar = {}

\* saveLayoutsToStorage, refused by an empty console
Stored == IF NothingToSave THEN saved ELSE Snapshot

-----------------------------------------------------------------------------
(* Boot *)

\* The first effects of a page: nothing is loaded, the auto-save is armed.
Load ==
  /\ layouts' = NoLayouts /\ active' = NoNode /\ bar' = {}
  /\ saveDue' = TRUE
  /\ link' = FALSE /\ syncing' = FALSE /\ synced' = FALSE
  /\ restored' = FALSE /\ identified' = FALSE
  /\ listing' = FALSE /\ listed' = {}

\* The link comes up: runs are listed and plugins synced.  The lock drops a
\* second sync, which counts as done.  The effect that resets pluginsSynced
\* takes hold after the restore effect of the same render has read it.
Connect ==
  /\ ~link /\ link' = TRUE
  /\ listing' = TRUE
  /\ IF synced \/ syncing
       THEN Restore
       ELSE restored' = FALSE /\ UNCHANGED pageVars
  /\ synced' = syncing
  /\ syncing' = TRUE
  /\ SaveLater
  /\ UNCHANGED <<saved, identified, listed>>

Disconnect ==
  /\ link /\ link' = FALSE
  /\ UNCHANGED <<pageVars, saved, saveDue, syncing, synced, restored, identified, runVars>>

\* onSyncComplete, on success and on failure
SyncDone == synced' = TRUE

SyncEnds ==
  /\ syncing /\ syncing' = FALSE
  /\ SyncDone
  /\ IF link /\ ~restored THEN Restore ELSE UNCHANGED <<pageVars, restored>>
  /\ SaveLater
  /\ UNCHANGED <<saved, link, identified, runVars>>

\* node.identity.get of the provider
IdentityArrives ==
  /\ ~identified /\ identified' = TRUE
  /\ UNCHANGED <<pageVars, saved, saveDue, link, syncing, synced, restored, runVars>>

-----------------------------------------------------------------------------
(* Runs *)

\* run.list is answered with whatever Core runs, or fails
\* and leaves the list alone
RunsListed ==
  /\ listing /\ listing' = FALSE
  /\ listed' \in {listed} \cup SUBSET Runs
  /\ UNCHANGED <<pageVars, saved, saveDue, bootVars>>

\* killInstance: gone from the list whether Core agrees or not
KillInstance(r) ==
  /\ r \in listed /\ listed' = listed \ {r}
  /\ UNCHANGED <<pageVars, saved, saveDue, bootVars, listing>>

-----------------------------------------------------------------------------
(* The user *)

Entered(n) == layouts' = IF n \in DOMAIN layouts THEN layouts ELSE Put(n, Empty, layouts)

\* handleEnterNode: nodes are offered while the link is up
EnterNode(n) ==
  /\ link
  /\ IF active = n
       THEN active' = NoNode /\ UNCHANGED layouts
       ELSE active' = n /\ Entered(n)
  /\ UNCHANGED <<bar, saved, bootVars, runVars>>
  /\ SaveLater

GoToConsole ==
  /\ active # NoNode /\ active' = NoNode
  /\ UNCHANGED <<layouts, bar, saved, bootVars, runVars>>
  /\ SaveLater

\* activeWorkbenchDispatch on the node that is entered
Edit(layout, ids) ==
  /\ layouts' = [layouts EXCEPT ![active] = layout]
  /\ bar' = ids
  /\ UNCHANGED <<active, saved, bootVars, listing>>
  /\ SaveLater

\* handleRequestView: a view never opens with a run
OpenView ==
  /\ active # NoNode /\ ~layouts[active].view
  /\ Edit(Terminal, bar)
  /\ UNCHANGED listed

\* handleBindCurrentTabInstance, with a run of Core the view attached to or
\* has just created, which createInstance also lists
BindTab(r) ==
  /\ active # NoNode /\ layouts[active].view
  /\ listed' \in {listed, listed \cup {r}}
  /\ Edit([view |-> TRUE, run |-> r], bar)

\* handleCloseTab and CLOSE_TAB: the layout of the run, none here, is removed,
\* and the run leaves the bar unless the tab is kept.
CloseTab ==
  /\ active # NoNode /\ layouts[active].view
  /\ \E ids \in {bar, bar \ {layouts[active].run}} : Edit(Empty, ids)
  /\ UNCHANGED listed

-----------------------------------------------------------------------------
(* Storage *)

SaveTimerFires ==
  /\ saveDue /\ saveDue' = FALSE
  /\ saved' = Stored
  /\ UNCHANGED <<pageVars, bootVars, runVars>>

\* beforeunload saves, a crash does not
Reload ==
  /\ saved' \in {saved, Stored}
  /\ Load

-----------------------------------------------------------------------------
Init ==
  /\ layouts = NoLayouts /\ active = NoNode /\ bar = {}
  /\ saved = Snapshot
  /\ saveDue = TRUE
  /\ link = FALSE /\ syncing = FALSE /\ synced = FALSE
  /\ restored = FALSE /\ identified = FALSE
  /\ listing = FALSE /\ listed = {}

Next ==
  \/ Connect \/ Disconnect \/ SyncEnds \/ IdentityArrives
  \/ RunsListed \/ \E r \in Runs : KillInstance(r)
  \/ \E n \in Nodes : EnterNode(n)
  \/ GoToConsole \/ OpenView \/ \E r \in Runs : BindTab(r)
  \/ CloseTab
  \/ SaveTimerFires \/ Reload

\* Timers fire.  Nothing is assumed of the link, of Core or of the user.
Spec == Init /\ [][Next]_vars /\ WF_vars(SaveTimerFires)

-----------------------------------------------------------------------------
\* The node that is entered has a layout, in memory and in storage, whatever
\* was restored on top of what: the dispatch of the controller would else
\* silently edit the global layout, which no node shows.
ActiveHasLayout ==
  /\ active # NoNode => active \in DOMAIN layouts
  /\ saved.active # NoNode => saved.active \in DOMAIN saved.layouts

\* Once the console has restored, no save, reload, reconnect or restore makes
\* localStorage forget the layout of a node.  (Before it has, an early click on
\* a node does: the auto-save then stores that node alone.)
SavedLayoutsKept == [][restored => DOMAIN saved.layouts \subseteq DOMAIN saved'.layouts]_vars

\* When the user and the network leave the console alone, what it shows is
\* what a reload will restore, unless it shows nothing.
EditsPersist == <>[][FALSE]_pageVars => <>[](NothingToSave \/ saved = Snapshot)
=============================================================================
