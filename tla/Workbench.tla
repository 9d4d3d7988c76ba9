------------------------------ MODULE Workbench ------------------------------
(***************************************************************************)
(* The layout of one node: the reducer of app/console/stage/               *)
(* workbench-state.ts, the controls that dispatch to it (pane-tab-bar,     *)
(* pane-view, bottom-dock, workbench-layout) and the callbacks of the      *)
(* console that bind, rename, keep and reopen tabs.                        *)
(*                                                                         *)
(* The tree of splits is the sequence of its panes from left to right;     *)
(* directions, nesting and sizes are left out.  Titles are left out.  The  *)
(* controls name panes and tabs that are on the screen.  Splitting and     *)
(* clearing are actions of the reducer that no control dispatches.         *)
(***************************************************************************)
EXTENDS Integers, SequencesExt

CONSTANTS
  Runs,
  NoRun,
  NoPane,
  MaxPaneTabs, \* bound: tabs of a pane
  MaxPanes,    \* bound: panes of the tree
  MaxKept,     \* bound: kept tabs
  MaxIds       \* bound: ids of panes and tabs made

VARIABLES
  main,     \* root: the panes of the tree
  dock,     \* bottom
  focused,  \* activePaneId
  kept,     \* persistentTabs
  counter,  \* _counter
  unsplit   \* history: panes whose tabs UNSPLIT_PANE has renamed

workbenchVars == <<main, dock, focused, kept, counter, unsplit>>

Ids == 1..MaxIds
Tab == [id: Ids, view: {"empty", "terminal"}, run: Runs \cup {NoRun}]
Pane == [id: Ids, tabs: Seq(Tab), active: Ids]

NewTab(id, view) == [id |-> id, view |-> view, run |-> NoRun]
EmptyTab(id) == NewTab(id, "empty")
\* createEmptyPane: the tab first, then the pane
NewPane(id, view) == [id |-> id + 1, tabs |-> <<NewTab(id, view)>>, active |-> id]
EmptyPane(id) == NewPane(id, "empty")

Panes == Range(main) \cup ({dock} \ {NoPane})
TabIds(pane) == {tab.id : tab \in Range(pane.tabs)}

WorkbenchTypeOK ==
  /\ Len(main) \in 1..MaxPanes /\ \A i \in DOMAIN main : main[i] \in [id: Ids, tabs: Range([j \in Ids |-> main[i].tabs]), active: Ids]
  /\ \A pane \in Panes : Len(pane.tabs) <= MaxPaneTabs /\ \A t \in Range(pane.tabs) : t \in Tab
  /\ focused \in Ids /\ counter \in 0..MaxIds
  /\ kept \subseteq Tab /\ unsplit \subseteq Ids

\* genTabId, genPaneId
Fresh(n) == counter + n <= MaxIds /\ counter' = counter + n
Same == UNCHANGED counter

-----------------------------------------------------------------------------
\* replaceNode, or the dock if the pane is there
Put(pane) ==
  IF dock # NoPane /\ dock.id = pane.id
    THEN dock' = pane /\ UNCHANGED main
    ELSE /\ main' = [i \in DOMAIN main |-> IF main[i].id = pane.id THEN pane ELSE main[i]]
         /\ UNCHANGED dock

PutTabs(pane, tabs, active) == Put([pane EXCEPT !.tabs = tabs, !.active = active])
Kept == UNCHANGED <<focused, kept, unsplit>>
Index(pane, tab) == CHOOSE i \in DOMAIN pane.tabs : pane.tabs[i] = tab
\* The tabs but the one of this id: ids are unique in a pane.
Without(pane, tab) == RemoveAt(pane.tabs, Index(pane, tab))

FocusPane(pane) ==
  /\ pane \in Range(main) /\ focused' = pane.id
  /\ Same /\ UNCHANGED <<main, dock, kept, unsplit>>

SetActiveTab(pane, tab) ==
  /\ PutTabs(pane, pane.tabs, tab.id)
  /\ unsplit' = unsplit \ {pane.id}
  /\ Same /\ UNCHANGED <<focused, kept>>

\* The active tab of a pane once tab is closed
ActiveAfter(pane, tab, rest) == IF pane.active = tab.id THEN Last(rest).id ELSE pane.active

\* CLOSE_TAB: the last tab gives way to an empty one, which cannot be closed.
CloseTab(pane, tab) ==
  /\ ~(Len(pane.tabs) = 1 /\ tab.view = "empty")
  /\ IF Len(pane.tabs) = 1
       THEN Fresh(1) /\ PutTabs(pane, <<EmptyTab(counter + 1)>>, counter + 1)
       ELSE LET rest == Without(pane, tab)
            IN Same /\ PutTabs(pane, rest, ActiveAfter(pane, tab, rest))
  /\ Kept

\* ADD_TAB of a tab whose id is fresh: the + of a pane, or a kept tab reopened
AddTab(pane, view, run) ==
  /\ Len(pane.tabs) < MaxPaneTabs /\ Fresh(1)
  /\ PutTabs(pane, Append(pane.tabs, [id |-> counter + 1, view |-> view, run |-> run]), counter + 1)
  /\ unsplit' = unsplit \ {pane.id}
  /\ UNCHANGED <<focused, kept>>

\* REORDER_TABS: the tab takes the place the target had.
ReorderTabs(pane, tab, tgt) ==
  /\ tab # tgt
  /\ LET rest == Without(pane, tab)
     IN PutTabs(pane, InsertAt(rest, Index(pane, tgt), tab), pane.active)
  /\ Same /\ Kept

\* SET_TAB_VIEW: a view picked in an empty tab takes over no run ...
SetTabView(pane, tab, view, run) ==
  /\ PutTabs(pane, [i \in DOMAIN pane.tabs |->
        IF pane.tabs[i].id = tab.id THEN [tab EXCEPT !.view = view, !.run = run] ELSE pane.tabs[i]],
        pane.active)
  /\ Same /\ Kept

RequestView(pane, tab) ==
  pane \in Range(main) /\ tab.view = "empty" /\ SetTabView(pane, tab, "terminal", NoRun)

\* ... and handleBindCurrentTabInstance binds the active tab of the focused
\* pane, whichever view has made the run.
BindCurrentTab(pane, tab, run) ==
  /\ pane.id = focused /\ tab.id = pane.active
  /\ \E by \in Panes : \E t \in Range(by.tabs) : t.view = "terminal" /\ t.run = NoRun
  /\ SetTabView(pane, tab, tab.view, run)

\* handleReopenKeptTab, for the kept tabs that are not on the screen
ReopenKeptTab(pane, tab) ==
  /\ pane.id = focused /\ \A other \in Panes : tab.id \notin TabIds(other)
  /\ AddTab(pane, tab.view, tab.run)

\* KEEP_TAB and UNKEEP_TAB
KeepTab(tab) ==
  /\ Cardinality(kept) < MaxKept /\ \A other \in kept : other.id # tab.id
  /\ kept' = kept \cup {tab}
  /\ Same /\ UNCHANGED <<main, dock, focused, unsplit>>

UnkeepTab(tab) ==
  /\ kept' = kept \ {tab}
  /\ Same /\ UNCHANGED <<main, dock, focused, unsplit>>

\* ADD_BOTTOM_PANE and CLOSE_BOTTOM_PANE
AddBottomPane ==
  /\ dock = NoPane /\ Fresh(2) /\ dock' = NewPane(counter + 1, "terminal")
  /\ Kept /\ UNCHANGED main

CloseBottomPane == dock # NoPane /\ dock' = NoPane /\ Same /\ Kept /\ UNCHANGED main

-----------------------------------------------------------------------------
\* SPLIT_PANE with the default view, and ADD_EMPTY_PANE: a new pane after a
\* pane, or after all
SplitPane(i, view) ==
  /\ Len(main) < MaxPanes /\ Fresh(2)
  /\ main' = InsertAt(main, i + 1, NewPane(counter + 1, view)) /\ focused' = counter + 2
  /\ UNCHANGED <<dock, kept, unsplit>>

\* UNSPLIT_PANE: one pane is left; it and its tabs get new ids, and the
\* active tab keeps the old one.
UnsplitPane(pane) ==
  /\ Fresh(Len(pane.tabs) + 1)
  /\ main' = <<[pane EXCEPT !.id = counter + 1,
                            !.tabs = [j \in DOMAIN pane.tabs |->
                                        [pane.tabs[j] EXCEPT !.id = counter + 1 + j]]]>>
  /\ focused' = counter + 1 /\ unsplit' = unsplit \cup {counter + 1}
  /\ UNCHANGED <<dock, kept>>

\* Mutant: the focus stays where it was.
FocusKept(i) == focused

\* The focus once pane i is removed
FocusAfter(i) == IF main[i].id = focused THEN RemoveAt(main, i)[1].id ELSE focused

\* REMOVE_PANE, not of the last one
RemovePane(i) ==
  /\ Len(main) > 1
  /\ main' = RemoveAt(main, i) /\ focused' = FocusAfter(i)
  /\ Same /\ UNCHANGED <<dock, kept, unsplit>>

\* CLEAR_INSTANCE_TABS
Cleared(pane, run) ==
  [pane EXCEPT !.tabs = [j \in DOMAIN pane.tabs |->
     IF pane.tabs[j].run = run THEN EmptyTab(pane.tabs[j].id) ELSE pane.tabs[j]]]

ClearInstanceTabs(run) ==
  /\ main' = [i \in DOMAIN main |-> Cleared(main[i], run)]
  /\ dock' = IF dock = NoPane THEN dock ELSE Cleared(dock, run)
  /\ Same /\ Kept

-----------------------------------------------------------------------------
\* createInitialState
WorkbenchInit ==
  /\ main = <<EmptyPane(1)>> /\ dock = NoPane /\ focused = 2
  /\ kept = {} /\ counter = 2 /\ unsplit = {}

WorkbenchNext ==
  \/ \E pane \in Panes :
       \/ FocusPane(pane) \/ (pane \in Range(main) /\ AddTab(pane, "empty", NoRun))
       \/ UnsplitPane(pane) /\ pane \in Range(main)
       \/ \E tab \in Range(pane.tabs) :
            \/ SetActiveTab(pane, tab) \/ CloseTab(pane, tab) \/ RequestView(pane, tab)
            \/ (pane \in Range(main) /\ KeepTab(tab))
            \/ \E tgt \in Range(pane.tabs) : ReorderTabs(pane, tab, tgt)
            \/ \E run \in Runs : BindCurrentTab(pane, tab, run)
       \/ \E tab \in kept : ReopenKeptTab(pane, tab)
  \/ \E tab \in kept : UnkeepTab(tab)
  \/ AddBottomPane \/ CloseBottomPane
  \/ \E i \in DOMAIN main :
       RemovePane(i) \/ \E view \in {"empty", "terminal"} : SplitPane(i, view)
  \/ \E run \in Runs : ClearInstanceTabs(run)

-----------------------------------------------------------------------------
\* However the tabs are moved, closed, split and reopened: the focused pane is
\* on the screen, every tab is there once, and every pane shows one of its tabs
\* (workbench-state.ts:169), unless its tabs were renamed by UNSPLIT_PANE.
LayoutIsWhole ==
  /\ \E pane \in Range(main) : pane.id = focused
  /\ \A pane \in Panes :
       /\ pane.id \notin unsplit => pane.active \in TabIds(pane)
       /\ \A i, j \in DOMAIN pane.tabs : pane.tabs[i].id = pane.tabs[j].id => i = j
       /\ \A other \in Panes : other # pane => TabIds(other) \cap TabIds(pane) = {}
=============================================================================
