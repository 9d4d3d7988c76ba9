----------------------------- MODULE PanesProofs -----------------------------
(***************************************************************************)
(* Proofs about what a page shows and keeps, for every set of nodes, runs  *)
(* and terminals and every bound: the layouts of the nodes and their copy  *)
(* in the storage, the panes and tabs of a layout, and the output of a     *)
(* terminal around its replay.                                             *)
(***************************************************************************)
EXTENDS MCPanes, SequenceTheorems, FiniteSetTheorems, TLAPS

-----------------------------------------------------------------------------
(* Layouts as functions *)

LEMMA OverType ==
  ASSUME NEW f \in Layouts, NEW g \in Layouts
  PROVE  Over(f, g) \in Layouts
<1>1. PICK S \in SUBSET Nodes : f \in [S -> Layout]
  BY DEF Layouts
<1>2. PICK T \in SUBSET Nodes : g \in [T -> Layout]
  BY DEF Layouts
<1>3. Over(f, g) \in [S \cup T -> Layout]
  BY <1>1, <1>2 DEF Over
<1> QED
  BY <1>3 DEF Layouts

LEMMA PutType ==
  ASSUME NEW n \in Nodes, NEW layout \in Layout, NEW f \in Layouts
  PROVE  Put(n, layout, f) \in Layouts
<1>1. PICK S \in SUBSET Nodes : f \in [S -> Layout]
  BY DEF Layouts
<1>2. Put(n, layout, f) \in [S \cup {n} -> Layout]
  BY <1>1 DEF Put
<1> QED
  BY <1>2 DEF Layouts

LEMMA LayoutTypes == Empty \in Layout /\ Terminal \in Layout
BY DEF Empty, Terminal, Layout

LEMMA NoLayoutsType == NoLayouts \in Layouts /\ DOMAIN NoLayouts = {}
<1>1. NoLayouts \in [{} -> Layout]
  BY DEF NoLayouts
<1> QED
  BY <1>1 DEF Layouts, NoLayouts

-----------------------------------------------------------------------------
(***************************************************************************)
(* Who has a layout.  Covered is what makes a save after a restore lose    *)
(* nothing: the memory knows every node the storage knows.                 *)
(***************************************************************************)

Covered == restored => DOMAIN saved.layouts \subseteq DOMAIN layouts

Inv == ActiveHasLayout /\ Covered

\* A restore forgets no layout of the memory or the storage, and makes one
\* for the node it lands on.
LEMMA RestoreDomain ==
  ASSUME Restore
  PROVE  /\ DOMAIN layouts \subseteq DOMAIN layouts'
         /\ DOMAIN saved.layouts \subseteq DOMAIN layouts'
         /\ Landing # NoNode => Landing \in DOMAIN layouts'
<1> DEFINE known == Over(layouts, FromStorage)
<1>1. DOMAIN known = DOMAIN layouts \cup DOMAIN saved.layouts
  BY DEF Over, FromStorage
<1>2. layouts' = Land(known)
  BY DEF Restore
<1>3. \/ layouts' = known /\ (Landing # NoNode => Landing \in DOMAIN known)
      \/ DOMAIN layouts' = DOMAIN known \cup {Landing}
  BY <1>2 DEF Land, Put
<1> QED
  BY <1>1, <1>3

LEMMA RestoreKeepsInv ==
  ASSUME ActiveHasLayout, Restore, UNCHANGED saved
  PROVE  Inv'
<1>1. active' = active \/ (active' = Landing /\ Landing # NoNode)
  BY DEF Restore
<1> QED
  BY <1>1, RestoreDomain DEF Inv, ActiveHasLayout, Covered

\* What is stored keeps the node that is entered and its layout together.
LEMMA StoredFits ==
  ASSUME ActiveHasLayout, saved' \in {saved, Stored}
  PROVE  /\ saved'.active # NoNode => saved'.active \in DOMAIN saved'.layouts
         /\ Covered => (restored => DOMAIN saved.layouts \subseteq DOMAIN saved'.layouts)
         /\ Covered => (restored => DOMAIN saved'.layouts \subseteq DOMAIN layouts)
<1>1. CASE saved' = saved
  BY <1>1 DEF ActiveHasLayout, Covered
<1>2. CASE saved' = Snapshot
  <2>1. saved'.active = active /\ saved'.layouts = layouts
    BY <1>2 DEF Snapshot
  <2> QED
    BY <2>1 DEF ActiveHasLayout, Covered
<1> QED
  BY <1>1, <1>2 DEF Stored

\* A change of the page that drops no layout and leaves the storage alone.
LEMMA GrowthKeepsInv ==
  ASSUME Inv, DOMAIN layouts \subseteq DOMAIN layouts', UNCHANGED <<saved, restored>>,
         active' \in {active, NoNode} \/ active' \in DOMAIN layouts'
  PROVE  Inv'
BY DEF Inv, ActiveHasLayout, Covered

LEMMA InvStep == Inv /\ [Next]_vars => Inv'
<1> SUFFICES ASSUME Inv, [Next]_vars PROVE Inv'
  OBVIOUS
<1>1. CASE Connect
  <2>1. CASE synced \/ syncing
    BY <1>1, <2>1, RestoreKeepsInv DEF Connect, Inv
  <2>2. CASE ~(synced \/ syncing)
    BY <1>1, <2>2 DEF Connect, pageVars, Inv, ActiveHasLayout, Covered
  <2> QED
    BY <2>1, <2>2
<1>2. CASE SyncEnds
  <2>1. CASE link /\ ~restored
    BY <1>2, <2>1, RestoreKeepsInv DEF SyncEnds, Inv
  <2>2. CASE ~(link /\ ~restored)
    BY <1>2, <2>2, GrowthKeepsInv DEF SyncEnds, pageVars
  <2> QED
    BY <2>1, <2>2
<1>3. CASE Disconnect \/ IdentityArrives \/ RunsListed \/ \E r \in Runs : KillInstance(r)
  BY <1>3, GrowthKeepsInv
  DEF Disconnect, IdentityArrives, RunsListed, KillInstance, pageVars, bootVars
<1>4. ASSUME NEW n \in Nodes, EnterNode(n) PROVE Inv'
  <2>1. CASE active = n
    BY <1>4, <2>1, GrowthKeepsInv DEF EnterNode, bootVars
  <2>2. CASE active # n
    <3>1. DOMAIN layouts' = DOMAIN layouts \cup {n}
      BY <1>4, <2>2 DEF EnterNode, Entered, Put
    <3> QED
      BY <1>4, <2>2, <3>1, GrowthKeepsInv DEF EnterNode, bootVars
  <2> QED
    BY <2>1, <2>2
<1>5. CASE GoToConsole
  BY <1>5, GrowthKeepsInv DEF GoToConsole, bootVars
<1>6. ASSUME NEW layout, NEW ids, Edit(layout, ids) PROVE Inv'
  BY <1>6, GrowthKeepsInv DEF Edit, bootVars
<1>7. CASE OpenView \/ (\E r \in Runs : BindTab(r)) \/ CloseTab
  BY <1>6, <1>7 DEF OpenView, BindTab, CloseTab
<1>8. CASE SaveTimerFires
  BY <1>8, StoredFits DEF SaveTimerFires, pageVars, bootVars, Inv, ActiveHasLayout, Covered
<1>9. CASE Reload
  BY <1>9, StoredFits DEF Reload, Load, Inv, ActiveHasLayout, Covered
<1>10. CASE UNCHANGED vars
  BY <1>10, GrowthKeepsInv DEF vars, pageVars, bootVars
<1> QED
  BY <1>1, <1>2, <1>3, <1>4, <1>5, <1>7, <1>8, <1>9, <1>10 DEF Next

LEMMA InvInit == Init => Inv
BY NoLayoutsType DEF Init, Inv, ActiveHasLayout, Covered, Snapshot

\* The node that is entered has a layout, in memory and in storage
\* (use-console-controller.ts, restore and handleEnterNode).
THEOREM ActiveHasLayoutCorrect == Spec => []ActiveHasLayout
<1>1. Inv => ActiveHasLayout
  BY DEF Inv
<1> QED
  BY InvInit, InvStep, <1>1, PTL DEF Spec

\* Once the console has restored, localStorage never forgets the layout of a
\* node (use-console-controller.ts, restore and auto-save).
THEOREM SavedLayoutsKeptCorrect == Spec => SavedLayoutsKept
<1> DEFINE Kept == restored => DOMAIN saved.layouts \subseteq DOMAIN saved'.layouts
<1>1. Inv /\ [Next]_vars => [Kept]_vars
  <2> SUFFICES ASSUME Inv, Next PROVE Kept
    OBVIOUS
  <2>1. CASE SaveTimerFires \/ Reload
    <3>1. saved' \in {saved, Stored}
      BY <2>1 DEF SaveTimerFires, Reload
    <3> QED
      BY <3>1, StoredFits DEF Inv
  <2>2. CASE UNCHANGED saved
    BY <2>2
  <2>3. (\E r \in Runs : BindTab(r)) \/ OpenView \/ CloseTab => UNCHANGED saved
    BY DEF BindTab, OpenView, CloseTab, Edit
  <2> QED
    BY <2>1, <2>2, <2>3
    DEF Next, Connect, Disconnect, SyncEnds, IdentityArrives, RunsListed, KillInstance,
        EnterNode, GoToConsole
<1> QED
  BY InvInit, InvStep, <1>1, PTL DEF Spec, SavedLayoutsKept

-----------------------------------------------------------------------------
(* Types, in groups that keep functions and Booleans apart.                 *)

Saved == [layouts: Layouts, active: Nodes \cup {NoNode}, bar: SUBSET (Nodes \cup Runs)]

DataTypes ==
  /\ layouts \in Layouts
  /\ active \in Nodes \cup {NoNode}
  /\ bar \in SUBSET (Nodes \cup Runs)
  /\ saved \in Saved
  /\ listed \in SUBSET Runs

FlagTypes ==
  /\ saveDue \in BOOLEAN /\ link \in BOOLEAN /\ syncing \in BOOLEAN /\ synced \in BOOLEAN
  /\ restored \in BOOLEAN /\ identified \in BOOLEAN /\ listing \in BOOLEAN

Unblocked == link => syncing \/ synced

LEMMA TypeGroups == TypeOK <=> DataTypes /\ FlagTypes /\ Unblocked
BY DEF TypeOK, DataTypes, FlagTypes, Unblocked, Saved

LEMMA DomainType ==
  ASSUME NEW f \in Layouts
  PROVE  DOMAIN f \subseteq Nodes /\ \A n \in DOMAIN f : f[n] \in Layout
BY DEF Layouts

LEMMA SnapshotType ==
  ASSUME DataTypes
  PROVE  Snapshot \in Saved /\ Stored \in Saved
BY DEF DataTypes, Snapshot, Stored, Saved

LEMMA FromStorageType ==
  ASSUME DataTypes
  PROVE  FromStorage \in Layouts
<1>1. saved.layouts \in Layouts
  BY DEF DataTypes, Saved
<1>2. ASSUME NEW n \in DOMAIN saved.layouts PROVE Clean(saved.layouts[n]) \in Layout
  <2>1. saved.layouts[n] \in Layout
    BY <1>1, DomainType
  <2> QED
    BY <2>1 DEF Clean, Layout
<1>3. FromStorage \in [DOMAIN saved.layouts -> Layout]
  BY <1>2 DEF FromStorage
<1> QED
  BY <1>1, <1>3, DomainType DEF Layouts

LEMMA LandingType ==
  ASSUME DataTypes
  PROVE  Landing \in Nodes \cup {NoNode}
BY NodesAssumption DEF Landing, LocalKey, DataTypes, Saved

LEMMA RestoreTypes ==
  ASSUME DataTypes, Restore, UNCHANGED <<saved, listed>>
  PROVE  DataTypes'
<1>1. Over(layouts, FromStorage) \in Layouts
  BY FromStorageType, OverType DEF DataTypes
<1>2. layouts' \in Layouts
  BY <1>1, LandingType, PutType, LayoutTypes DEF Restore, Land
<1>3. DOMAIN FromStorage \subseteq Nodes
  BY FromStorageType, DomainType
<1>4. bar' \in SUBSET (Nodes \cup Runs)
  BY <1>3 DEF Restore, DataTypes, Saved
<1>5. active' \in Nodes \cup {NoNode}
  BY LandingType DEF Restore, DataTypes
<1> QED
  BY <1>2, <1>4, <1>5 DEF DataTypes

LEMMA EditTypes ==
  ASSUME DataTypes, NEW layout \in Layout, NEW ids \in SUBSET bar, Edit(layout, ids),
         listed' \in SUBSET Runs
  PROVE  DataTypes'
<1>1. PICK S \in SUBSET Nodes : layouts \in [S -> Layout]
  BY DEF DataTypes, Layouts
<1>2. layouts' \in [S -> Layout]
  BY <1>1 DEF Edit
<1>3. layouts' \in Layouts
  BY <1>2 DEF Layouts
<1> QED
  BY <1>3 DEF Edit, DataTypes

LEMMA DataTypesStep == DataTypes /\ [Next]_vars => DataTypes'
<1> SUFFICES ASSUME DataTypes, [Next]_vars PROVE DataTypes'
  OBVIOUS
<1>1. CASE Connect
  BY <1>1, RestoreTypes DEF Connect, pageVars, DataTypes
<1>2. CASE SyncEnds
  BY <1>2, RestoreTypes DEF SyncEnds, pageVars, runVars, DataTypes
<1>3. CASE Disconnect \/ IdentityArrives \/ RunsListed \/ \E r \in Runs : KillInstance(r)
  BY <1>3 DEF Disconnect, IdentityArrives, RunsListed, KillInstance, pageVars, runVars, DataTypes
<1>4. ASSUME NEW n \in Nodes, EnterNode(n) PROVE DataTypes'
  BY <1>4, PutType, LayoutTypes DEF EnterNode, Entered, runVars, DataTypes
<1>5. CASE GoToConsole
  BY <1>5 DEF GoToConsole, runVars, DataTypes
<1>6. CASE OpenView
  BY <1>6, EditTypes, LayoutTypes DEF OpenView, DataTypes
<1>7. ASSUME NEW r \in Runs, BindTab(r) PROVE DataTypes'
  <2>1. [view |-> TRUE, run |-> r] \in Layout
    BY DEF Layout
  <2>2. listed' \in SUBSET Runs
    BY <1>7 DEF BindTab, DataTypes
  <2> QED
    BY <1>7, <2>1, <2>2, EditTypes DEF BindTab
<1>8. CASE CloseTab
  <2>1. PICK ids \in {bar, bar \ {layouts[active].run}} : Edit(Empty, ids)
    BY <1>8 DEF CloseTab
  <2> QED
    BY <1>8, <2>1, EditTypes, LayoutTypes DEF CloseTab, DataTypes
<1>9. CASE SaveTimerFires
  BY <1>9, SnapshotType DEF SaveTimerFires, pageVars, runVars, DataTypes
<1>10. CASE Reload
  BY <1>10, SnapshotType, NoLayoutsType DEF Reload, Load, DataTypes
<1>11. CASE UNCHANGED vars
  BY <1>11 DEF vars, pageVars, runVars, DataTypes
<1> QED
  BY <1>1, <1>2, <1>3, <1>4, <1>5, <1>6, <1>7, <1>8, <1>9, <1>10, <1>11 DEF Next

LEMMA SaveLaterType == SaveLater => saveDue' \in BOOLEAN
BY DEF SaveLater

LEMMA FlagTypesStep == FlagTypes /\ [Next]_vars => FlagTypes'
<1> SUFFICES ASSUME FlagTypes, [Next]_vars PROVE FlagTypes'
  OBVIOUS
<1> USE DEF FlagTypes, bootVars, runVars
<1>1. CASE Connect
  BY <1>1, SaveLaterType DEF Connect, Restore
<1>2. CASE SyncEnds
  BY <1>2, SaveLaterType DEF SyncEnds, SyncDone, Restore
<1>3. CASE Disconnect \/ IdentityArrives \/ RunsListed \/ \E r \in Runs : KillInstance(r)
  BY <1>3 DEF Disconnect, IdentityArrives, RunsListed, KillInstance
<1>4. CASE (\E n \in Nodes : EnterNode(n)) \/ GoToConsole
  BY <1>4, SaveLaterType DEF EnterNode, GoToConsole
<1>5. CASE OpenView \/ (\E r \in Runs : BindTab(r)) \/ CloseTab
  BY <1>5, SaveLaterType DEF OpenView, BindTab, CloseTab, Edit
<1>6. CASE SaveTimerFires \/ Reload
  BY <1>6 DEF SaveTimerFires, Reload, Load
<1>7. CASE UNCHANGED vars
  BY <1>7 DEF vars
<1> QED
  BY <1>1, <1>2, <1>3, <1>4, <1>5, <1>6, <1>7 DEF Next

LEMMA UnblockedStep == Unblocked /\ [Next]_vars => Unblocked'
<1> SUFFICES ASSUME Unblocked, [Next]_vars PROVE Unblocked'
  OBVIOUS
<1>1. CASE Connect \/ Disconnect \/ SyncEnds \/ Reload
  BY <1>1 DEF Connect, Disconnect, SyncEnds, SyncDone, Reload, Load, Unblocked
<1>2. CASE UNCHANGED <<link, syncing, synced>>
  BY <1>2 DEF Unblocked
<1> QED
  BY <1>1, <1>2
  DEF Next, vars, IdentityArrives, RunsListed, KillInstance, EnterNode, GoToConsole,
      OpenView, BindTab, CloseTab, Edit, SaveTimerFires, bootVars

\* Types; in particular a page that is linked has synced its plugins or is
\* doing so, so that its restore is not blocked (use-app-sync.ts).
THEOREM LayoutTypesCorrect == Spec => []TypeOK
<1>1. Init => DataTypes
  BY NoLayoutsType DEF Init, DataTypes, Snapshot, Saved
<1>2. Init => FlagTypes /\ Unblocked
  BY DEF Init, FlagTypes, Unblocked
<1> QED
  BY <1>1, <1>2, DataTypesStep, FlagTypesStep, UnblockedStep, TypeGroups, PTL DEF Spec

-----------------------------------------------------------------------------
(* Sequences with an element more or less *)

LEMMA Removed ==
  ASSUME NEW S, NEW s \in Seq(S), NEW i \in DOMAIN s
  PROVE  /\ Bench!RemoveAt(s, i) \in Seq(S)
         /\ Len(Bench!RemoveAt(s, i)) = Len(s) - 1
         /\ \A j \in 1..Len(s) - 1 : Bench!RemoveAt(s, i)[j] = IF j < i THEN s[j] ELSE s[j + 1]
<1>1. Len(s) \in Nat /\ DOMAIN s = 1..Len(s) /\ i \in 1..Len(s)
  BY LenProperties
<1>2. /\ SubSeq(s, 1, i - 1) \in Seq(S) /\ Len(SubSeq(s, 1, i - 1)) = i - 1
      /\ \A j \in 1..i - 1 : SubSeq(s, 1, i - 1)[j] = s[j]
  BY <1>1, SubSeqProperties
<1>0. \A j \in 1..Len(s) : s[j] \in S
  BY ElementOfSeq
<1>3. /\ SubSeq(s, i + 1, Len(s)) \in Seq(S) /\ Len(SubSeq(s, i + 1, Len(s))) = Len(s) - i
      /\ \A j \in 1..Len(s) - i : SubSeq(s, i + 1, Len(s))[j] = s[i + j]
  <2>1. \A j \in i + 1..Len(s) : s[j] \in S
    BY <1>0, <1>1
  <2>2. i + 1 \in Int /\ Len(s) \in Int
    BY <1>1
  <2>3. /\ SubSeq(s, i + 1, Len(s)) \in Seq(S)
        /\ Len(SubSeq(s, i + 1, Len(s))) = IF i + 1 <= Len(s) THEN Len(s) - (i + 1) + 1 ELSE 0
        /\ \A j \in 1..Len(s) - (i + 1) + 1 : SubSeq(s, i + 1, Len(s))[j] = s[i + 1 + j - 1]
    BY <2>1, <2>2, SubSeqProperties
  <2> QED
    BY <1>1, <2>3
<1> DEFINE front == SubSeq(s, 1, i - 1)  back == SubSeq(s, i + 1, Len(s))
<1>4. Bench!RemoveAt(s, i) = front \o back
  BY DEF Bench!RemoveAt
<1>5. /\ front \in Seq(S) /\ Len(front) = i - 1 /\ \A j \in 1..i - 1 : front[j] = s[j]
      /\ back \in Seq(S) /\ Len(back) = Len(s) - i /\ \A j \in 1..Len(s) - i : back[j] = s[i + j]
  BY <1>2, <1>3
<1> HIDE DEF front, back
<1>6. /\ front \o back \in Seq(S) /\ Len(front \o back) = Len(s) - 1
      /\ \A j \in 1..Len(s) - 1 : (front \o back)[j] = IF j <= i - 1 THEN front[j] ELSE back[j - (i - 1)]
  <2>1. /\ front \o back \in Seq(S) /\ Len(front \o back) = Len(front) + Len(back)
        /\ \A j \in 1..Len(front) + Len(back) :
             (front \o back)[j] = IF j <= Len(front) THEN front[j] ELSE back[j - Len(front)]
    BY <1>5, ConcatProperties
  <2>2. Len(front) = i - 1 /\ Len(front) + Len(back) = Len(s) - 1
    BY <1>1, <1>5
  <2> QED
    BY <2>1, <2>2
<1>7. ASSUME NEW j \in 1..Len(s) - 1
      PROVE  (front \o back)[j] = IF j < i THEN s[j] ELSE s[j + 1]
  <2>1. CASE j < i
    BY <1>1, <1>5, <1>6, <2>1
  <2>2. CASE ~(j < i)
    <3>1. j - (i - 1) \in 1..Len(s) - i /\ i + (j - (i - 1)) = j + 1
      BY <1>1, <2>2
    <3> QED
      BY <1>1, <1>5, <1>6, <2>2, <3>1
  <2> QED
    BY <2>1, <2>2
<1> QED
  BY <1>4, <1>6, <1>7

LEMMA Inserted ==
  ASSUME NEW S, NEW s \in Seq(S), NEW e \in S, NEW i \in 1..Len(s) + 1
  PROVE  /\ Bench!InsertAt(s, i, e) \in Seq(S)
         /\ Len(Bench!InsertAt(s, i, e)) = Len(s) + 1
         /\ \A j \in 1..Len(s) + 1 :
              Bench!InsertAt(s, i, e)[j] = IF j < i THEN s[j] ELSE IF j = i THEN e ELSE s[j - 1]
<1>1. Len(s) \in Nat /\ DOMAIN s = 1..Len(s)
  BY LenProperties
<1>2. /\ SubSeq(s, 1, i - 1) \in Seq(S) /\ Len(SubSeq(s, 1, i - 1)) = i - 1
      /\ \A j \in 1..i - 1 : SubSeq(s, 1, i - 1)[j] = s[j]
  BY <1>1, SubSeqProperties
<1>3. /\ SubSeq(s, i, Len(s)) \in Seq(S) /\ Len(SubSeq(s, i, Len(s))) = Len(s) - i + 1
      /\ \A j \in 1..Len(s) - i + 1 : SubSeq(s, i, Len(s))[j] = s[i + j - 1]
  BY <1>1, SubSeqProperties
<1>4. <<e>> \in Seq(S) /\ Len(<<e>>) = 1 /\ <<e>>[1] = e
  OBVIOUS
<1> DEFINE front == SubSeq(s, 1, i - 1) \o <<e>>
<1>5. /\ front \in Seq(S) /\ Len(front) = i
      /\ \A j \in 1..i : front[j] = IF j < i THEN s[j] ELSE e
  BY <1>1, <1>2, <1>4, ConcatProperties
<1>6. Bench!InsertAt(s, i, e) = front \o SubSeq(s, i, Len(s))
  BY DEF Bench!InsertAt
<1> DEFINE back == SubSeq(s, i, Len(s))
<1>7. /\ back \in Seq(S) /\ Len(back) = Len(s) - i + 1
      /\ \A j \in 1..Len(s) - i + 1 : back[j] = s[i + j - 1]
  BY <1>3
<1> HIDE DEF front, back
<1>8. /\ front \o back \in Seq(S) /\ Len(front \o back) = Len(s) + 1
      /\ \A j \in 1..Len(s) + 1 : (front \o back)[j] = IF j <= i THEN front[j] ELSE back[j - i]
  <2>1. /\ front \o back \in Seq(S) /\ Len(front \o back) = Len(front) + Len(back)
        /\ \A j \in 1..Len(front) + Len(back) :
             (front \o back)[j] = IF j <= Len(front) THEN front[j] ELSE back[j - Len(front)]
    BY <1>5, <1>7, ConcatProperties
  <2>2. Len(front) = i /\ Len(front) + Len(back) = Len(s) + 1
    BY <1>1, <1>5, <1>7
  <2> QED
    BY <2>1, <2>2
<1>9. ASSUME NEW j \in 1..Len(s) + 1
      PROVE  (front \o back)[j] = IF j < i THEN s[j] ELSE IF j = i THEN e ELSE s[j - 1]
  <2>1. CASE j <= i
    BY <1>1, <1>5, <1>8, <2>1
  <2>2. CASE j > i
    <3>1. j - i \in 1..Len(s) - i + 1 /\ i + (j - i) - 1 = j - 1
      BY <1>1, <2>2
    <3>2. (front \o back)[j] = back[j - i]
      BY <1>1, <1>8, <2>2
    <3>3. back[j - i] = s[j - 1]
      BY <1>7, <3>1
    <3> QED
      BY <1>1, <2>2, <3>2, <3>3
  <2>3. j <= i \/ j > i
    BY <1>1
  <2> QED
    BY <2>1, <2>2, <2>3, Zenon
<1>10. Bench!InsertAt(s, i, e) = front \o back
  BY <1>6 DEF back
<1> QED
  BY <1>8, <1>9, <1>10

-----------------------------------------------------------------------------
(***************************************************************************)
(* The panes of a layout.  A place is a number in the tree, or 0: the      *)
(* dock.  Panes have different ids and no tab in common, ids are below the *)
(* counter, and a pane shows one of its tabs unless they were renamed.     *)
(***************************************************************************)
Places(m, d) == DOMAIN m \cup (IF d = NoPane THEN {} ELSE {0})
At(m, d, p) == IF p = 0 THEN d ELSE m[p]

GoodPane(pane, n) ==
  /\ pane.tabs # <<>> /\ pane.id <= n
  /\ \A i \in DOMAIN pane.tabs : pane.tabs[i].id <= n
  /\ \A i, j \in DOMAIN pane.tabs : pane.tabs[i].id = pane.tabs[j].id => i = j

Apart(a, b) ==
  /\ a.id # b.id
  /\ \A i \in DOMAIN a.tabs, j \in DOMAIN b.tabs : a.tabs[i].id # b.tabs[j].id

ShowsOwn(pane) == \E i \in DOMAIN pane.tabs : pane.tabs[i].id = pane.active

PanesApart(m, d, n) ==
  /\ m \in Seq(Bench!Pane) /\ d \in Bench!Pane \cup {NoPane}
  /\ \A p \in Places(m, d) : GoodPane(At(m, d, p), n)
  /\ \A p, q \in Places(m, d) : p # q => Apart(At(m, d, p), At(m, d, q))

Showing(m, d, u) ==
  \A p \in Places(m, d) : At(m, d, p).id \notin u => ShowsOwn(At(m, d, p))

BenchInv ==
  /\ counter \in 0..MaxIds /\ kept \subseteq Bench!Tab
  /\ PanesApart(main, dock, counter)
  /\ Showing(main, dock, unsplit)
  /\ \E i \in DOMAIN main : main[i].id = focused

LEMMA PlacesArePanes ==
  ASSUME NEW m \in Seq(Bench!Pane), NEW d \in Bench!Pane \cup {NoPane}
  PROVE  /\ \A p \in Places(m, d) : At(m, d, p) \in Bench!Pane /\ p \in Nat
         /\ \A p \in DOMAIN m : p # 0 /\ p \in Places(m, d) /\ At(m, d, p) = m[p]
<1>1. Len(m) \in Nat /\ DOMAIN m = 1..Len(m) /\ \A p \in 1..Len(m) : m[p] \in Bench!Pane
  BY LenProperties, ElementOfSeq
<1> QED
  BY <1>1 DEF Places, At

LEMMA PaneTypes ==
  ASSUME NEW pane \in Bench!Pane
  PROVE  /\ pane.id \in Nat /\ pane.tabs \in Seq(Bench!Tab) /\ Len(pane.tabs) \in Nat
         /\ DOMAIN pane.tabs = 1..Len(pane.tabs)
         /\ \A i \in DOMAIN pane.tabs : pane.tabs[i] \in Bench!Tab /\ pane.tabs[i].id \in 1..MaxIds
<1>1. pane.tabs \in Seq(Bench!Tab) /\ pane.id \in Nat
  BY PanesBounds DEF Bench!Pane, Bench!Ids
<1>2. Len(pane.tabs) \in Nat /\ DOMAIN pane.tabs = 1..Len(pane.tabs)
  BY <1>1, LenProperties
<1>3. \A i \in DOMAIN pane.tabs : pane.tabs[i] \in Bench!Tab
  BY <1>1, <1>2, ElementOfSeq
<1> QED
  BY <1>1, <1>2, <1>3 DEF Bench!Tab, Bench!Ids

\* What a control names is at a place.
LEMMA PaneHasPlace ==
  ASSUME BenchInv, NEW pane \in Bench!Panes
  PROVE  \E p \in Places(main, dock) : pane = At(main, dock, p)
<1>1. main \in Seq(Bench!Pane) /\ dock \in Bench!Pane \cup {NoPane}
  BY DEF BenchInv, PanesApart
<1>2. CASE pane \in Bench!Range(main)
  BY <1>1, <1>2, PlacesArePanes DEF Bench!Range
<1>3. CASE pane \in {dock} \ {NoPane}
  BY <1>3 DEF Places, At
<1> QED
  BY <1>2, <1>3 DEF Bench!Panes

\* replaceNode changes the pane of that id and no other.
LEMMA PutReplaces ==
  ASSUME BenchInv, NEW p \in Places(main, dock), NEW new \in Bench!Pane,
         new.id = At(main, dock, p).id, Bench!Put(new)
  PROVE  /\ main' \in Seq(Bench!Pane) /\ dock' \in Bench!Pane \cup {NoPane}
         /\ Places(main, dock)' = Places(main, dock) /\ DOMAIN main' = DOMAIN main
         /\ At(main', dock', p) = new
         /\ \A q \in Places(main, dock) : q # p => At(main', dock', q) = At(main, dock, q)
<1>1. /\ main \in Seq(Bench!Pane) /\ dock \in Bench!Pane \cup {NoPane}
      /\ \A q \in Places(main, dock) : q # p => At(main, dock, q).id # new.id
  BY DEF BenchInv, PanesApart, Apart
<1>2. Len(main) \in Nat /\ DOMAIN main = 1..Len(main) /\ \A q \in 1..Len(main) : main[q] \in Bench!Pane
  BY <1>1, LenProperties, ElementOfSeq
<1>3. CASE p = 0
  <2>1. dock # NoPane /\ dock.id = new.id
    BY <1>2, <1>3 DEF Places, At
  <2>2. dock' = new /\ main' = main
    BY <2>1 DEF Bench!Put
  <2> QED
    BY <1>1, <1>2, <1>3, <2>1, <2>2, PanesBounds DEF Places, At
<1>4. CASE p # 0
  <2>1. p \in DOMAIN main /\ (dock # NoPane => dock.id # new.id)
    BY <1>1, <1>4 DEF Places, At
  <2>2. main' = [i \in DOMAIN main |-> IF main[i].id = new.id THEN new ELSE main[i]] /\ dock' = dock
    BY <2>1 DEF Bench!Put
  <2>3. main' \in [1..Len(main) -> Bench!Pane]
    BY <1>2, <2>2
  <2>4. main' \in Seq(Bench!Pane)
    BY <1>2, <2>3, SeqDef
  <2>5. \A i \in DOMAIN main : main'[i] = IF i = p THEN new ELSE main[i]
    BY <1>1, <1>2, <1>4, <2>1, <2>2 DEF Places, At
  <2> QED
    BY <1>1, <1>2, <1>4, <2>1, <2>2, <2>4, <2>5 DEF Places, At
<1> QED
  BY <1>3, <1>4

\* A pane whose new tabs are its old ones or fresh
LEMMA ReplacedStays ==
  ASSUME BenchInv, NEW p \in Places(main, dock), NEW new \in Bench!Pane,
         Bench!Put(new), new.id = At(main, dock, p).id,
         counter' \in 0..MaxIds, counter <= counter', GoodPane(new, counter'),
         \A j \in DOMAIN new.tabs :
            new.tabs[j].id > counter
            \/ \E i \in DOMAIN At(main, dock, p).tabs : At(main, dock, p).tabs[i].id = new.tabs[j].id,
         UNCHANGED <<focused, kept>>, unsplit \ {new.id} \subseteq unsplit',
         new.id \notin unsplit' => ShowsOwn(new)
  PROVE  BenchInv'
<1> DEFINE old == At(main, dock, p)
<1>1. /\ main' \in Seq(Bench!Pane) /\ dock' \in Bench!Pane \cup {NoPane}
      /\ Places(main', dock') = Places(main, dock) /\ DOMAIN main' = DOMAIN main
      /\ At(main', dock', p) = new
      /\ \A q \in Places(main, dock) : q # p => At(main', dock', q) = At(main, dock, q)
  BY PutReplaces DEF Places
<1>2. /\ \A q \in Places(main, dock) : GoodPane(At(main, dock, q), counter) /\ At(main, dock, q) \in Bench!Pane
      /\ \A q, r \in Places(main, dock) : q # r => Apart(At(main, dock, q), At(main, dock, r))
      /\ counter \in 0..MaxIds
  BY PlacesArePanes DEF BenchInv, PanesApart
<1>3. \A q \in Places(main, dock) : GoodPane(At(main', dock', q), counter')
  <2> TAKE q \in Places(main, dock)
  <2>1. CASE q = p
    BY <1>1, <2>1
  <2>2. CASE q # p
    <3> DEFINE pane == At(main, dock, q)
    <3>1. /\ GoodPane(pane, counter) /\ pane.id \in Nat /\ \A i \in DOMAIN pane.tabs : pane.tabs[i].id \in Nat
      BY <1>2, PaneTypes
    <3> HIDE DEF pane
    <3>2. GoodPane(pane, counter')
      BY <3>1, <1>2 DEF GoodPane
    <3> QED
      BY <1>1, <2>2, <3>2 DEF pane
  <2> QED
    BY <2>1, <2>2
<1>4. ASSUME NEW q \in Places(main, dock), q # p
      PROVE  Apart(At(main, dock, q), new) /\ Apart(new, At(main, dock, q))
  <2> DEFINE pane == At(main, dock, q)
  <2>1. Apart(pane, old) /\ GoodPane(pane, counter)
    BY <1>2, <1>4
  <2>2. \A i \in DOMAIN pane.tabs : pane.tabs[i].id \in Nat /\ pane.tabs[i].id <= counter
    BY <1>2, <2>1, PaneTypes DEF GoodPane
  <2>3. \A j \in DOMAIN new.tabs : new.tabs[j].id \in Nat
    BY PaneTypes
  <2>4. \A i \in DOMAIN pane.tabs, j \in DOMAIN new.tabs : pane.tabs[i].id # new.tabs[j].id
    BY <1>2, <2>1, <2>2, <2>3 DEF Apart
  <2> QED
    BY <2>1, <2>4 DEF Apart
<1>5. PanesApart(main', dock', counter')
  <2>1. ASSUME NEW q \in Places(main, dock), NEW r \in Places(main, dock), q # r
        PROVE  Apart(At(main', dock', q), At(main', dock', r))
    <3>1. CASE q = p
      BY <1>1, <1>4, <2>1, <3>1
    <3>2. CASE r = p
      BY <1>1, <1>4, <2>1, <3>2
    <3>3. CASE q # p /\ r # p
      BY <1>1, <1>2, <2>1, <3>3
    <3> QED
      BY <3>1, <3>2, <3>3
  <2> QED
    BY <1>1, <1>3, <2>1 DEF PanesApart
<1>6. Showing(main', dock', unsplit')
  <2>1. ASSUME NEW q \in Places(main, dock), At(main', dock', q).id \notin unsplit'
        PROVE  ShowsOwn(At(main', dock', q))
    <3>1. CASE q = p
      BY <1>1, <2>1, <3>1
    <3>2. CASE q # p
      <4>1. At(main, dock, q).id # new.id
        BY <1>4, <3>2 DEF Apart
      <4>2. At(main, dock, q).id \notin unsplit
        BY <1>1, <2>1, <3>2, <4>1
      <4> QED
        BY <1>1, <3>2, <4>2 DEF BenchInv, Showing
    <3> QED
      BY <3>1, <3>2
  <2> QED
    BY <1>1, <2>1 DEF Showing
<1>7. \E i \in DOMAIN main' : main'[i].id = focused'
  <2>1. PICK i \in DOMAIN main : main[i].id = focused
    BY DEF BenchInv
  <2>2. /\ i \in Places(main, dock) /\ i # 0 /\ At(main, dock, i) = main[i]
        /\ At(main', dock', i) = main'[i]
    BY <1>1, PlacesArePanes DEF BenchInv, PanesApart
  <2>3. main'[i].id = main[i].id
    BY <1>1, <2>2
  <2> QED
    BY <1>1, <2>1, <2>3
<1> QED
  BY <1>5, <1>6, <1>7 DEF BenchInv

\* A control gives a pane other tabs, or another active tab.
LEMMA PutTabsStays ==
  ASSUME BenchInv, NEW pane \in Bench!Panes, NEW tabs \in Seq(Bench!Tab), NEW chosen \in Bench!Ids,
         Bench!PutTabs(pane, tabs, chosen), tabs # <<>>,
         counter' \in 0..MaxIds, counter <= counter',
         \A i \in DOMAIN tabs : tabs[i].id <= counter',
         \A i, j \in DOMAIN tabs : tabs[i].id = tabs[j].id => i = j,
         \A j \in DOMAIN tabs :
            tabs[j].id > counter \/ \E i \in DOMAIN pane.tabs : pane.tabs[i].id = tabs[j].id,
         UNCHANGED <<focused, kept>>, unsplit \ {pane.id} \subseteq unsplit',
         pane.id \notin unsplit' => \E i \in DOMAIN tabs : tabs[i].id = chosen
  PROVE  BenchInv'
<1>1. PICK p \in Places(main, dock) : pane = At(main, dock, p)
  BY PaneHasPlace
<1>2. pane \in Bench!Pane /\ GoodPane(pane, counter) /\ counter \in 0..MaxIds
  BY <1>1, PlacesArePanes DEF BenchInv, PanesApart
<1> DEFINE new == [pane EXCEPT !.tabs = tabs, !.active = chosen]
<1>3. /\ new \in Bench!Pane /\ new.id = pane.id /\ new.tabs = tabs /\ new.active = chosen
  BY <1>2 DEF Bench!Pane
<1>4. Bench!Put(new)
  BY DEF Bench!PutTabs
<1> HIDE DEF new
<1>5. GoodPane(new, counter')
  BY <1>2, <1>3, PaneTypes DEF GoodPane
<1>6. new.id \notin unsplit' => ShowsOwn(new)
  BY <1>3 DEF ShowsOwn
<1> QED
  BY <1>1, <1>3, <1>4, <1>5, <1>6, ReplacedStays

\* What a control of a tab names
LEMMA TabHasPlace ==
  ASSUME BenchInv, NEW pane \in Bench!Panes, NEW tab \in Bench!Range(pane.tabs)
  PROVE  /\ pane \in Bench!Pane /\ GoodPane(pane, counter) /\ tab \in Bench!Tab
         /\ Bench!Index(pane, tab) \in DOMAIN pane.tabs /\ pane.tabs[Bench!Index(pane, tab)] = tab
         /\ pane.id \notin unsplit => ShowsOwn(pane)
<1>1. PICK p \in Places(main, dock) : pane = At(main, dock, p)
  BY PaneHasPlace
<1>2. pane \in Bench!Pane /\ GoodPane(pane, counter) /\ (pane.id \notin unsplit => ShowsOwn(pane))
  BY <1>1, PlacesArePanes DEF BenchInv, PanesApart, Showing
<1>3. PICK i \in DOMAIN pane.tabs : pane.tabs[i] = tab
  BY DEF Bench!Range
<1>4. tab \in Bench!Tab
  BY <1>2, <1>3, PaneTypes
<1>5. Bench!Index(pane, tab) \in DOMAIN pane.tabs /\ pane.tabs[Bench!Index(pane, tab)] = tab
  BY <1>3 DEF Bench!Index
<1> QED
  BY <1>2, <1>4, <1>5

LEMMA SetActiveTabStays ==
  ASSUME BenchInv, NEW pane \in Bench!Panes, NEW tab \in Bench!Range(pane.tabs),
         Bench!SetActiveTab(pane, tab)
  PROVE  BenchInv'
<1>1. /\ pane \in Bench!Pane /\ GoodPane(pane, counter) /\ tab \in Bench!Tab
      /\ \E i \in DOMAIN pane.tabs : pane.tabs[i] = tab
  BY TabHasPlace
<1>2. pane.tabs \in Seq(Bench!Tab) /\ tab.id \in Bench!Ids
  BY <1>1 DEF Bench!Pane, Bench!Tab
<1>3. /\ Bench!PutTabs(pane, pane.tabs, tab.id) /\ unsplit' = unsplit \ {pane.id}
      /\ UNCHANGED <<focused, kept, counter>>
  BY DEF Bench!SetActiveTab, Bench!Same
<1>4. counter \in 0..MaxIds /\ counter <= counter
  BY PanesBounds DEF BenchInv
<1>5. /\ pane.tabs # <<>> /\ \A i \in DOMAIN pane.tabs : pane.tabs[i].id <= counter
      /\ \A i, j \in DOMAIN pane.tabs : pane.tabs[i].id = pane.tabs[j].id => i = j
      /\ \E i \in DOMAIN pane.tabs : pane.tabs[i].id = tab.id
  BY <1>1 DEF GoodPane
<1> QED
  BY <1>2, <1>3, <1>4, <1>5, PutTabsStays

LEMMA CloseTabStays ==
  ASSUME BenchInv, NEW pane \in Bench!Panes, NEW tab \in Bench!Range(pane.tabs),
         Bench!CloseTab(pane, tab)
  PROVE  BenchInv'
<1> DEFINE k == Bench!Index(pane, tab)
<1>1. /\ pane \in Bench!Pane /\ GoodPane(pane, counter) /\ tab \in Bench!Tab
      /\ k \in DOMAIN pane.tabs /\ pane.tabs[k] = tab /\ (pane.id \notin unsplit => ShowsOwn(pane))
  BY TabHasPlace
<1>2. /\ pane.tabs \in Seq(Bench!Tab) /\ Len(pane.tabs) \in Nat /\ DOMAIN pane.tabs = 1..Len(pane.tabs)
      /\ \A i \in DOMAIN pane.tabs : pane.tabs[i] \in Bench!Tab /\ pane.tabs[i].id \in 1..MaxIds
      /\ pane.active \in Bench!Ids /\ counter \in 0..MaxIds /\ MaxIds \in Nat
  BY <1>1, PaneTypes, PanesBounds DEF BenchInv, Bench!Pane
<1>3. UNCHANGED <<focused, kept, unsplit>>
  BY DEF Bench!CloseTab, Bench!Kept
<1>4. CASE Len(pane.tabs) = 1
  <2> DEFINE tabs == <<Bench!EmptyTab(counter + 1)>>
  <2>1. counter + 1 <= MaxIds /\ counter' = counter + 1 /\ Bench!PutTabs(pane, tabs, counter + 1)
    BY <1>4 DEF Bench!CloseTab, Bench!Fresh
  <2>2. counter + 1 \in Bench!Ids /\ counter' \in 0..MaxIds /\ counter <= counter'
    BY <1>2, <2>1 DEF Bench!Ids
  <2>3. Bench!EmptyTab(counter + 1) \in Bench!Tab /\ Bench!EmptyTab(counter + 1).id = counter + 1
    BY <2>2 DEF Bench!EmptyTab, Bench!NewTab, Bench!Tab
  <2>4. tabs \in Seq(Bench!Tab) /\ DOMAIN tabs = {1} /\ tabs[1].id = counter + 1 /\ tabs # <<>>
    BY <2>3
  <2>5. /\ \A i \in DOMAIN tabs : tabs[i].id <= counter' /\ tabs[i].id > counter
        /\ \A i, j \in DOMAIN tabs : tabs[i].id = tabs[j].id => i = j
        /\ \E i \in DOMAIN tabs : tabs[i].id = counter + 1
    BY <1>2, <2>1, <2>4
  <2> HIDE DEF tabs
  <2> QED
    BY <1>3, <2>1, <2>2, <2>4, <2>5, PutTabsStays
<1>5. CASE Len(pane.tabs) # 1
  <2> DEFINE rest == Bench!Without(pane, tab)
  <2> DEFINE chosen == Bench!ActiveAfter(pane, tab, rest)
  <2>1. counter' = counter /\ Bench!PutTabs(pane, rest, chosen)
    BY <1>5 DEF Bench!CloseTab, Bench!Same
  <2>2. /\ rest \in Seq(Bench!Tab) /\ Len(rest) = Len(pane.tabs) - 1
        /\ \A j \in 1..Len(pane.tabs) - 1 : rest[j] = IF j < k THEN pane.tabs[j] ELSE pane.tabs[j + 1]
    BY <1>1, <1>2, Removed DEF Bench!Without
  <2> HIDE DEF rest
  <2>3. pane.tabs # <<>>
    BY <1>1 DEF GoodPane
  <2>4. Len(rest) >= 1 /\ DOMAIN rest = 1..Len(rest) /\ rest # <<>>
    <3>1. Len(pane.tabs) # 0
      BY <1>2, <2>3, EmptySeq
    <3>2. Len(rest) >= 1
      <4>1. \A n \in Nat : n # 0 /\ n # 1 => n - 1 >= 1
        OBVIOUS
      <4> QED
        BY <1>2, <1>5, <2>2, <3>1, <4>1, Zenon
    <3>3. DOMAIN rest = 1..Len(rest)
      BY <2>2, LenProperties
    <3>4. rest # <<>>
      BY <2>2, <3>2, EmptySeq
    <3> QED
      BY <3>2, <3>3, <3>4
  <2>5. chosen = IF pane.active = tab.id THEN rest[Len(rest)].id ELSE pane.active
    BY DEF Bench!ActiveAfter, Bench!Last
  <2> HIDE DEF chosen
  <2>6. ASSUME NEW j \in DOMAIN rest
        PROVE  rest[j] = pane.tabs[IF j < k THEN j ELSE j + 1] /\ (IF j < k THEN j ELSE j + 1) \in DOMAIN pane.tabs
    BY <1>1, <1>2, <2>2, <2>4
  <2>7. \A j \in DOMAIN rest : /\ rest[j].id <= counter' /\ rest[j].id \in Bench!Ids
                               /\ \E i \in DOMAIN pane.tabs : pane.tabs[i].id = rest[j].id
    BY <1>1, <1>2, <2>1, <2>6 DEF GoodPane, Bench!Ids
  <2>8. ASSUME NEW i \in DOMAIN rest, NEW j \in DOMAIN rest, rest[i].id = rest[j].id
        PROVE  i = j
    <3>1. (IF i < k THEN i ELSE i + 1) = (IF j < k THEN j ELSE j + 1)
      BY <1>1, <2>6, <2>8 DEF GoodPane
    <3> QED
      BY <1>1, <1>2, <2>4, <3>1
  <2>9. chosen \in Bench!Ids
    BY <1>2, <2>4, <2>5, <2>7
  <2>10. ASSUME pane.id \notin unsplit
         PROVE  \E j \in DOMAIN rest : rest[j].id = chosen
    <3>1. CASE pane.active = tab.id
      BY <2>4, <2>5, <3>1
    <3>2. CASE pane.active # tab.id
      <4>1. PICK i \in DOMAIN pane.tabs : pane.tabs[i].id = pane.active
        BY <1>1, <2>10 DEF ShowsOwn
      <4>2. i # k
        BY <1>1, <3>2, <4>1
      <4> DEFINE j == IF i < k THEN i ELSE i - 1
      <4>3. j \in DOMAIN rest /\ (IF j < k THEN j ELSE j + 1) = i
        BY <1>1, <1>2, <2>2, <2>4, <4>2
      <4> QED
        BY <2>5, <2>6, <3>2, <4>1, <4>3
    <3> QED
      BY <3>1, <3>2
  <2>11. counter' \in 0..MaxIds /\ counter <= counter'
    BY <1>2, <2>1
  <2> QED
    BY <1>3, <2>1, <2>2, <2>4, <2>7, <2>8, <2>9, <2>10, <2>11, PutTabsStays
<1> QED
  BY <1>4, <1>5

LEMMA AddTabStays ==
  ASSUME BenchInv, NEW pane \in Bench!Panes, NEW view \in {"empty", "terminal"},
         NEW run \in Runs \cup {NoRun}, Bench!AddTab(pane, view, run)
  PROVE  BenchInv'
<1>0. PICK p \in Places(main, dock) : pane = At(main, dock, p)
  BY PaneHasPlace
<1>1. /\ pane \in Bench!Pane /\ GoodPane(pane, counter)
      /\ pane.tabs \in Seq(Bench!Tab) /\ Len(pane.tabs) \in Nat /\ DOMAIN pane.tabs = 1..Len(pane.tabs)
      /\ \A i \in DOMAIN pane.tabs : pane.tabs[i] \in Bench!Tab /\ pane.tabs[i].id \in 1..MaxIds
      /\ counter \in 0..MaxIds /\ MaxIds \in Nat
  BY <1>0, PlacesArePanes, PaneTypes, PanesBounds DEF BenchInv, PanesApart
<1> DEFINE new == [id |-> counter + 1, view |-> view, run |-> run]
           tabs == Append(pane.tabs, new)
<1>2. /\ counter + 1 <= MaxIds /\ counter' = counter + 1 /\ Bench!PutTabs(pane, tabs, counter + 1)
      /\ unsplit' = unsplit \ {pane.id} /\ UNCHANGED <<focused, kept>>
  BY DEF Bench!AddTab, Bench!Fresh
<1>3. counter + 1 \in Bench!Ids /\ counter' \in 0..MaxIds /\ counter <= counter'
  BY <1>1, <1>2 DEF Bench!Ids
<1>4. new \in Bench!Tab /\ new.id = counter + 1
  BY <1>3 DEF Bench!Tab
<1> HIDE DEF new
<1>5. /\ tabs \in Seq(Bench!Tab) /\ Len(tabs) = Len(pane.tabs) + 1
      /\ \A i \in 1..Len(pane.tabs) : tabs[i] = pane.tabs[i]
      /\ tabs[Len(pane.tabs) + 1] = new
  BY <1>1, <1>4, AppendProperties
<1> HIDE DEF tabs
<1>6. DOMAIN tabs = 1..Len(pane.tabs) + 1 /\ tabs # <<>>
  <2>1. DOMAIN tabs = 1..Len(tabs)
    BY <1>5, LenProperties
  <2>2. 1 \in DOMAIN tabs
    BY <1>1, <1>5, <2>1
  <2> QED
    BY <1>5, <2>1, <2>2
<1>7. \A i \in DOMAIN tabs : \/ (i \in DOMAIN pane.tabs /\ tabs[i] = pane.tabs[i] /\ tabs[i].id <= counter)
                             \/ (i = Len(pane.tabs) + 1 /\ tabs[i].id = counter + 1)
  BY <1>1, <1>4, <1>5, <1>6 DEF GoodPane
<1>8. \A i \in DOMAIN tabs : tabs[i].id <= counter'
  BY <1>1, <1>2, <1>7
<1>9. \A i, j \in DOMAIN tabs : tabs[i].id = tabs[j].id => i = j
  BY <1>1, <1>7 DEF GoodPane
<1>10. \A j \in DOMAIN tabs :
         tabs[j].id > counter \/ \E i \in DOMAIN pane.tabs : pane.tabs[i].id = tabs[j].id
  BY <1>1, <1>7
<1>11. \E i \in DOMAIN tabs : tabs[i].id = counter + 1
  BY <1>1, <1>4, <1>5, <1>6
<1> QED
  BY <1>2, <1>3, <1>5, <1>6, <1>8, <1>9, <1>10, <1>11, PutTabsStays

LEMMA ReorderTabsStays ==
  ASSUME BenchInv, NEW pane \in Bench!Panes, NEW tab \in Bench!Range(pane.tabs),
         NEW tgt \in Bench!Range(pane.tabs), Bench!ReorderTabs(pane, tab, tgt)
  PROVE  BenchInv'
<1> DEFINE k == Bench!Index(pane, tab)  t == Bench!Index(pane, tgt)
<1>1. /\ pane \in Bench!Pane /\ GoodPane(pane, counter) /\ tab \in Bench!Tab
      /\ k \in DOMAIN pane.tabs /\ pane.tabs[k] = tab /\ t \in DOMAIN pane.tabs
      /\ (pane.id \notin unsplit => ShowsOwn(pane))
  BY TabHasPlace
<1>2. /\ pane.tabs \in Seq(Bench!Tab) /\ Len(pane.tabs) \in Nat /\ DOMAIN pane.tabs = 1..Len(pane.tabs)
      /\ pane.active \in Bench!Ids /\ counter \in 0..MaxIds /\ MaxIds \in Nat
  BY <1>1, PaneTypes, PanesBounds DEF BenchInv, Bench!Pane
<1> DEFINE rest == Bench!Without(pane, tab)
<1> DEFINE tabs == Bench!InsertAt(rest, t, tab)
<1>3. Bench!PutTabs(pane, tabs, pane.active) /\ UNCHANGED <<focused, kept, unsplit, counter>>
  BY DEF Bench!ReorderTabs, Bench!Same, Bench!Kept
<1>4. /\ rest \in Seq(Bench!Tab) /\ Len(rest) = Len(pane.tabs) - 1
      /\ \A j \in 1..Len(pane.tabs) - 1 : rest[j] = IF j < k THEN pane.tabs[j] ELSE pane.tabs[j + 1]
  BY <1>1, <1>2, Removed DEF Bench!Without
<1> HIDE DEF rest, k, t
<1>5. t \in 1..Len(rest) + 1 /\ Len(rest) + 1 = Len(pane.tabs)
  BY <1>1, <1>2, <1>4
<1>6. /\ tabs \in Seq(Bench!Tab) /\ Len(tabs) = Len(rest) + 1
      /\ \A j \in 1..Len(rest) + 1 :
           tabs[j] = IF j < t THEN rest[j] ELSE IF j = t THEN tab ELSE rest[j - 1]
  BY <1>1, <1>4, <1>5, Inserted
<1> HIDE DEF tabs
<1>7. DOMAIN tabs = DOMAIN pane.tabs /\ tabs # <<>>
  <2>1. DOMAIN tabs = 1..Len(tabs) /\ Len(tabs) = Len(pane.tabs)
    BY <1>5, <1>6, LenProperties
  <2>2. Len(pane.tabs) # 0
    BY <1>1, <1>2
  <2> QED
    BY <1>2, <1>6, <2>1, <2>2, EmptySeq
\* where the j-th tab was
<1> DEFINE Rest(j) == IF j < k THEN j ELSE j + 1
<1> DEFINE Was(j) == IF j = t THEN k ELSE IF j < t THEN Rest(j) ELSE Rest(j - 1)
<1>8. ASSUME NEW j \in DOMAIN tabs
      PROVE  Was(j) \in DOMAIN pane.tabs /\ tabs[j] = pane.tabs[Was(j)]
  <2>1. CASE j = t
    BY <1>1, <1>2, <1>5, <1>6, <1>7, <2>1
  <2>2. CASE j < t
    <3>1. j \in 1..Len(pane.tabs) - 1 /\ j \in 1..Len(rest) + 1
      BY <1>1, <1>2, <1>5, <1>7, <2>2
    <3>2. tabs[j] = rest[j] /\ rest[j] = pane.tabs[Rest(j)]
      BY <1>2, <1>4, <1>5, <1>6, <2>2, <3>1
    <3>3. Was(j) = Rest(j) /\ Rest(j) \in DOMAIN pane.tabs
      BY <1>1, <1>2, <2>2, <3>1
    <3> QED
      BY <3>2, <3>3
  <2>3. CASE j > t
    <3>1. j - 1 \in 1..Len(pane.tabs) - 1 /\ j \in 1..Len(rest) + 1
      BY <1>1, <1>2, <1>5, <1>7, <2>3
    <3>2. tabs[j] = rest[j - 1]
      BY <1>2, <1>5, <1>6, <2>3, <3>1
    <3>3. rest[j - 1] = pane.tabs[Rest(j - 1)]
      BY <1>2, <1>4, <3>1
    <3>4. Was(j) = Rest(j - 1) /\ Rest(j - 1) \in DOMAIN pane.tabs
      BY <1>1, <1>2, <2>3, <3>1
    <3> QED
      BY <3>2, <3>3, <3>4
  <2>4. j = t \/ j < t \/ j > t
    BY <1>2, <1>5, <1>7
  <2> QED
    BY <2>1, <2>2, <2>3, <2>4
<1>9. ASSUME NEW i \in DOMAIN tabs, NEW j \in DOMAIN tabs, Was(i) = Was(j)
      PROVE  i = j
  BY <1>1, <1>2, <1>5, <1>7, <1>9
<1>10. ASSUME NEW i \in DOMAIN pane.tabs
       PROVE  \E j \in DOMAIN tabs : Was(j) = i
  <2> DEFINE r == IF i < k THEN i ELSE i - 1
  <2> DEFINE j == IF i = k THEN t ELSE IF r < t THEN r ELSE r + 1
  <2>1. j \in DOMAIN tabs /\ Was(j) = i
    BY <1>1, <1>2, <1>5, <1>7
  <2> QED
    BY <2>1
<1> HIDE DEF Was, Rest
<1>11. /\ \A j \in DOMAIN tabs : tabs[j].id <= counter /\ \E i \in DOMAIN pane.tabs : pane.tabs[i].id = tabs[j].id
       /\ \A i, j \in DOMAIN tabs : tabs[i].id = tabs[j].id => i = j
  BY <1>1, <1>8, <1>9 DEF GoodPane
<1>12. ASSUME pane.id \notin unsplit
       PROVE  \E j \in DOMAIN tabs : tabs[j].id = pane.active
  <2>1. PICK i \in DOMAIN pane.tabs : pane.tabs[i].id = pane.active
    BY <1>1, <1>12 DEF ShowsOwn
  <2> QED
    BY <1>8, <1>10, <2>1
<1>13. counter' \in 0..MaxIds /\ counter <= counter'
  BY <1>2, <1>3
<1> QED
  BY <1>2, <1>3, <1>6, <1>7, <1>11, <1>12, <1>13, PutTabsStays

LEMMA SetTabViewStays ==
  ASSUME BenchInv, NEW pane \in Bench!Panes, NEW tab \in Bench!Range(pane.tabs),
         NEW view \in {"empty", "terminal"}, NEW run \in Runs \cup {NoRun},
         Bench!SetTabView(pane, tab, view, run)
  PROVE  BenchInv'
<1>1. /\ pane \in Bench!Pane /\ GoodPane(pane, counter) /\ tab \in Bench!Tab
      /\ (pane.id \notin unsplit => ShowsOwn(pane))
  BY TabHasPlace
<1>2. /\ pane.tabs \in Seq(Bench!Tab) /\ Len(pane.tabs) \in Nat /\ DOMAIN pane.tabs = 1..Len(pane.tabs)
      /\ \A i \in DOMAIN pane.tabs : pane.tabs[i] \in Bench!Tab
      /\ pane.active \in Bench!Ids /\ counter \in 0..MaxIds /\ MaxIds \in Nat
  BY <1>1, PaneTypes, PanesBounds DEF BenchInv, Bench!Pane
<1> DEFINE new == [tab EXCEPT !.view = view, !.run = run]
           tabs == [i \in DOMAIN pane.tabs |-> IF pane.tabs[i].id = tab.id THEN new ELSE pane.tabs[i]]
<1>3. Bench!PutTabs(pane, tabs, pane.active) /\ UNCHANGED <<focused, kept, unsplit, counter>>
  BY DEF Bench!SetTabView, Bench!Same, Bench!Kept
<1>4. new \in Bench!Tab /\ new.id = tab.id
  BY <1>1 DEF Bench!Tab
<1> HIDE DEF new
<1>5. tabs \in [1..Len(pane.tabs) -> Bench!Tab]
  BY <1>2, <1>4
<1>6. tabs \in Seq(Bench!Tab) /\ DOMAIN tabs = DOMAIN pane.tabs
  BY <1>2, <1>5, SeqDef
<1>7. \A i \in DOMAIN tabs : tabs[i].id = pane.tabs[i].id
  BY <1>4, <1>6
<1>8. tabs # <<>>
  <2>1. Len(pane.tabs) # 0
    BY <1>1, <1>2, EmptySeq DEF GoodPane
  <2>2. 1 \in DOMAIN tabs
    BY <1>2, <1>6, <2>1
  <2> QED
    BY <2>2
<1> HIDE DEF tabs
<1>9. /\ \A i \in DOMAIN tabs : tabs[i].id <= counter /\ \E j \in DOMAIN pane.tabs : pane.tabs[j].id = tabs[i].id
      /\ \A i, j \in DOMAIN tabs : tabs[i].id = tabs[j].id => i = j
      /\ (pane.id \notin unsplit => \E i \in DOMAIN tabs : tabs[i].id = pane.active)
  BY <1>1, <1>6, <1>7 DEF GoodPane, ShowsOwn
<1>10. counter' \in 0..MaxIds /\ counter <= counter'
  BY <1>2, <1>3
<1> QED
  BY <1>2, <1>3, <1>6, <1>8, <1>9, <1>10, PutTabsStays

-----------------------------------------------------------------------------
(***************************************************************************)
(* Panes made, removed and split: every pane of the new layout is new, or  *)
(* was at the place from[q] of the old one.                                *)
(***************************************************************************)
NewlyMade(pane, n) ==
  /\ GoodPane(pane, n) /\ pane.id > counter
  /\ \A i \in DOMAIN pane.tabs : pane.tabs[i].id > counter

LEMMA Rearranged ==
  ASSUME BenchInv, NEW m \in Seq(Bench!Pane), NEW d \in Bench!Pane \cup {NoPane},
         NEW n \in 0..MaxIds, counter <= n, NEW u, unsplit \subseteq u, NEW was,
         \A q \in Places(m, d) :
           \/ /\ was[q] = -1 /\ NewlyMade(At(m, d, q), n)
              /\ At(m, d, q).id \notin u => ShowsOwn(At(m, d, q))
           \/ was[q] \in Places(main, dock) /\ At(m, d, q) = At(main, dock, was[q]),
         \A q, r \in Places(m, d) : was[q] = was[r] => q = r
  PROVE  PanesApart(m, d, n) /\ Showing(m, d, u)
<1>1. /\ \A q \in Places(main, dock) : GoodPane(At(main, dock, q), counter) /\ At(main, dock, q) \in Bench!Pane
      /\ \A q, r \in Places(main, dock) : q # r => Apart(At(main, dock, q), At(main, dock, r))
      /\ counter \in 0..MaxIds
  BY PlacesArePanes DEF BenchInv, PanesApart
<1>2. \A q \in Places(m, d) : At(m, d, q) \in Bench!Pane
  BY PlacesArePanes
<1>3. ASSUME NEW q \in Places(m, d)
      PROVE  GoodPane(At(m, d, q), n)
  <2>1. CASE NewlyMade(At(m, d, q), n)
    BY <2>1 DEF NewlyMade
  <2>2. CASE was[q] \in Places(main, dock) /\ At(m, d, q) = At(main, dock, was[q])
    <3>1. GoodPane(At(m, d, q), counter) /\ At(m, d, q) \in Bench!Pane
      BY <1>1, <2>2
    <3> DEFINE pane == At(m, d, q)
    <3>2. /\ pane.id \in Nat /\ \A i \in DOMAIN pane.tabs : pane.tabs[i].id \in Nat
      BY <3>1, PaneTypes
    <3> HIDE DEF pane
    <3>3. GoodPane(pane, counter) => GoodPane(pane, n)
      BY <1>1, <3>2 DEF GoodPane
    <3> QED
      BY <3>1, <3>3 DEF pane
  <2> QED
    BY <2>1, <2>2
<1>4. ASSUME NEW a \in Bench!Pane, NEW b \in Bench!Pane, NewlyMade(a, n), GoodPane(b, counter)
      PROVE  Apart(a, b) /\ Apart(b, a)
  <2>1. /\ a.id \in Nat /\ b.id \in Nat
        /\ \A i \in DOMAIN a.tabs : a.tabs[i].id \in Nat
        /\ \A j \in DOMAIN b.tabs : b.tabs[j].id \in Nat
    BY PaneTypes
  <2>2. a.id > counter /\ \A i \in DOMAIN a.tabs : a.tabs[i].id > counter
    BY <1>4 DEF NewlyMade
  <2>3. b.id <= counter /\ \A j \in DOMAIN b.tabs : b.tabs[j].id <= counter
    BY <1>4 DEF GoodPane
  <2> QED
    BY <1>1, <2>1, <2>2, <2>3 DEF Apart
<1>5. ASSUME NEW q \in Places(m, d), NEW r \in Places(m, d), q # r
      PROVE  Apart(At(m, d, q), At(m, d, r))
  <2>1. was[q] # was[r]
    BY <1>5
  <2>2. CASE was[q] \in Places(main, dock) /\ At(m, d, q) = At(main, dock, was[q])
    <3>1. CASE was[r] \in Places(main, dock) /\ At(m, d, r) = At(main, dock, was[r])
      BY <1>1, <2>1, <2>2, <3>1
    <3>2. CASE NewlyMade(At(m, d, r), n)
      BY <1>1, <1>2, <1>4, <2>2, <3>2
    <3> QED
      BY <3>1, <3>2
  <2>3. CASE was[q] = -1 /\ NewlyMade(At(m, d, q), n)
    <3>1. was[r] \in Places(main, dock) /\ At(m, d, r) = At(main, dock, was[r])
      BY <2>1, <2>3
    <3> QED
      BY <1>1, <1>2, <1>4, <2>3, <3>1
  <2> QED
    BY <2>2, <2>3
<1>6. ASSUME NEW q \in Places(m, d), At(m, d, q).id \notin u
      PROVE  ShowsOwn(At(m, d, q))
  BY <1>6 DEF BenchInv, Showing
<1> QED
  BY <1>3, <1>5, <1>6 DEF PanesApart, Showing

\* createEmptyPane
LEMMA NewPaneMade ==
  ASSUME counter \in 0..MaxIds, counter + 2 <= MaxIds, NEW view \in {"empty", "terminal"}
  PROVE  /\ Bench!NewPane(counter + 1, view) \in Bench!Pane
         /\ Bench!NewPane(counter + 1, view).id = counter + 2
         /\ NewlyMade(Bench!NewPane(counter + 1, view), counter + 2)
         /\ ShowsOwn(Bench!NewPane(counter + 1, view))
<1> DEFINE tab == Bench!NewTab(counter + 1, view)
           pane == Bench!NewPane(counter + 1, view)
<1>0. MaxIds \in Nat /\ counter \in Nat
  BY PanesBounds
<1>1. tab \in Bench!Tab /\ tab.id = counter + 1
  BY <1>0 DEF Bench!NewTab, Bench!Tab, Bench!Ids
<1>2. pane.id = counter + 1 + 1 /\ pane.tabs = <<tab>> /\ pane.active = counter + 1
  BY DEF Bench!NewPane
<1>3. <<tab>> \in Seq(Bench!Tab)
  BY <1>1
<1>4. pane \in Bench!Pane
  BY <1>0, <1>3 DEF Bench!NewPane, Bench!Pane, Bench!Ids
<1> HIDE DEF tab, pane
<1>5. DOMAIN pane.tabs = {1} /\ pane.tabs[1] = tab /\ pane.tabs # <<>>
  BY <1>2
<1>6. GoodPane(pane, counter + 2) /\ NewlyMade(pane, counter + 2)
  BY <1>0, <1>1, <1>2, <1>5 DEF NewlyMade, GoodPane
<1>7. ShowsOwn(pane)
  BY <1>1, <1>2, <1>5 DEF ShowsOwn
<1> QED
  BY <1>0, <1>2, <1>4, <1>6, <1>7 DEF pane

LEMMA SplitPaneStays ==
  ASSUME BenchInv, NEW i \in DOMAIN main, NEW view \in {"empty", "terminal"}, Bench!SplitPane(i, view)
  PROVE  BenchInv'
<1> DEFINE new == Bench!NewPane(counter + 1, view)
           m == Bench!InsertAt(main, i + 1, new)
           was == [q \in Nat |-> IF q < i + 1 THEN q ELSE IF q = i + 1 THEN -1 ELSE q - 1]
<1>1. /\ counter + 2 <= MaxIds /\ counter' = counter + 2 /\ main' = m /\ focused' = counter + 2
      /\ UNCHANGED <<dock, kept, unsplit>>
  BY DEF Bench!SplitPane, Bench!Fresh
<1>2. /\ counter \in 0..MaxIds /\ MaxIds \in Nat /\ main \in Seq(Bench!Pane) /\ dock \in Bench!Pane \cup {NoPane}
      /\ Len(main) \in Nat /\ DOMAIN main = 1..Len(main)
  BY PanesBounds, LenProperties DEF BenchInv, PanesApart
<1>3. new \in Bench!Pane /\ new.id = counter + 2 /\ NewlyMade(new, counter + 2) /\ ShowsOwn(new)
  BY <1>1, <1>2, NewPaneMade
<1> HIDE DEF new
<1>4. /\ m \in Seq(Bench!Pane) /\ Len(m) = Len(main) + 1
      /\ \A j \in 1..Len(main) + 1 : m[j] = IF j < i + 1 THEN main[j] ELSE IF j = i + 1 THEN new ELSE main[j - 1]
  <2> DEFINE k == i + 1
  <2>1. k \in 1..Len(main) + 1
    BY <1>2
  <2> HIDE DEF k
  <2>2. /\ Bench!InsertAt(main, k, new) \in Seq(Bench!Pane) /\ Len(Bench!InsertAt(main, k, new)) = Len(main) + 1
        /\ \A j \in 1..Len(main) + 1 :
             Bench!InsertAt(main, k, new)[j] = IF j < k THEN main[j] ELSE IF j = k THEN new ELSE main[j - 1]
    <3>1. main \in Seq(Bench!Pane) /\ new \in Bench!Pane
      BY <1>2, <1>3
    <3> QED
      BY <2>1, <3>1, Inserted
  <2> QED
    BY <2>2 DEF k
<1> HIDE DEF m
<1>5. DOMAIN m = 1..Len(main) + 1
  BY <1>4, LenProperties
<1>6. ASSUME NEW q \in Places(m, dock)
      PROVE  /\ q \in Nat
             /\ \/ was[q] = -1 /\ At(m, dock, q) = new
                \/ was[q] \in Places(main, dock) /\ At(m, dock, q) = At(main, dock, was[q])
  <2>1. CASE q = 0
    <3>1. was[q] = 0 /\ dock # NoPane
      BY <1>2, <1>5, <2>1 DEF Places
    <3> QED
      BY <2>1, <3>1 DEF Places, At
  <2>2. CASE q # 0
    <3>1. q \in 1..Len(main) + 1 /\ At(m, dock, q) = m[q]
      BY <1>5, <2>2 DEF Places, At
    <3>2. CASE q < i + 1
      <4>1. q \in DOMAIN main /\ was[q] = q /\ m[q] = main[q]
        BY <1>2, <1>4, <3>1, <3>2
      <4> QED
        BY <2>2, <3>1, <4>1 DEF Places, At
    <3>3. CASE q = i + 1
      BY <1>2, <1>4, <3>1, <3>3
    <3>4. CASE q > i + 1
      <4>1. q - 1 \in DOMAIN main /\ was[q] = q - 1 /\ m[q] = main[q - 1] /\ q - 1 # 0
        BY <1>2, <1>4, <3>1, <3>4
      <4> QED
        BY <3>1, <4>1 DEF Places, At
    <3> QED
      BY <1>2, <3>1, <3>2, <3>3, <3>4
  <2> QED
    BY <2>1, <2>2
<1>7. \A q, r \in Places(m, dock) : was[q] = was[r] => q = r
  <2>1. \A q, r \in Nat : was[q] = was[r] => q = r
    BY <1>2
  <2> QED
    BY <1>6, <2>1
<1> HIDE DEF was
<1> DEFINE n == counter + 2
<1>8. n \in 0..MaxIds /\ counter <= n
  BY <1>1, <1>2
<1>9. \A q \in Places(m, dock) :
        \/ was[q] = -1 /\ NewlyMade(At(m, dock, q), n) /\ ShowsOwn(At(m, dock, q))
        \/ was[q] \in Places(main, dock) /\ At(m, dock, q) = At(main, dock, was[q])
  BY <1>3, <1>6
<1> HIDE DEF n
<1>10. PanesApart(m, dock, n) /\ Showing(m, dock, unsplit)
  BY <1>2, <1>4, <1>9, <1>7, <1>8, Rearranged
<1>11. \E q \in DOMAIN m : m[q].id = counter + 2
  BY <1>2, <1>3, <1>4, <1>5
<1> QED
  BY <1>1, <1>8, <1>10, <1>11 DEF BenchInv, n

LEMMA RemovePaneStays ==
  ASSUME BenchInv, NEW i \in DOMAIN main, Bench!RemovePane(i)
  PROVE  BenchInv'
<1> DEFINE m == Bench!RemoveAt(main, i)
           was == [q \in Nat |-> IF q < i THEN q ELSE q + 1]
<1>1. /\ Len(main) > 1 /\ main' = m /\ UNCHANGED <<dock, kept, unsplit, counter>>
      /\ focused' = IF main[i].id = focused THEN m[1].id ELSE focused
  BY DEF Bench!RemovePane, Bench!FocusAfter, Bench!Same
<1>2. /\ counter \in 0..MaxIds /\ MaxIds \in Nat /\ main \in Seq(Bench!Pane) /\ dock \in Bench!Pane \cup {NoPane}
      /\ Len(main) \in Nat /\ DOMAIN main = 1..Len(main)
  BY PanesBounds, LenProperties DEF BenchInv, PanesApart
<1>3. /\ m \in Seq(Bench!Pane) /\ Len(m) = Len(main) - 1
      /\ \A j \in 1..Len(main) - 1 : m[j] = IF j < i THEN main[j] ELSE main[j + 1]
  BY <1>2, Removed
<1> HIDE DEF m
<1>4. DOMAIN m = 1..Len(main) - 1
  BY <1>3, LenProperties
<1>5. ASSUME NEW q \in Places(m, dock)
      PROVE  q \in Nat /\ was[q] \in Places(main, dock) /\ At(m, dock, q) = At(main, dock, was[q])
  <2>1. CASE q = 0
    <3>1. was[q] = 0 /\ dock # NoPane
      BY <1>2, <1>4, <2>1 DEF Places
    <3> QED
      BY <2>1, <3>1 DEF Places, At
  <2>2. CASE q # 0
    <3>1. q \in 1..Len(main) - 1 /\ At(m, dock, q) = m[q]
      BY <1>4, <2>2 DEF Places, At
    <3>2. was[q] \in DOMAIN main /\ m[q] = main[was[q]] /\ was[q] # 0
      BY <1>2, <1>3, <3>1
    <3> QED
      BY <3>1, <3>2 DEF Places, At
  <2> QED
    BY <2>1, <2>2
<1>6. \A q, r \in Places(m, dock) : was[q] = was[r] => q = r
  <2>1. \A q, r \in Nat : was[q] = was[r] => q = r
    BY <1>2
  <2> QED
    BY <1>5, <2>1
<1> HIDE DEF was
<1>7. PanesApart(m, dock, counter) /\ Showing(m, dock, unsplit)
  <2>1. counter <= counter
    BY <1>2
  <2> QED
    BY <1>2, <1>3, <1>5, <1>6, <2>1, Rearranged
<1>8. \E j \in DOMAIN m : m[j].id = focused'
  <2>1. CASE main[i].id = focused
    BY <1>1, <1>2, <1>4, <2>1
  <2>2. CASE main[i].id # focused
    <3>1. PICK k \in DOMAIN main : main[k].id = focused
      BY DEF BenchInv
    <3>2. k # i
      BY <2>2, <3>1
    <3> DEFINE j == IF k < i THEN k ELSE k - 1
    <3>3. j \in DOMAIN m /\ m[j] = main[k]
      BY <1>2, <1>3, <1>4, <3>2
    <3> QED
      BY <1>1, <2>2, <3>1, <3>3
  <2> QED
    BY <2>1, <2>2
<1> QED
  BY <1>1, <1>2, <1>7, <1>8 DEF BenchInv

\* The dock is opened or closed.
LEMMA DockStays ==
  ASSUME BenchInv, Bench!AddBottomPane \/ Bench!CloseBottomPane
  PROVE  BenchInv'
<1> DEFINE new == Bench!NewPane(counter + 1, "terminal")
<1>1. /\ counter \in 0..MaxIds /\ MaxIds \in Nat /\ main \in Seq(Bench!Pane) /\ dock \in Bench!Pane \cup {NoPane}
      /\ Len(main) \in Nat /\ DOMAIN main = 1..Len(main)
  BY PanesBounds, LenProperties DEF BenchInv, PanesApart
<1>2. UNCHANGED <<main, focused, kept, unsplit>>
  BY DEF Bench!AddBottomPane, Bench!CloseBottomPane, Bench!Kept
<1>3. CASE Bench!AddBottomPane
  <2> DEFINE was == [q \in Nat |-> IF q = 0 THEN -1 ELSE q]
  <2>1. dock = NoPane /\ dock' = new /\ counter + 2 <= MaxIds /\ counter' = counter + 2
    BY <1>3 DEF Bench!AddBottomPane, Bench!Fresh
  <2>2. new \in Bench!Pane /\ NewlyMade(new, counter + 2) /\ ShowsOwn(new)
    BY <1>1, <2>1, NewPaneMade
  <2> HIDE DEF new
  <2>3. \A q \in Places(main, new) :
          /\ q \in Nat
          /\ \/ was[q] = -1 /\ At(main, new, q) = new
             \/ was[q] \in Places(main, dock) /\ At(main, new, q) = At(main, dock, was[q])
    BY <1>1 DEF Places, At
  <2>4. \A q, r \in Places(main, new) : was[q] = was[r] => q = r
    BY <2>3
  <2> HIDE DEF was
  <2>5. counter + 2 \in 0..MaxIds /\ counter <= counter + 2
    BY <1>1, <2>1
  <2>6. PanesApart(main, new, counter + 2) /\ Showing(main, new, unsplit)
    BY <1>1, <2>2, <2>3, <2>4, <2>5, Rearranged
  <2> QED
    BY <1>2, <2>1, <2>5, <2>6 DEF BenchInv
<1>4. CASE Bench!CloseBottomPane
  <2> DEFINE was == [q \in Nat |-> q]
  <2>1. dock' = NoPane /\ counter' = counter
    BY <1>4 DEF Bench!CloseBottomPane, Bench!Same
  <2>2. \A q \in Places(main, NoPane) :
          q \in Nat /\ was[q] \in Places(main, dock) /\ At(main, NoPane, q) = At(main, dock, was[q])
    BY <1>1 DEF Places, At
  <2>3. \A q, r \in Places(main, NoPane) : was[q] = was[r] => q = r
    BY <2>2
  <2> HIDE DEF was
  <2>4. counter <= counter
    BY <1>1
  <2>5. PanesApart(main, NoPane, counter) /\ Showing(main, NoPane, unsplit)
    BY <1>1, <2>2, <2>3, <2>4, Rearranged
  <2> QED
    BY <1>1, <1>2, <2>1, <2>5 DEF BenchInv
<1> QED
  BY <1>3, <1>4

LEMMA UnsplitPaneStays ==
  ASSUME BenchInv, NEW pane \in Bench!Panes, Bench!UnsplitPane(pane)
  PROVE  BenchInv'
<1> DEFINE len == Len(pane.tabs)
           n == counter + (len + 1)
           tabs == [j \in DOMAIN pane.tabs |-> [pane.tabs[j] EXCEPT !.id = counter + 1 + j]]
           new == [pane EXCEPT !.id = counter + 1, !.tabs = tabs]
           u == unsplit \cup {counter + 1}
<1>0. PICK p \in Places(main, dock) : pane = At(main, dock, p)
  BY PaneHasPlace
<1>1. n <= MaxIds /\ counter' = n /\ main' = <<new>> /\ focused' = counter + 1 /\ unsplit' = u
      /\ UNCHANGED <<dock, kept>>
  BY DEF Bench!UnsplitPane, Bench!Fresh
<1>2. /\ pane \in Bench!Pane /\ pane.tabs \in Seq(Bench!Tab) /\ len \in Nat /\ DOMAIN pane.tabs = 1..len
      /\ pane.tabs # <<>> /\ \A i \in DOMAIN pane.tabs : pane.tabs[i] \in Bench!Tab
      /\ counter \in 0..MaxIds /\ MaxIds \in Nat
      /\ main \in Seq(Bench!Pane) /\ dock \in Bench!Pane \cup {NoPane}
      /\ Len(main) \in Nat /\ DOMAIN main = 1..Len(main) /\ main # <<>>
  <2>1. pane \in Bench!Pane /\ GoodPane(pane, counter)
    BY <1>0, PlacesArePanes DEF BenchInv, PanesApart
  <2>2. main \in Seq(Bench!Pane) /\ dock \in Bench!Pane \cup {NoPane}
    BY DEF BenchInv, PanesApart
  <2>3. Len(main) \in Nat /\ DOMAIN main = 1..Len(main)
    BY <2>2, LenProperties
  <2>4. main # <<>>
    BY DEF BenchInv
  <2> QED
    BY <2>1, <2>2, <2>3, <2>4, PaneTypes, PanesBounds DEF BenchInv, GoodPane
<1>3. \A i \in 1..len : counter + 1 + i \in Bench!Ids /\ counter + 1 + i <= n /\ counter + 1 + i > counter
  BY <1>1, <1>2 DEF Bench!Ids
<1>4. \A i \in 1..len : tabs[i] \in Bench!Tab /\ tabs[i].id = counter + 1 + i
  BY <1>2, <1>3 DEF Bench!Tab
<1>5. tabs \in Seq(Bench!Tab) /\ DOMAIN tabs = 1..len
  <2>1. tabs \in [1..len -> Bench!Tab]
    BY <1>2, <1>4
  <2> QED
    BY <1>2, <2>1, SeqDef
<1>6. counter + 1 \in Bench!Ids /\ counter + 1 <= n /\ n \in 0..MaxIds /\ counter <= n
  BY <1>1, <1>2 DEF Bench!Ids
<1>7. 1 \in 1..len
  BY <1>2, EmptySeq
<1> HIDE DEF tabs
<1>8. new \in Bench!Pane /\ new.id = counter + 1 /\ new.tabs = tabs
  BY <1>2, <1>5, <1>6 DEF Bench!Pane
<1> HIDE DEF new, len
<1>9. tabs # <<>>
  <2>1. 1 \in DOMAIN tabs
    BY <1>5, <1>7
  <2> QED
    BY <2>1
<1>10. NewlyMade(new, n)
  <2>1. \A i, j \in 1..len : tabs[i].id = tabs[j].id => i = j
    BY <1>2, <1>4
  <2>2. \A i \in 1..len : tabs[i].id <= n /\ tabs[i].id > counter
    BY <1>3, <1>4
  <2> HIDE DEF n
  <2>3. GoodPane(new, n)
    BY <1>5, <1>6, <1>8, <1>9, <2>1, <2>2 DEF GoodPane
  <2>4. new.id > counter
    BY <1>2, <1>8
  <2> QED
    BY <1>5, <1>8, <2>2, <2>3, <2>4 DEF NewlyMade
<1> HIDE DEF n
<1> DEFINE was == [q \in Nat |-> IF q = 0 THEN 0 ELSE -1]
<1>11. <<new>> \in Seq(Bench!Pane) /\ DOMAIN <<new>> = {1} /\ <<new>>[1] = new
  BY <1>8
<1>12. \A q \in Places(<<new>>, dock) :
         /\ q \in {0, 1}
         /\ \/ was[q] = -1 /\ At(<<new>>, dock, q) = new
            \/ was[q] \in Places(main, dock) /\ At(<<new>>, dock, q) = At(main, dock, was[q])
  BY <1>2, <1>11 DEF Places, At
<1>13. \A q, r \in Places(<<new>>, dock) : was[q] = was[r] => q = r
  BY <1>12
<1> HIDE DEF was
<1>14. unsplit \subseteq u /\ new.id \in u
  BY <1>8
<1> HIDE DEF u
<1> DEFINE m == <<new>>
<1>15. /\ m \in Seq(Bench!Pane)
       /\ \A q \in Places(m, dock) :
           \/ /\ was[q] = -1 /\ NewlyMade(At(m, dock, q), n)
              /\ At(m, dock, q).id \notin u => ShowsOwn(At(m, dock, q))
           \/ was[q] \in Places(main, dock) /\ At(m, dock, q) = At(main, dock, was[q])
       /\ \A q, r \in Places(m, dock) : was[q] = was[r] => q = r
  BY <1>10, <1>11, <1>12, <1>13, <1>14
<1>16. \E i \in DOMAIN m : m[i].id = counter + 1
  BY <1>8, <1>11
<1> HIDE DEF m
<1>17. PanesApart(m, dock, n) /\ Showing(m, dock, u)
  BY <1>2, <1>6, <1>14, <1>15, Rearranged
<1> QED
  BY <1>1, <1>6, <1>16, <1>17 DEF BenchInv, m

\* A cleared pane keeps its id, its tabs' ids and its active tab.
LEMMA ClearedKeeps ==
  ASSUME NEW pane \in Bench!Pane, NEW run
  PROVE  LET new == Bench!Cleared(pane, run)
         IN /\ new \in Bench!Pane /\ new.id = pane.id /\ new.active = pane.active
            /\ DOMAIN new.tabs = DOMAIN pane.tabs
            /\ \A i \in DOMAIN pane.tabs : new.tabs[i].id = pane.tabs[i].id
<1> DEFINE tabs == [j \in DOMAIN pane.tabs |->
                      IF pane.tabs[j].run = run THEN Bench!EmptyTab(pane.tabs[j].id) ELSE pane.tabs[j]]
<1>1. /\ pane.tabs \in Seq(Bench!Tab) /\ Len(pane.tabs) \in Nat /\ DOMAIN pane.tabs = 1..Len(pane.tabs)
      /\ \A i \in DOMAIN pane.tabs : pane.tabs[i] \in Bench!Tab
  BY PaneTypes
<1>2. \A i \in DOMAIN pane.tabs : tabs[i] \in Bench!Tab /\ tabs[i].id = pane.tabs[i].id
  BY <1>1 DEF Bench!EmptyTab, Bench!NewTab, Bench!Tab
<1>3. tabs \in Seq(Bench!Tab) /\ DOMAIN tabs = DOMAIN pane.tabs
  <2>1. tabs \in [1..Len(pane.tabs) -> Bench!Tab]
    BY <1>1, <1>2
  <2> QED
    BY <1>1, <2>1, SeqDef
<1>4. Bench!Cleared(pane, run) = [pane EXCEPT !.tabs = tabs]
  BY DEF Bench!Cleared
<1> HIDE DEF tabs
<1> QED
  BY <1>2, <1>3, <1>4 DEF Bench!Pane

LEMMA ClearStays ==
  ASSUME BenchInv, NEW run, Bench!ClearInstanceTabs(run)
  PROVE  BenchInv'
<1> DEFINE m == [i \in DOMAIN main |-> Bench!Cleared(main[i], run)]
           d == IF dock = NoPane THEN dock ELSE Bench!Cleared(dock, run)
<1>1. main' = m /\ dock' = d /\ UNCHANGED <<focused, kept, unsplit, counter>>
  BY DEF Bench!ClearInstanceTabs, Bench!Same, Bench!Kept
<1>2. /\ main \in Seq(Bench!Pane) /\ dock \in Bench!Pane \cup {NoPane}
      /\ Len(main) \in Nat /\ DOMAIN main = 1..Len(main) /\ \A i \in 1..Len(main) : main[i] \in Bench!Pane
  BY LenProperties, ElementOfSeq DEF BenchInv, PanesApart
<1>3. \A i \in 1..Len(main) : m[i] \in Bench!Pane
  BY <1>2, ClearedKeeps
<1>4. m \in Seq(Bench!Pane) /\ DOMAIN m = DOMAIN main
  BY <1>2, <1>3, SeqDef
<1>5. d \in Bench!Pane \cup {NoPane} /\ (d = NoPane => dock = NoPane) /\ (dock = NoPane => d = NoPane)
  BY <1>2, ClearedKeeps, PanesBounds
<1>6. Places(m, d) = Places(main, dock)
  BY <1>4, <1>5 DEF Places
<1>7. \A q \in Places(main, dock) : At(m, d, q) = Bench!Cleared(At(main, dock, q), run)
  BY <1>2, <1>5 DEF Places, At
<1> HIDE DEF m, d
<1>8. ASSUME NEW q \in Places(main, dock)
      PROVE  /\ At(m, d, q).id = At(main, dock, q).id /\ At(m, d, q).active = At(main, dock, q).active
             /\ At(main, dock, q) \in Bench!Pane
             /\ DOMAIN At(m, d, q).tabs = DOMAIN At(main, dock, q).tabs
             /\ \A i \in DOMAIN At(main, dock, q).tabs :
                  At(m, d, q).tabs[i].id = At(main, dock, q).tabs[i].id
  BY <1>2, <1>7, PlacesArePanes, ClearedKeeps
<1>9. ASSUME NEW q \in Places(main, dock)
      PROVE  GoodPane(At(m, d, q), counter)
  <2>1. GoodPane(At(main, dock, q), counter)
    BY DEF BenchInv, PanesApart
  <2>2. DOMAIN At(main, dock, q).tabs # {}
    <3>1. /\ DOMAIN At(main, dock, q).tabs = 1..Len(At(main, dock, q).tabs)
          /\ At(main, dock, q).tabs \in Seq(Bench!Tab) /\ Len(At(main, dock, q).tabs) \in Nat
      BY <1>8, PaneTypes
    <3>2. Len(At(main, dock, q).tabs) # 0
      BY <2>1, <3>1, EmptySeq DEF GoodPane
    <3>3. 1 \in DOMAIN At(main, dock, q).tabs
      BY <3>1, <3>2
    <3> QED
      BY <3>3
  <2> QED
    BY <1>8, <2>1, <2>2 DEF GoodPane
<1>10. ASSUME NEW q \in Places(main, dock), NEW r \in Places(main, dock), q # r
       PROVE  Apart(At(m, d, q), At(m, d, r))
  <2>1. Apart(At(main, dock, q), At(main, dock, r))
    BY <1>10 DEF BenchInv, PanesApart
  <2> QED
    BY <1>8, <2>1 DEF Apart
<1>11. ASSUME NEW q \in Places(main, dock), At(m, d, q).id \notin unsplit
       PROVE  ShowsOwn(At(m, d, q))
  <2>1. ShowsOwn(At(main, dock, q))
    BY <1>8, <1>11 DEF BenchInv, Showing
  <2> QED
    BY <1>8, <2>1 DEF ShowsOwn
<1>12. PanesApart(m, d, counter) /\ Showing(m, d, unsplit)
  BY <1>4, <1>5, <1>6, <1>9, <1>10, <1>11 DEF PanesApart, Showing
<1>13. \E i \in DOMAIN m : m[i].id = focused
  <2>1. PICK i \in DOMAIN main : main[i].id = focused
    BY DEF BenchInv
  <2>2. i \in Places(main, dock) /\ At(main, dock, i) = main[i] /\ At(m, d, i) = m[i]
    BY <1>2, <2>1 DEF Places, At
  <2> QED
    BY <1>4, <1>8, <2>1, <2>2
<1>14. BenchInv => (counter \in 0..MaxIds /\ kept \subseteq Bench!Tab)
  BY DEF BenchInv
<1> QED
  BY <1>1, <1>12, <1>13, <1>14 DEF BenchInv

-----------------------------------------------------------------------------
\* A pane of the tree is at a place, so a step named by its controls is one of
\* the lemmas above.
LEMMA BenchStepStays ==
  ASSUME BenchInv, Bench!WorkbenchNext
  PROVE  BenchInv'
<1>0. /\ kept \subseteq Bench!Tab
      /\ \A tab \in Bench!Tab : tab.view \in {"empty", "terminal"} /\ tab.run \in Runs \cup {NoRun}
  BY DEF BenchInv, Bench!Tab
<1>1. ASSUME NEW pane \in Bench!Panes, Bench!FocusPane(pane)
      PROVE  BenchInv'
  <2>1. /\ \E i \in DOMAIN main : main[i].id = pane.id
        /\ focused' = pane.id /\ UNCHANGED <<main, dock, kept, unsplit, counter>>
    BY <1>1 DEF Bench!FocusPane, Bench!Same, Bench!Range
  <2> QED
    BY <2>1 DEF BenchInv
<1>2. ASSUME NEW pane \in Bench!Panes, Bench!AddTab(pane, "empty", NoRun)
      PROVE  BenchInv'
  BY <1>2, AddTabStays
<1>3. ASSUME NEW pane \in Bench!Panes, Bench!UnsplitPane(pane)
      PROVE  BenchInv'
  BY <1>3, UnsplitPaneStays
<1>4. ASSUME NEW pane \in Bench!Panes, NEW tab \in Bench!Range(pane.tabs),
             \/ Bench!SetActiveTab(pane, tab) \/ Bench!CloseTab(pane, tab)
             \/ \E tgt \in Bench!Range(pane.tabs) : Bench!ReorderTabs(pane, tab, tgt)
      PROVE  BenchInv'
  BY <1>4, SetActiveTabStays, CloseTabStays, ReorderTabsStays
<1>5. ASSUME NEW pane \in Bench!Panes, NEW tab \in Bench!Range(pane.tabs), Bench!RequestView(pane, tab)
      PROVE  BenchInv'
  BY <1>5, SetTabViewStays DEF Bench!RequestView
<1>6. ASSUME NEW pane \in Bench!Panes, NEW tab \in Bench!Range(pane.tabs), NEW run \in Runs,
             Bench!BindCurrentTab(pane, tab, run)
      PROVE  BenchInv'
  <2>1. tab \in Bench!Tab
    BY TabHasPlace
  <2> QED
    BY <1>0, <1>6, <2>1, SetTabViewStays DEF Bench!BindCurrentTab
<1>7. ASSUME NEW pane \in Bench!Panes, NEW tab \in kept, Bench!ReopenKeptTab(pane, tab)
      PROVE  BenchInv'
  BY <1>0, <1>7, AddTabStays DEF Bench!ReopenKeptTab
<1>8. ASSUME NEW pane \in Bench!Panes, NEW tab \in Bench!Range(pane.tabs), Bench!KeepTab(tab)
      PROVE  BenchInv'
  <2>1. kept' = kept \cup {tab} /\ UNCHANGED <<main, dock, focused, unsplit, counter>>
    BY <1>8 DEF Bench!KeepTab, Bench!Same
  <2>2. tab \in Bench!Tab
    BY TabHasPlace
  <2> QED
    BY <1>0, <2>1, <2>2 DEF BenchInv
<1>9. ASSUME NEW tab \in kept, Bench!UnkeepTab(tab)
      PROVE  BenchInv'
  <2>1. kept' = kept \ {tab} /\ UNCHANGED <<main, dock, focused, unsplit, counter>>
    BY <1>9 DEF Bench!UnkeepTab, Bench!Same
  <2> QED
    BY <1>0, <2>1 DEF BenchInv
<1>10. CASE \E pane \in Bench!Panes :
              \/ Bench!FocusPane(pane)
              \/ pane \in Bench!Range(main) /\ Bench!AddTab(pane, "empty", NoRun)
              \/ Bench!UnsplitPane(pane) /\ pane \in Bench!Range(main)
              \/ \E tab \in Bench!Range(pane.tabs) :
                   \/ Bench!SetActiveTab(pane, tab) \/ Bench!CloseTab(pane, tab) \/ Bench!RequestView(pane, tab)
                   \/ pane \in Bench!Range(main) /\ Bench!KeepTab(tab)
                   \/ \E tgt \in Bench!Range(pane.tabs) : Bench!ReorderTabs(pane, tab, tgt)
                   \/ \E run \in Runs : Bench!BindCurrentTab(pane, tab, run)
              \/ \E tab \in kept : Bench!ReopenKeptTab(pane, tab)
  BY <1>1, <1>2, <1>3, <1>4, <1>5, <1>6, <1>7, <1>8, <1>10
<1>11. CASE \E i \in DOMAIN main :
              Bench!RemovePane(i) \/ \E view \in {"empty", "terminal"} : Bench!SplitPane(i, view)
  BY <1>11, RemovePaneStays, SplitPaneStays
<1> QED
  BY <1>9, <1>10, <1>11, DockStays, ClearStays DEF Bench!WorkbenchNext

\* createInitialState
LEMMA BenchStarts ==
  ASSUME Bench!WorkbenchInit
  PROVE  BenchInv
<1> DEFINE tab == Bench!NewTab(1, "empty")
           pane == Bench!EmptyPane(1)
<1>1. main = <<pane>> /\ dock = NoPane /\ focused = 2 /\ kept = {} /\ counter = 2 /\ unsplit = {}
  BY DEF Bench!WorkbenchInit
<1>2. tab \in Bench!Tab /\ tab.id = 1
  BY PanesBounds DEF Bench!NewTab, Bench!Tab, Bench!Ids
<1>3. pane = [id |-> 2, tabs |-> <<tab>>, active |-> 1]
  BY DEF Bench!EmptyPane, Bench!NewPane
<1>4. <<tab>> \in Seq(Bench!Tab) /\ 1 \in Bench!Ids /\ 2 \in Bench!Ids
  BY <1>2, PanesBounds DEF Bench!Ids
<1> HIDE DEF tab, pane
<1>5. pane \in Bench!Pane /\ pane.id = 2 /\ pane.tabs = <<tab>> /\ pane.active = 1
  BY <1>3, <1>4 DEF Bench!Pane
<1>6. DOMAIN pane.tabs = {1} /\ pane.tabs[1].id = 1 /\ pane.tabs # <<>>
  BY <1>2, <1>5
<1>7. GoodPane(pane, 2) /\ ShowsOwn(pane)
  BY <1>5, <1>6 DEF GoodPane, ShowsOwn
<1>8. main \in Seq(Bench!Pane) /\ DOMAIN main = {1} /\ main[1] = pane
  BY <1>1, <1>5
<1>9. Places(main, dock) = {1} /\ At(main, dock, 1) = pane
  BY <1>1, <1>8 DEF Places, At
<1>10. PanesApart(main, dock, counter) /\ Showing(main, dock, unsplit)
  BY <1>1, <1>7, <1>8, <1>9 DEF PanesApart, Showing
<1> QED
  BY <1>1, <1>5, <1>8, <1>10, PanesBounds DEF BenchInv

LEMMA BenchInvWhole == BenchInv => Bench!LayoutIsWhole
<1> SUFFICES ASSUME BenchInv
             PROVE  Bench!LayoutIsWhole
  OBVIOUS
<1>1. \E pane \in Bench!Range(main) : pane.id = focused
  BY DEF BenchInv, Bench!Range
<1>2. ASSUME NEW pane \in Bench!Panes
      PROVE  /\ pane.id \notin unsplit => pane.active \in Bench!TabIds(pane)
             /\ \A i, j \in DOMAIN pane.tabs : pane.tabs[i].id = pane.tabs[j].id => i = j
             /\ \A other \in Bench!Panes : other # pane => Bench!TabIds(other) \cap Bench!TabIds(pane) = {}
  <2>1. PICK p \in Places(main, dock) : pane = At(main, dock, p)
    BY PaneHasPlace
  <2>2. GoodPane(pane, counter) /\ (pane.id \notin unsplit => ShowsOwn(pane))
    BY <2>1 DEF BenchInv, PanesApart, Showing
  <2>3. pane.id \notin unsplit => pane.active \in Bench!TabIds(pane)
    BY <2>2 DEF ShowsOwn, Bench!TabIds, Bench!Range
  <2>4. ASSUME NEW other \in Bench!Panes, other # pane
        PROVE  Bench!TabIds(other) \cap Bench!TabIds(pane) = {}
    <3>1. PICK q \in Places(main, dock) : other = At(main, dock, q)
      BY PaneHasPlace
    <3>2. Apart(other, pane)
      BY <2>1, <2>4, <3>1 DEF BenchInv, PanesApart
    <3> QED
      BY <3>2 DEF Apart, Bench!TabIds, Bench!Range
  <2> QED
    BY <2>2, <2>3, <2>4 DEF GoodPane
<1> QED
  BY <1>1, <1>2 DEF Bench!LayoutIsWhole

\* However the tabs of a layout are moved, closed, split, renamed and reopened,
\* the focused pane is on the screen, every tab is there once and every pane
\* shows one of its own (workbench-state.ts).
THEOREM LayoutIsWholeCorrect == MCSpec => []LayoutIsWhole
<1>1. MCInit => BenchInv
  BY BenchStarts DEF MCInit
<1>2. BenchInv /\ [MCNext]_allVars => BenchInv'
  <2> SUFFICES ASSUME BenchInv, [MCNext]_allVars
               PROVE  BenchInv'
    OBVIOUS
  <2>1. CASE BenchStep
    BY <2>1, BenchStepStays DEF BenchStep
  <2>2. CASE UNCHANGED benchVars
    <3>1. UNCHANGED <<main, dock, focused, kept, counter, unsplit>>
      BY <2>2 DEF benchVars
    <3> QED
      BY <3>1 DEF BenchInv
  <2> QED
    BY <2>1, <2>2 DEF MCNext, LayoutsStep, OutputStep, allVars
<1>3. BenchInv => LayoutIsWhole
  BY BenchInvWhole DEF LayoutIsWhole
<1> QED
  BY <1>1, <1>2, <1>3, PTL DEF MCSpec

-----------------------------------------------------------------------------
(***************************************************************************)
(* The output of a terminal.  From the moment its replay is answered, each *)
(* chunk of the past is printed, in the replay, or on its way, as long as  *)
(* the stream has held.                                                    *)
(***************************************************************************)
Pushed == Sessions \X Output!Chunk

OutputTypes ==
  /\ times \in [Output!Chunk -> Nat]
  /\ chunks \in [Sessions -> 0..MaxChunks]
  /\ pushed \in Seq(Pushed)
  /\ shown \in Sessions \cup {NoSession}
  /\ from \in {0, FromSeq}
  /\ replay \subseteq Output!Chunk
  /\ held => wire

OnTheWay(n) == \E i \in DOMAIN pushed : pushed[i] = <<shown, n>>

NothingLost ==
  eager /\ held /\ ~failed /\ Output!Open =>
    \A n \in Output!Past(shown) :
      /\ phase = "answered" => times[n] > 0 \/ n \in replay \/ OnTheWay(n)
      /\ phase \in {"settled", "subscribed"} => times[n] > 0 \/ OnTheWay(n)

OutputInv == OutputTypes /\ NothingLost

LEMMA PastIsChunks ==
  ASSUME OutputTypes, Output!Open
  PROVE  /\ Output!Past(shown) \subseteq Output!Chunk
         /\ \A n \in Output!Past(shown) : n \in Nat
BY PanesBounds DEF OutputTypes, Output!Open, Output!Past, Output!Chunk

LEMMA PrintedCounts ==
  ASSUME OutputTypes, NEW ns \in SUBSET Output!Chunk
  PROVE  /\ Output!Printed(ns) \in [Output!Chunk -> Nat]
         /\ \A n \in Output!Chunk : /\ Output!Printed(ns)[n] >= times[n]
                                    /\ n \in ns => Output!Printed(ns)[n] > 0
                                    /\ times[n] > 0 => Output!Printed(ns)[n] > 0
BY DEF OutputTypes, Output!Printed

LEMMA OutputInitial == Output!Init => OutputInv
BY PanesBounds, EmptySeq DEF Output!Init, OutputInv, OutputTypes, NothingLost, Output!NoneYet, Output!Open

LEMMA OutputUnchanged == OutputInv /\ UNCHANGED outputVars => OutputInv'
BY DEF OutputInv, OutputTypes, NothingLost, OnTheWay, Output!Past, Output!Open, outputVars

LEMMA ShowStays ==
  ASSUME OutputInv, NEW s \in Sessions \cup {NoSession}, NEW fresh \in BOOLEAN, Output!Show(s, fresh)
  PROVE  OutputInv'
BY DEF OutputInv, OutputTypes, NothingLost, Output!Show, Output!NoneYet, Output!NoAnswer, Output!coreVars

LEMMA ReplayStays ==
  ASSUME OutputInv,
         Output!ReplayAnswered \/ Output!ReplayArrives \/ Output!ReplayFails \/ Output!Subscribe
  PROVE  OutputInv'
<1> USE DEF Output!coreVars
<1>1. CASE Output!ReplayAnswered
  <2>1. Output!Past(shown) \subseteq Output!Chunk
    BY <1>1, PastIsChunks DEF OutputInv, Output!ReplayAnswered
  <2>2. OutputTypes'
    BY <1>1, <2>1 DEF OutputInv, OutputTypes, Output!ReplayAnswered
  <2>3. NothingLost'
    BY <1>1 DEF NothingLost, OnTheWay, Output!ReplayAnswered, Output!Past, Output!Open
  <2> QED
    BY <2>2, <2>3 DEF OutputInv
<1>2. CASE Output!ReplayArrives
  <2>1. /\ Output!Open /\ phase = "answered" /\ phase' = "settled" /\ times' = Output!Printed(replay)
        /\ replay' = {} /\ UNCHANGED <<shown, from, failed, held, chunks, pushed, wire, eager>>
    BY <1>2 DEF Output!ReplayArrives
  <2>2. replay \subseteq Output!Chunk
    BY DEF OutputInv, OutputTypes
  <2>3. /\ times' \in [Output!Chunk -> Nat]
        /\ \A n \in Output!Chunk : (n \in replay \/ times[n] > 0) => times'[n] > 0
    BY <2>1, <2>2, PrintedCounts DEF OutputInv
  <2>4. OutputTypes'
    BY <2>1, <2>3 DEF OutputInv, OutputTypes
  <2>5. Output!Past(shown) \subseteq Output!Chunk
    BY <2>1, PastIsChunks DEF OutputInv
  <2>6. NothingLost'
    BY <2>1, <2>3, <2>5 DEF OutputInv, NothingLost, OnTheWay, Output!Past, Output!Open
  <2> QED
    BY <2>4, <2>6 DEF OutputInv
<1>3. CASE Output!ReplayFails
  BY <1>3 DEF OutputInv, OutputTypes, NothingLost, Output!ReplayFails
<1>4. CASE Output!Subscribe
  BY <1>4 DEF OutputInv, OutputTypes, NothingLost, OnTheWay, Output!Subscribe, Output!Past, Output!Open
<1> QED
  BY <1>1, <1>2, <1>3, <1>4

LEMMA ChunkProducedStays ==
  ASSUME OutputInv, NEW s \in Sessions, Output!ChunkProduced(s)
  PROVE  OutputInv'
<1> DEFINE last == chunks[s] + 1
           isPushed == wire /\ (eager \/ s \in subscribed)
<1>1. /\ chunks[s] < MaxChunks /\ chunks' = [chunks EXCEPT ![s] = last]
      /\ pushed' = IF isPushed THEN Append(pushed, <<s, last>>) ELSE pushed
      /\ UNCHANGED <<shown, phase, from, replay, times, failed, held, wire, eager>>
  BY DEF Output!ChunkProduced, Output!termVars
<1>2. /\ last \in 1..MaxChunks /\ chunks' \in [Sessions -> 0..MaxChunks]
      /\ chunks'[s] = last /\ \A t \in Sessions : t # s => chunks'[t] = chunks[t]
  BY <1>1, PanesBounds DEF OutputInv, OutputTypes
<1>3. <<s, last>> \in Pushed
  BY <1>2 DEF Pushed, Output!Chunk
<1> HIDE DEF last
<1>4. /\ pushed' \in Seq(Pushed) /\ DOMAIN pushed \subseteq DOMAIN pushed'
      /\ \A i \in DOMAIN pushed : pushed'[i] = pushed[i]
      /\ isPushed => \E i \in DOMAIN pushed' : pushed'[i] = <<s, last>>
  <2>1. CASE isPushed
    <3>1. pushed' = Append(pushed, <<s, last>>) /\ pushed \in Seq(Pushed)
      BY <1>1, <2>1 DEF OutputInv, OutputTypes
    <3> HIDE DEF isPushed
    <3> QED
      BY <1>3, <3>1, AppendProperties
  <2>2. CASE ~isPushed
    BY <1>1, <2>2 DEF OutputInv, OutputTypes
  <2> QED
    BY <2>1, <2>2
<1>5. OutputTypes'
  BY <1>1, <1>2, <1>4 DEF OutputInv, OutputTypes
<1>6. ASSUME eager, held, ~failed, Output!Open, NEW n \in Output!Past(shown)'
      PROVE  n \in Output!Past(shown) \/ OnTheWay(n)'
  <2>1. CASE s = shown
    <3>1. n \in Nat /\ n >= from /\ n \in 1..last
      BY <1>1, <1>2, <1>6, <2>1 DEF Output!Past
    <3>2. CASE n = last
      <4>1. isPushed
        BY <1>6 DEF OutputInv, OutputTypes
      <4> QED
        BY <1>1, <1>4, <2>1, <3>2, <4>1 DEF OnTheWay
    <3>3. CASE n # last
      <4>1. n \in 1..chunks[shown]
        BY <2>1, <3>1, <3>3, PanesBounds DEF last, OutputInv, OutputTypes
      <4> QED
        BY <3>1, <4>1 DEF Output!Past
    <3> QED
      BY <3>2, <3>3
  <2>2. CASE s # shown
    BY <1>1, <1>2, <1>6, <2>2 DEF Output!Past, Output!Open, OutputInv, OutputTypes
  <2> QED
    BY <2>1, <2>2
<1>7. \A n : OnTheWay(n) => OnTheWay(n)'
  BY <1>1, <1>4 DEF OnTheWay
<1>8. NothingLost'
  BY <1>1, <1>6, <1>7 DEF OutputInv, NothingLost, Output!Open
<1> QED
  BY <1>5, <1>8 DEF OutputInv

LEMMA ChunkArrivesStays ==
  ASSUME OutputInv, Output!ChunkArrives
  PROVE  OutputInv'
<1> DEFINE chunk == Head(pushed)[2]
           isOwn == Output!Listens /\ Head(pushed)[1] = shown
<1>1. /\ pushed # <<>> /\ pushed' = Tail(pushed) /\ pushed \in Seq(Pushed)
      /\ times' = IF isOwn THEN Output!Printed({chunk}) ELSE times
      /\ UNCHANGED <<shown, phase, from, replay, failed, held, chunks, wire, eager>>
  BY DEF Output!ChunkArrives, OutputInv, OutputTypes
<1>2. /\ Head(pushed) = pushed[1] /\ pushed[1] \in Pushed /\ Tail(pushed) \in Seq(Pushed)
      /\ \A i \in DOMAIN pushed : i = 1 \/ (i - 1 \in DOMAIN Tail(pushed) /\ Tail(pushed)[i - 1] = pushed[i])
  <2>1. Len(pushed) \in Nat /\ DOMAIN pushed = 1..Len(pushed) /\ Len(pushed) # 0
    BY <1>1
  <2> QED
    BY <1>1, <2>1, HeadTailProperties, ElementOfSeq
<1>3. chunk \in Output!Chunk /\ Head(pushed) = <<Head(pushed)[1], chunk>>
  BY <1>2 DEF Pushed
<1> HIDE DEF chunk
<1>4. /\ times' \in [Output!Chunk -> Nat]
      /\ \A n \in Output!Chunk : times[n] > 0 => times'[n] > 0
      /\ isOwn => times'[chunk] > 0
  BY <1>1, <1>3, PrintedCounts DEF OutputInv, OutputTypes
<1>5. OutputTypes'
  BY <1>1, <1>2, <1>4 DEF OutputInv, OutputTypes
<1>6. ASSUME Output!Open, NEW n \in Output!Chunk, OnTheWay(n) PROVE OnTheWay(n)' \/ times'[n] > 0
  <2>1. PICK i \in DOMAIN pushed : pushed[i] = <<shown, n>>
    BY <1>6 DEF OnTheWay
  <2>2. CASE i = 1
    <3>1. Head(pushed)[1] = shown /\ chunk = n
      BY <1>2, <2>1, <2>2 DEF chunk
    <3> QED
      BY <1>4, <1>6, <3>1 DEF Output!Listens
  <2>3. CASE i # 1
    BY <1>1, <1>2, <2>1, <2>3 DEF OnTheWay
  <2> QED
    BY <2>2, <2>3
<1>7. Output!Open => Output!Past(shown) \subseteq Output!Chunk
  BY PastIsChunks DEF OutputInv
<1>8. NothingLost'
  BY <1>1, <1>4, <1>6, <1>7 DEF OutputInv, NothingLost, Output!Open, Output!Past
<1> QED
  BY <1>5, <1>8 DEF OutputInv

LEMMA OutputStays ==
  ASSUME OutputInv, Output!Next
  PROVE  OutputInv'
<1>1. ASSUME NEW s \in Sessions, Output!SubscribeLate(s) PROVE OutputInv'
  BY <1>1 DEF Output!SubscribeLate, OutputInv, OutputTypes, NothingLost, OnTheWay, Output!Past,
              Output!Open, Output!termVars, Output!coreVars
<1>2. CASE Output!LinkLost
  BY <1>2, EmptySeq DEF Output!LinkLost, OutputInv, OutputTypes, NothingLost
<1>3. CASE Output!LinkBack
  BY <1>3 DEF Output!LinkBack, OutputInv, OutputTypes, NothingLost, OnTheWay, Output!Past,
              Output!Open, Output!termVars
<1> QED
  BY <1>1, <1>2, <1>3, ShowStays, ReplayStays, ChunkProducedStays, ChunkArrivesStays DEF Output!Next

\* Where Core pushes from the start, replay and live output together leave no
\* gap, however many sessions and chunks there are (terminal-session.ts:142).
THEOREM NoGapCorrect == MCSpec => []NoGap
<1>1. MCInit => OutputInv
  BY OutputInitial DEF MCInit
<1>2. OutputInv /\ [MCNext]_allVars => OutputInv'
  BY OutputStays, OutputUnchanged DEF MCNext, LayoutsStep, BenchStep, OutputStep, allVars
<1>3. OutputInv => NoGap
  <2> SUFFICES ASSUME OutputInv, Output!UpToDate, eager, held, ~failed, NEW n \in Output!Missing
               PROVE  FALSE
    BY DEF NoGap, Output!NoGap
  <2>1. n \in Output!Past(shown) /\ times[n] = 0 /\ pushed = <<>> /\ phase = "subscribed" /\ Output!Open
    BY DEF Output!Missing, Output!UpToDate
  <2>2. times[n] > 0 \/ OnTheWay(n)
    BY <2>1 DEF OutputInv, NothingLost
  <2> QED
    BY <2>1, <2>2 DEF OnTheWay
<1> QED
  BY <1>1, <1>2, <1>3, PTL DEF MCSpec
=============================================================================
