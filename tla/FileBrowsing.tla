------------------------------ MODULE FileBrowsing ------------------------------
(***************************************************************************)
(* Where a user of the console sees directories: the directory picker and  *)
(* the file tree.  One action is one callback with the effects it causes.  *)
(*                                                                         *)
(* The picker (dialogs/directory-picker.tsx) is a tree of directories      *)
(* fetched as they are opened.  What is selected is the root of the view,  *)
(* and an effect fetches it when it is not there.  A directory is a        *)
(* number, the parent of d is d \div 2, and 1 is the root of the disk.  A  *)
(* directory is listed by Core, or Core fails.  Left out: files, which the *)
(* filter lets the user select as well, and the filter.                    *)
(*                                                                         *)
(* The file tree (files/use-file-tree.ts) starts from the working          *)
(* directory (use-console-controller.ts).  It is kept by the address of    *)
(* the page's Core, one for all nodes of the mesh; a listing is of the     *)
(* node the client calls at that moment.                                   *)
(***************************************************************************)
EXTENDS Naturals, FiniteSets

CONSTANTS
  NumDirs,
  MaxFetches,      \* bound: fetches of one directory in flight when the user acts
  MaxPickerMoves,  \* bound: steps of the user and of the link
  Nodes,
  Folders,
  NoFolder,
  MaxTreeMoves     \* bound: steps of the user, and of the link

Dirs == 1..NumDirs
NoDir == 0

VARIABLES
  (* the picker *)
  open,
  pickerCwd,       \* absoluteCwd
  pickerTree,      \* what is known of each directory
  pickerExpanded,
  selected,
  pickerFetching,  \* fs.list calls in flight, of each directory
  pickerLinked,    \* core.isConnected
  pickerMoves,
  (* the file tree *)
  home,      \* the working directory of each node
  target,    \* targetNodeId of the client
  linked,    \* core.isConnected
  cwd,       \* absoluteCwd || projectInfo.cwd
  tree,      \* of each directory: the node it is of, "unloaded" or "error"
  expanded,
  fetching,  \* fs.list in flight
  info,      \* node.info in flight whose answer is not ignored
  treeMoves,
  unfetched, \* expanded while the link was down (history)
  toggled    \* collapsed or expanded by the user (history)

pickerVars == <<open, pickerCwd, pickerTree, pickerExpanded, selected, pickerFetching, pickerLinked,
                pickerMoves>>
treeVars == <<home, target, linked, cwd, tree, expanded, fetching, info, treeMoves, unfetched,
              toggled>>

-----------------------------------------------------------------------------
(* The picker *)

Unloaded == [d \in Dirs |-> "unloaded"]

PickerInit ==
  /\ open = FALSE /\ pickerCwd \in {1, 2} /\ pickerTree = Unloaded /\ pickerExpanded = {} /\ selected = NoDir
  /\ pickerFetching = [d \in Dirs |-> 0] /\ pickerLinked \in BOOLEAN /\ pickerMoves = 0

-----------------------------------------------------------------------------
Known == [tree |-> pickerTree, fetching |-> pickerFetching]

\* fetchDir: without a link the directory is an error at once.
Fetch(s, d) ==
  IF pickerLinked THEN [s EXCEPT !.fetching[d] = @ + 1] ELSE [s EXCEPT !.tree[d] = "error"]

\* Mutant: what is selected is not fetched.
NoAutoFetch(s, d) == s

\* "Auto-fetch when selected changes to a directory not yet in the tree", after
\* every change of the tree as well.
AutoFetch(s, d) == IF d # NoDir /\ s.tree[d] = "unloaded" THEN Fetch(s, d) ELSE s

Become(s) == pickerTree' = s.tree /\ pickerFetching' = s.fetching

\* A step of the user, while there are not too many fetches
PickerMove ==
  /\ pickerMoves < MaxPickerMoves /\ pickerMoves' = pickerMoves + 1
  /\ \A d \in Dirs : pickerFetching[d] < MaxFetches

Opened(d) ==
  /\ selected' = d /\ pickerExpanded' = {d}
  /\ Become(AutoFetch(Fetch([Known EXCEPT !.tree = Unloaded], d), d))

\* The effect of opening starts afresh, and lets fetches in flight be.
OpenPicker ==
  /\ ~open /\ open' = TRUE /\ PickerMove /\ Opened(pickerCwd)
  /\ UNCHANGED <<pickerCwd, pickerLinked>>

\* Cancel, or Select, which gives the terminal another directory.
Close ==
  /\ open /\ open' = FALSE /\ pickerCwd' \in {pickerCwd, selected} /\ PickerMove
  /\ UNCHANGED <<pickerTree, pickerExpanded, selected, pickerFetching, pickerLinked>>

Ancestors(d) == {a \in Dirs : \E n \in 0..4 : a = d \div (2 ^ n)}

\* A directory in the view: all between it and the selection is expanded, and
\* all above it is listed.
InView(d) ==
  /\ d # selected /\ selected \in Ancestors(d)
  /\ \A a \in Ancestors(d) \ {d} :
       selected \in Ancestors(a) => pickerTree[a] = "listed" /\ (a = selected \/ a \in pickerExpanded)

\* onClick
Select(d) ==
  /\ open /\ InView(d) /\ selected' = d /\ PickerMove
  /\ Become(AutoFetch(Known, d))
  /\ UNCHANGED <<open, pickerCwd, pickerExpanded, pickerLinked>>

\* toggleDir, also from onDoubleClick, which comes after a click
PickerToggle(d) ==
  /\ open /\ PickerMove /\ (InView(d) \/ d = selected)
  /\ pickerExpanded' = IF d \in pickerExpanded THEN pickerExpanded \ {d} ELSE pickerExpanded \cup {d}
  /\ Become(AutoFetch(AutoFetch(Known, d), selected))
  /\ UNCHANGED <<open, pickerCwd, selected, pickerLinked>>

\* navigateTo, from the breadcrumb or the arrow of the selection
NavigateTo(d) ==
  /\ open /\ d \in Ancestors(selected) /\ PickerMove /\ Opened(d)
  /\ UNCHANGED <<open, pickerCwd, pickerLinked>>

\* fs.list settles.
ListingSettles(d, how) ==
  /\ pickerFetching[d] > 0
  /\ Become(AutoFetch([Known EXCEPT !.tree[d] = how, !.fetching[d] = @ - 1], selected))
  /\ UNCHANGED <<open, pickerCwd, pickerExpanded, selected, pickerLinked, pickerMoves>>

\* The link comes or goes, and the calls are not cut off.
PickerLinkChanges ==
  /\ PickerMove /\ pickerLinked' = ~pickerLinked
  /\ UNCHANGED <<open, pickerCwd, pickerTree, pickerExpanded, selected, pickerFetching>>

PickerNext ==
  \/ OpenPicker \/ Close \/ PickerLinkChanges
  \/ \E d \in Dirs :
       \/ Select(d) \/ PickerToggle(d) \/ NavigateTo(d)
       \/ \E how \in {"listed", "error"} : ListingSettles(d, how)

-----------------------------------------------------------------------------
\* "Prevents permanent 'Loading files...'" (directory-picker.tsx:155): the view,
\* and every expanded directory in it, is loaded or being fetched.
NeverLoadingForEver ==
  open => \A d \in Dirs :
            d = selected \/ (InView(d) /\ d \in pickerExpanded) =>
              pickerTree[d] # "unloaded" \/ pickerFetching[d] > 0

-----------------------------------------------------------------------------
(* The file tree *)

TreeInit ==
  /\ home \in [Nodes -> Folders] /\ target = (CHOOSE n \in Nodes : TRUE) /\ linked = FALSE
  /\ cwd = NoFolder /\ tree = [d \in Folders |-> "unloaded"] /\ expanded = {NoFolder}
  /\ fetching = {} /\ info = {} /\ treeMoves = 0 /\ unfetched = {} /\ toggled = {}

-----------------------------------------------------------------------------
Move == treeMoves < MaxTreeMoves /\ treeMoves' = treeMoves + 1

\* Until a directory is expanded or the root fetched, the root is expanded.
Expanded == IF expanded = {NoFolder} THEN {cwd} ELSE expanded

\* fetchDir asks nothing without a link.
Fetched(d) == IF linked THEN fetching \cup {[of |-> d, node |-> target, at |-> treeMoves']} ELSE fetching
Missed(d) == IF linked THEN unfetched \ {d} ELSE unfetched \cup {d}

\* node.info asks again whenever the link is back; an earlier answer is ignored.
Link ==
  /\ ~linked /\ linked' = TRUE /\ Move
  /\ info' = {[node |-> target]}
  /\ fetching' = IF cwd = NoFolder THEN fetching
                 ELSE fetching \cup {[of |-> cwd, node |-> target, at |-> treeMoves']}
  /\ expanded' = IF cwd = NoFolder THEN expanded ELSE (expanded \ {NoFolder}) \cup {cwd}
  /\ unfetched' = unfetched \ {cwd}
  /\ UNCHANGED <<home, target, cwd, tree, toggled>>

Break ==
  /\ linked /\ linked' = FALSE /\ Move /\ info' = {}
  /\ UNCHANGED <<home, target, cwd, tree, expanded, fetching, unfetched, toggled>>

\* handleEnterNode: the effect that asks for node.info runs before the one that
\* changes the target.
EnterNode(n) ==
  /\ n # target /\ target' = n /\ Move
  /\ info' = IF linked THEN {[node |-> target]} ELSE info
  /\ UNCHANGED <<home, linked, cwd, tree, expanded, fetching, unfetched, toggled>>

\* Mutant: the root is not fetched when it changes.
RootKept(d) == UNCHANGED <<fetching, expanded, unfetched>>

\* "Fetch root on connect or CWD change": the effect of another cwd.
RootChanged(d) ==
  IF linked
  THEN /\ fetching' = fetching \cup {[of |-> d, node |-> target, at |-> treeMoves]}
       /\ expanded' = (expanded \ {NoFolder}) \cup {d}
       /\ unfetched' = unfetched \ {d}
  ELSE unfetched' = unfetched \cup {d} /\ UNCHANGED <<fetching, expanded>>

\* setAbsoluteCwd with the answer of node.info
InfoArrives(i) ==
  /\ i \in info /\ info' = {} /\ cwd' = home[i.node]
  /\ IF cwd' # cwd THEN RootChanged(cwd') ELSE UNCHANGED <<fetching, expanded, unfetched>>
  /\ UNCHANGED <<home, target, linked, tree, treeMoves, toggled>>

InfoFails(i) ==
  /\ i \in info /\ info' = {}
  /\ UNCHANGED <<home, target, linked, cwd, tree, expanded, fetching, treeMoves, unfetched, toggled>>

\* onCwdChange, of the picker and of a command that changes the directory
ChangeCwd(d) ==
  /\ d # cwd /\ cwd' = d /\ Move /\ RootChanged(d)
  /\ UNCHANGED <<home, target, linked, tree, info, toggled>>

\* onNavigatePath
NavigatePath(d) ==
  /\ Move /\ fetching' = Fetched(d) /\ expanded' = {cwd, d} /\ unfetched' = Missed(d)
  /\ toggled' = toggled \cup {cwd}
  /\ UNCHANGED <<home, target, linked, cwd, tree, info>>

ToggleDir(d) ==
  /\ Move /\ toggled' = toggled \cup {d}
  /\ IF d \in Expanded
     THEN expanded' = Expanded \ {d} /\ UNCHANGED <<fetching, unfetched>>
     ELSE expanded' = Expanded \cup {d} /\ fetching' = Fetched(d) /\ unfetched' = Missed(d)
  /\ UNCHANGED <<home, target, linked, cwd, tree, info>>

\* fs.list settles; the last answer to come is what is shown.
Settles(f, ok) ==
  /\ f \in fetching /\ fetching' = fetching \ {f}
  /\ tree' = [tree EXCEPT ![f.of] = IF ok THEN f.node ELSE "error"]
  /\ UNCHANGED <<home, target, linked, cwd, expanded, info, treeMoves, unfetched, toggled>>

TreeNext ==
  \/ Link \/ Break
  \/ \E n \in Nodes : EnterNode(n)
  \/ \E i \in info : InfoArrives(i) \/ InfoFails(i)
  \/ \E d \in Folders : ChangeCwd(d) \/ NavigatePath(d) \/ ToggleDir(d)
  \/ \E f \in fetching, ok \in BOOLEAN : Settles(f, ok)

-----------------------------------------------------------------------------
\* What is expanded is listed, an error, or being fetched, unless it was
\* expanded while the link was down; and while the page is linked the working
\* directory is expanded, unless the user collapsed it (use-file-tree.ts:67).
ExpandedIsFetched ==
  /\ \A d \in (Expanded \ unfetched) \ {NoFolder} :
       tree[d] # "unloaded" \/ \E f \in fetching : f.of = d
  /\ linked /\ cwd # NoFolder /\ cwd \notin toggled => cwd \in Expanded

(***************************************************************************)
(* "File tree state (per-node, keyed by wsUrl)" (use-console-              *)
(* controller.ts:117).  Not so: the key is the same for every node of the  *)
(* mesh, and after a node is entered the listings of the other stay.       *)
(***************************************************************************)
TreeIsOfTarget ==
  fetching = {} /\ info = {} /\ linked => \A d \in Folders \cap Expanded :
    tree[d] \in {target, "error", "unloaded"}
=============================================================================
