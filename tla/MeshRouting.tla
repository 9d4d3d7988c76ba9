----------------------------- MODULE MeshRouting -----------------------------
(***************************************************************************)
(* Which node a call of the page reaches: the provider of the CoreClient   *)
(* (app/console/core/core-client-provider.tsx), the target, reachability   *)
(* and status cache of ProxyCoreClient, the effects of the console that    *)
(* follow the node entered (app/console/controller/                        *)
(* use-console-controller.ts), and what asks a node about itself: the node *)
(* bar (stage/node-bar.tsx), the network view (plugins/mesh) and the       *)
(* panels (plugins/terminal/panels/extension-panels.tsx).                  *)
(*                                                                         *)
(* Core is external: it answers a call itself, or passes it to the node    *)
(* the call names, which answers if the mesh reaches it.  A node that      *)
(* answers knows itself, the local node and its trusted peers.             *)
(*                                                                         *)
(* Effects of React belong to the action that renders them: those of a     *)
(* panel, a child, before those of the console, and these in the order of  *)
(* its text, node.info before the target.  A panel follows not the node    *)
(* entered but activeNodeId of the provider, which the effect of the       *)
(* console sets for a later render; a render takes up all the state that   *)
(* waits for one.  A call whose answer is ignored by a flag is removed     *)
(* when the flag is set.                                                   *)
(***************************************************************************)
EXTENDS FiniteSets, Integers

CONSTANTS
  Local,     \* the id of the local node
  Remote,    \* ids of the nodes of the mesh
  NoNode,    \* null: no node entered, no target, nothing known
  MaxCalls,  \* bound: calls in flight when the user or a timer makes another
  MaxMoves,  \* bound: nodes entered, left, dismissed and invited, panels opened
  MaxFaults  \* bound: links lost, new clients, changes of the mesh

ASSUME MeshBounds == MaxMoves \in Nat /\ MaxFaults \in Nat

Nodes == Remote \cup {Local}
Maybe == Nodes \cup {NoNode}

VARIABLES
  linked,     \* core.isConnected
  entered,    \* appState.activeInstanceId
  target,     \* _targetNodeId of the current client
  activeNode, \* activeNodeId of the provider, as last set
  rendered,   \* activeNodeId the panels last rendered with
  idDue,      \* idTimer of the provider is armed
  localId,    \* localNodeId of the provider
  calls,      \* calls in flight whose answers count
  info,       \* the node whose node.info the console shows
  panel,      \* the node whose answer the panel shows, and for which it asked
  bar,        \* NodeBar: its localNodeId and remotePeers
  dismissed,  \* NodeBar: nodes hidden by the user
  view,       \* NodeNetworkView: its localNodeId, topoNodes and meshPeers
  reach,      \* _reachableTargets
  status,     \* _nodeStatuses
  trusted,    \* Core: peers the nodes of the mesh list
  up,         \* Core: remote nodes the mesh reaches
  moves, faults

clientVars == <<target, reach, status>>
renderVars == <<activeNode, rendered>>
identityVars == <<idDue, localId>>
coreVars == <<trusted, up>>
vars == <<linked, entered, clientVars, renderVars, identityVars, calls, info, panel, bar, dismissed,
          view, coreVars, moves, faults>>

States == {"unknown", "connected", "disconnected"}
Call == [for: {"info", "panel", "identity", "barId", "barList", "view"},
         to: Maybe, asked: Maybe, lid: Maybe]
NoPanel == [of |-> NoNode, asked |-> NoNode]
NoBar == [local |-> NoNode, peers |-> {}]
NoView == [local |-> NoNode, nodes |-> {}, peers |-> {}, error |-> FALSE]
Listed == [Remote \cup {Local} -> States]

RoutingTypes ==
  /\ linked \in BOOLEAN /\ idDue \in BOOLEAN
  /\ {entered, target, activeNode, rendered, localId, info} \subseteq Maybe
  /\ calls \subseteq Call
  /\ panel \in [of: Maybe, asked: Maybe]
  /\ bar \in [local: Maybe, peers: SUBSET Nodes]
  /\ view \in [local: Maybe, nodes: SUBSET Nodes, peers: SUBSET Nodes, error: BOOLEAN]
  /\ dismissed \subseteq Nodes /\ reach \subseteq Remote /\ status \in Listed
  /\ trusted \subseteq Remote /\ up \subseteq Remote
  /\ moves \in 0..MaxMoves /\ faults \in 0..MaxFaults

-----------------------------------------------------------------------------
\* _callAs: the target of the client at the moment of the call goes with it.
Ask(for, asked) == [for |-> for, to |-> target, asked |-> asked, lid |-> NoNode]

\* The node that answers a call; whether one does, and whether the call may
\* fail: a call that the mesh can deliver fails only while Core is away.
Answerer(c) == IF c.to = NoNode THEN Local ELSE c.to
CanAnswer(c) == Answerer(c) \in up \cup {Local}
CanFail(c) == ~linked \/ ~CanAnswer(c)
Without(for) == {c \in calls : c.for # for}

\* What node n lists: all nodes it knows, and the state of each of them.
List(n) == trusted \cup {Local, n}
StateOf(n) == IF n \in up \cup {Local} THEN "connected" ELSE "disconnected"

\* The node bar leaves out the node it takes for the local one.
Peers(n, lid) == List(n) \ {lid}

\* What the overlay of the console would hide were node n entered.
Covered(n) ==
  /\ localId # NoNode /\ n # localId
  /\ n \notin reach
  /\ status[n] # "connected"

-----------------------------------------------------------------------------
\* Mutant: the client follows a render after the state.
SetActiveNodeLate(n) == activeNode' = n /\ target' = activeNode

\* setActiveNode: the state of the provider, and the client at once
SetActiveNode(n) == activeNode' = n /\ target' = n

\* The effect of a panel asks for activeNodeId, with the client as it is then.
PanelAsks == IF linked /\ activeNode # NoNode THEN {Ask("panel", activeNode)} ELSE {}
PanelRenders == IF rendered # activeNode THEN PanelAsks ELSE {}

\* A change of the node entered is rendered, with what waits for a render: the
\* effect of the panel, node.info of the client's old target, then the target.
Follow(n) ==
  /\ entered' = n /\ rendered' = activeNode
  /\ calls' = {c \in calls : c.for # "info" \/ c.asked = NoNode} \cup PanelRenders
       \cup (IF linked /\ n # NoNode THEN {Ask("info", n)} ELSE {})
  /\ SetActiveNode(n)
  /\ dismissed' = dismissed \ {n}

\* Room for what the user or a timer starts
Idle == Cardinality(calls) < MaxCalls
Move == Idle /\ moves < MaxMoves /\ moves' = moves + 1
Stay == UNCHANGED <<info, panel, bar, view, reach, status, coreVars, identityVars>>

\* What the bar and, in the console, the network view offer to enter.  The
\* alias '__local__', their key for the local node until its id is known, is
\* taken for the id.
BarEntries ==
  ((IF linked THEN {IF bar.local = NoNode THEN Local ELSE bar.local} ELSE {}) \cup bar.peers)
    \ dismissed
ViewEntries ==
  IF entered = NoNode /\ linked
    THEN (IF view.local = NoNode THEN {Local} ELSE {view.local}) \cup view.nodes \cup view.peers
    ELSE {}

\* handleEnterNode: the entry of the entered node leaves it.
EnterNode(n) ==
  /\ Move /\ n \in BarEntries \cup ViewEntries
  /\ Follow(IF n = entered THEN NoNode ELSE n)
  /\ Stay /\ UNCHANGED <<linked, faults>>

\* handleGoToConsole, and the + of the node bar
GoToConsole ==
  /\ Move /\ entered # NoNode /\ Follow(NoNode)
  /\ Stay /\ UNCHANGED <<linked, faults>>

\* The x of an entry: the entered node cannot be dismissed.
Dismiss(n) ==
  /\ Move /\ n \in BarEntries /\ n # entered
  /\ dismissed' = dismissed \cup {n}
  /\ UNCHANGED <<linked, entered, target, renderVars, calls, faults>> /\ Stay

\* The provider renders what setActiveNode set.
ProviderRenders ==
  /\ rendered # activeNode /\ rendered' = activeNode
  /\ calls' = calls \cup PanelRenders
  /\ UNCHANGED <<linked, entered, target, activeNode, dismissed, moves, faults>> /\ Stay

\* The panel is shown anew: an answer for its former self is dropped.
OpenPanel ==
  /\ Move /\ panel' = NoPanel
  /\ calls' = Without("panel") \cup PanelAsks
  /\ rendered' = activeNode
  /\ UNCHANGED <<linked, entered, clientVars, activeNode, identityVars, info, bar, dismissed,
                 view, coreVars, faults>>

-----------------------------------------------------------------------------
\* core.isConnected becomes true: the two effects for node.info, the poll of
\* the node bar and the fetches of the network view start over.
LinkUp ==
  /\ ~linked /\ linked' = TRUE
  /\ calls' = calls \cup {Ask("info", NoNode), Ask("barId", NoNode), Ask("view", NoNode)}
                    \cup (IF entered = NoNode THEN {} ELSE {Ask("info", entered)})
  /\ UNCHANGED <<entered, target, renderVars, dismissed, moves, faults>> /\ Stay

Unlinked(kept) ==
  /\ linked' = FALSE
  /\ calls' = {c \in kept : c.for \notin {"info", "barId", "barList"}}
  /\ bar' = [bar EXCEPT !.peers = {}] /\ view' = NoView

Fault == faults < MaxFaults /\ faults' = faults + 1

LinkDown ==
  /\ linked /\ Fault /\ Unlinked(calls)
  /\ UNCHANGED <<entered, clientVars, renderVars, dismissed, info, panel, coreVars,
                 identityVars, moves>>

\* Mutant: a new client starts without a target.
NewTargetLost == NoNode

\* The target a new client starts with: activeNodeId of the render.
NewTarget == activeNode

\* A new reconnectKey is rendered: the old client is closed before the effects,
\* so that no panel asks; the new one, which the next render takes up, is not
\* connected and knows no node.  A call of the old one still answers.
Reconnect ==
  /\ Fault /\ Unlinked(calls)
  /\ target' = NewTarget /\ rendered' = activeNode
  /\ reach' = {} /\ status' = [n \in Nodes |-> "unknown"]
  /\ idDue' = TRUE
  /\ UNCHANGED <<entered, activeNode, dismissed, info, panel, localId, coreVars, moves>>

\* 500 ms after a client was made
IdentityTimerFires ==
  /\ idDue /\ idDue' = FALSE
  /\ calls' = calls \cup {Ask("identity", NoNode)}
  /\ UNCHANGED <<linked, entered, clientVars, renderVars, localId, info, panel, bar, dismissed, view,
                 coreVars, moves, faults>>

-----------------------------------------------------------------------------
Answered(c) == c \in calls /\ CanAnswer(c)
AnswerStay ==
  UNCHANGED <<linked, entered, target, renderVars, idDue, dismissed, reach, coreVars, moves, faults>>

InfoAnswered(c) ==
  /\ c.for = "info" /\ Answered(c)
  /\ info' = Answerer(c) /\ calls' = calls \ {c}
  /\ AnswerStay /\ UNCHANGED <<localId, panel, bar, view, status>>

PanelAnswered(c) ==
  /\ c.for = "panel" /\ Answered(c)
  /\ \/ panel' = [of |-> Answerer(c), asked |-> c.asked]
     \/ panel' = panel   \* text is being selected
  /\ calls' = calls \ {c}
  /\ AnswerStay /\ UNCHANGED <<localId, info, bar, view, status>>

IdentityAnswered(c) ==
  /\ c.for = "identity" /\ Answered(c)
  /\ localId' = Answerer(c) /\ calls' = calls \ {c}
  /\ AnswerStay /\ UNCHANGED <<info, panel, bar, view, status>>

ViewAnswered(c) ==
  /\ c.for = "view" /\ Answered(c)
  /\ view' = [local |-> Answerer(c), nodes |-> List(Answerer(c)), peers |-> trusted,
             error |-> FALSE]
  /\ calls' = calls \ {c}
  /\ AnswerStay /\ UNCHANGED <<localId, info, panel, bar, status>>

\* fetchPeers, after node.identity.get: a failure counts as '__local__', which
\* is no id of a node.
BarIdentified(c, lid) ==
  /\ c.for = "barId" /\ c \in calls
  /\ \/ CanAnswer(c) /\ lid = Answerer(c)
     \/ CanFail(c) /\ lid = NoNode
  /\ bar' = [bar EXCEPT !.local = lid]
  /\ calls' = (calls \ {c}) \cup {[Ask("barList", NoNode) EXCEPT !.lid = lid]}
  /\ AnswerStay /\ UNCHANGED <<localId, info, panel, view, status>>

\* Mutant: the status of a node is not updated by the poll.
ListedStatusKept(peers) == status

\* updateNodeStatus for every peer listed
ListedStatus(peers) == [n \in Nodes |-> IF n \in peers THEN StateOf(n) ELSE status[n]]

\* fetchPeers, after node.list
BarListed(c) ==
  /\ c.for = "barList" /\ Answered(c)
  /\ LET peers == Peers(Answerer(c), c.lid)
     IN /\ bar' = [bar EXCEPT !.peers = peers]
        /\ status' = ListedStatus(peers)
  /\ calls' = calls \ {c}
  /\ AnswerStay /\ UNCHANGED <<localId, info, panel, view>>

\* A call fails and leaves what it was made for as it is; the network view
\* keeps its nodes and forgets its peers.
CallFails(c) ==
  /\ c \in calls /\ c.for # "barId" /\ CanFail(c)
  /\ calls' = calls \ {c}
  /\ view' = IF c.for = "view" THEN [view EXCEPT !.peers = {}, !.error = TRUE] ELSE view
  /\ AnswerStay /\ UNCHANGED <<localId, info, panel, bar, status>>

Answer(c) ==
  \/ InfoAnswered(c) \/ PanelAnswered(c) \/ IdentityAnswered(c) \/ ViewAnswered(c)
  \/ \E lid \in Maybe : BarIdentified(c, lid)
  \/ BarListed(c) \/ CallFails(c)

Polling == \E c \in calls : c.for \in {"barId", "barList"}

\* The interval of the node bar, 30 s; a poll has ended within 20 s.
PollTimerFires ==
  /\ linked /\ ~Polling
  /\ calls' = calls \cup {Ask("barId", NoNode)}
  /\ UNCHANGED <<linked, entered, target, renderVars, dismissed, moves, faults>> /\ Stay

\* retry of the network view
RetryView ==
  /\ linked /\ entered = NoNode /\ view.error /\ view' = [view EXCEPT !.error = FALSE]
  /\ calls' = calls \cup {Ask("view", NoNode)}
  /\ UNCHANGED <<linked, entered, clientVars, renderVars, identityVars, info, panel, bar, dismissed,
                 coreVars, moves, faults>>

-----------------------------------------------------------------------------
\* The mesh gains or loses the way to a node; Core may say so on the stream.
MeshChanges(n) ==
  /\ Fault
  /\ up' = IF n \in up THEN up \ {n} ELSE up \cup {n}
  /\ UNCHANGED <<linked, entered, clientVars, renderVars, identityVars, calls, info, panel, bar, dismissed,
                 view, trusted, moves>>

\* handleAccept of AddPeerDialog, which is open in the network view
AcceptInvite(n) ==
  /\ Move /\ linked /\ entered = NoNode
  /\ n \notin trusted /\ trusted' = trusted \cup {n}
  /\ calls' = calls \cup {Ask("view", NoNode)}
  /\ UNCHANGED <<linked, entered, clientVars, renderVars, identityVars, info, panel, bar, dismissed, view,
                 up, faults>>

\* _updateReachability
NodeEvent(n) ==
  /\ linked /\ n \in trusted
  /\ reach' = IF n \in up THEN reach \cup {n} ELSE reach \ {n}
  /\ status' = [status EXCEPT ![n] = StateOf(n)]
  /\ UNCHANGED <<linked, entered, target, renderVars, identityVars, calls, info, panel, bar, dismissed, view,
                 coreVars, moves, faults>>

-----------------------------------------------------------------------------
\* A page whose link is not up yet, on the console or on the node it restored
RoutingInit ==
  /\ linked = FALSE /\ entered \in Maybe
  /\ target = entered /\ activeNode = entered /\ rendered = entered
  /\ idDue = TRUE /\ localId = NoNode
  /\ calls = {} /\ info = NoNode /\ panel = NoPanel
  /\ bar = NoBar /\ dismissed = {} /\ view = NoView
  /\ reach = {} /\ status = [n \in Nodes |-> "unknown"]
  /\ trusted \in SUBSET Remote /\ up \in SUBSET Remote
  /\ moves = 0 /\ faults = 0

Next ==
  \/ \E n \in Nodes : EnterNode(n) \/ Dismiss(n)
  \/ GoToConsole \/ ProviderRenders \/ OpenPanel
  \/ LinkUp \/ LinkDown \/ Reconnect \/ IdentityTimerFires
  \/ \E c \in calls : Answer(c)
  \/ PollTimerFires \/ RetryView
  \/ \E n \in Remote : MeshChanges(n) \/ AcceptInvite(n) \/ NodeEvent(n)

\* Timers fire and calls settle; the link comes up again.
Fairness ==
  /\ WF_vars(LinkUp)
  /\ WF_vars(IdentityTimerFires)
  /\ WF_vars(PollTimerFires)
  /\ \A for \in {"info", "panel", "identity", "view", "barId", "barList"} :
       WF_vars(\E c \in {d \in calls : d.for = for} : Answer(c))

Spec == RoutingInit /\ [][Next]_vars /\ Fairness

-----------------------------------------------------------------------------
\* The client routes to the node that is entered, whatever the order of moves,
\* links and new clients (use-console-controller.ts:213, core-client-provider.tsx:75).
TargetFollowsEntered == target = entered

\* A panel never shows, for the node it asked about, the answer of another
\* node.  Its call names no node: it goes where the client's target points when
\* the effect runs (extension-panels.tsx:15), one render after the provider was
\* told (core-client-provider.tsx:57), with other nodes entered, new clients and
\* panels shown anew in between.
PanelShowsNodeAsked == panel.asked # NoNode => panel.of = panel.asked

AtRest == linked /\ entered = NoNode /\ target = NoNode

\* Once the console is left on the network view with the link up, the node bar
\* lists the trusted peers and no node that the mesh reaches would be covered
\* as offline if it were entered (node-bar.tsx:75, use-console-controller.ts:290).
BarCatchesUp ==
  <>[]AtRest =>
    <>[](/\ bar.local = Local /\ bar.peers = trusted
         /\ \A n \in trusted \cap up : ~Covered(n))

\* "Re-fetch node info when the active target node changes"
\* (use-console-controller.ts:174): once no answer is awaited, the info shown is
\* the entered node's.
InfoIsOfEntered ==
  /\ linked /\ entered # NoNode /\ entered \in up \cup {Local} /\ info # NoNode
  /\ \A c \in calls : c.for # "info"
  => info = entered
=============================================================================
