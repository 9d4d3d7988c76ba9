---------------------------- MODULE RelaySurfaces -----------------------------
(***************************************************************************)
(* Shared surfaces of the archived system across relays: a hub and the     *)
(* leaf relays that are connected to it (relay-server.ts, the surface.*    *)
(* handlers, onUpstreamMessage, and state-bridge/relay-integration.ts).    *)
(* A surface is published, renamed and closed by the browsers of any       *)
(* relay; a leaf sends what its browsers do up, the hub applies it and     *)
(* sends it to all its leaves.  Each relay keeps, besides the surfaces,    *)
(* the tabs of every node as a projection of them.                         *)
(*                                                                         *)
(* A surface is its node and its title.  The lists of tabs that browsers   *)
(* send themselves (workbench.tabs), subscriptions and replay, and lost    *)
(* connections are left out: a leaf that is cut off sends nothing later.   *)
(*                                                                         *)
(* The output of one terminal process of the archived system on its way to *)
(* the terminals that show it (relay-server.ts: broadcastShellOutput,      *)
(* agent.stdout, surface.subscribe, onUpstreamMessage; the surface manager *)
(* and shell router of state-bridge/relay-integration.ts; the surface mode *)
(* of shell-terminal.tsx).  The process runs at a leaf relay or at the     *)
(* hub, its home; terminals look at its surface at either.  A relay keeps  *)
(* what it sent, for those who subscribe later.                            *)
(*                                                                         *)
(* The output is numbered; the surface is a kept one, as all are at first. *)
(* Left out: the split of large chunks, the exit of the process            *)
(* (RelayShells), surfaces that are closed (RelaySurfaces).                *)
(***************************************************************************)
EXTENDS Naturals, Sequences, FiniteSets, SequencesExt

CONSTANTS
  Leaves,      \* the leaf relays
  Ids,         \* surfaces
  Titles,
  NoSurface,   \* not there
  MaxEdits,     \* bound: renames and closes
  LeafViewers, HubViewers,   \* the terminals that show the surface
  MaxChunks,                 \* bound: what the process writes
  MaxReplay,                 \* MAX_REPLAY_LINES (5000 in the code)
  MaxReconnects,             \* MAX_RECONNECT_ATTEMPTS (5 in the code)
  MaxCuts                    \* bound: connections that are lost or refused

VARIABLES
  surf,        \* surf[r][s]: the surface, as relay r has it
  tab,         \* tab[r][n][s]: the title of its tab among those of node n, or NoSurface
  labelled,    \* leaves with an instance of their own that has the leaf's label
  up, down,    \* messages to the hub and from it, per leaf
  edits,
  home,        \* the relay the process runs at
  written,     \* how much it has written
  buffer,      \* buffer[r]: what relay r replays to a new subscriber
  known,       \* the relays that have the surface
  subscribed,  \* subscribed[r]: its subscribers at relay r, "leaf" among them at the hub
  waiting,     \* viewers at the leaf whose subscription waits for the surface
  linked,      \* the leaf is connected to the hub
  toHub, toLeaf,
  sock,        \* sock[v]: "connecting", "open", "backoff" or "gone"
  tries,
  asks,        \* viewers whose surface.subscribe is on its way
  wire,        \* wire[v]: what is on its way to viewer v
  shown,       \* shown[v]: what it has written since it last connected
  cuts,
  broken       \* the link was lost since the process began

(* Surfaces, tabs and labels *)
surfVars == <<surf, tab, labelled, up, down, edits>>

Relays == Leaves \cup {"hub"}
\* The nodes a relay keeps tabs for: itself, the leaves (as instances of the
\* hub), and "inst", a leaf's own instance
Nodes == Leaves \cup {"__local__", "inst"}
Surfaces == [node : Nodes, title : Titles, by : {"browser", "upstream"}]
Has(r, s) == surf[r][s] # NoSurface

Messages == [type : {"publish"}, id : Ids, node : Nodes, label : Relays, title : Titles]
            \cup [type : {"update"}, id : Ids, title : Titles] \cup [type : {"close"}, id : Ids]
SurfTypeOK ==
  /\ surf \in [Relays -> [Ids -> Surfaces \cup {NoSurface}]]
  /\ tab \in [Relays -> [Nodes -> [Ids -> Titles \cup {NoSurface}]]]
  /\ labelled \subseteq Leaves /\ edits \in 0..MaxEdits
  /\ \A l \in Leaves : up[l] \in Seq(Messages) /\ down[l] \in Seq(Messages)

Publish(s, n, label, t) == [type |-> "publish", id |-> s, node |-> n, label |-> label, title |-> t]
Update(s, t) == [type |-> "update", id |-> s, title |-> t]
Close(s) == [type |-> "close", id |-> s]

-----------------------------------------------------------------------------
(* What a relay does to its own state *)
Create(r, s, n, t, by) ==
  surf' = [surf EXCEPT ![r][s] = [node |-> n, title |-> t, by |-> by]]

\* importFromUpstream keeps the surface there is.
Import(r, s, n, t) == IF Has(r, s) THEN UNCHANGED surf ELSE Create(r, s, n, t, "upstream")
TitleAfter(r, s, t) == IF Has(r, s) THEN surf[r][s].title ELSE t
SetTab(r, ns, s, t) ==
  tab' = [tab EXCEPT ![r] = [n \in Nodes |-> IF n \in ns THEN [@[n] EXCEPT ![s] = t] ELSE @[n]]]

Rename(r, s, t) == surf' = [surf EXCEPT ![r][s].title = t]
TabsOf(r, s, ns) == {n \in ns : tab[r][n][s] # NoSurface}

(* Mutant: only the tabs of the surface's own node are cleaned up. *)
DeleteOwnTab(r, s) ==
  /\ surf' = [surf EXCEPT ![r][s] = NoSurface]
  /\ SetTab(r, IF Has(r, s) THEN {surf[r][s].node} ELSE {}, s, NoSurface)

Delete(r, s) ==
  /\ surf' = [surf EXCEPT ![r][s] = NoSurface]
  /\ SetTab(r, Nodes, s, NoSurface)

\* What goes up, or down to every leaf
SendUp(l, m) == up' = [up EXCEPT ![l] = Append(@, m)] /\ UNCHANGED down
Broadcast(m) == down' = [l \in Leaves |-> Append(down[l], m)]

(* Mutant: as for publish, the leaf that sent it does not hear of it again. *)
BroadcastOthers(l, m) ==
  down' = [k \in Leaves |-> IF k = l THEN down[k] ELSE Append(down[k], m)]

\* What the hub was sent by leaf l goes to all leaves, l included.
Relay(l, m) == Broadcast(m)

-----------------------------------------------------------------------------
(* Browsers *)
New(s) == \A r \in Relays : ~Has(r, s)
          /\ \A l \in Leaves : \A q \in {up[l], down[l]} : \A i \in DOMAIN q : q[i].id # s
Fresh(s) == New(s) /\ edits < MaxEdits /\ edits' = edits + 1

\* A surface of a leaf is sent to that leaf twice: as its agent, and as a leaf.
PublishAtHub(s, n, t) ==
  /\ Fresh(s) /\ n \in Leaves \cup {"__local__"}
  /\ Create("hub", s, n, t, "browser") /\ SetTab("hub", {n}, s, t)
  /\ LET m == Publish(s, n, IF n = "__local__" THEN "hub" ELSE n, t) IN
     down' = [l \in Leaves |-> IF l = n THEN down[l] \o <<m, m>> ELSE Append(down[l], m)]
  /\ UNCHANGED <<labelled, up>>

PublishAtLeaf(l, s, n, t) ==
  /\ Fresh(s)
  /\ n = "__local__" \/ (n = "inst" /\ l \in labelled)
  /\ Create(l, s, n, t, "browser") /\ SetTab(l, {n}, s, t)
  /\ SendUp(l, Publish(s, n, l, t))
  /\ UNCHANGED labelled

\* surface.update of a browser, and at the hub of a leaf: the tabs that there
\* are, of its node and of __local__, get the title.
ApplyUpdate(r, s, t) ==
  /\ Rename(r, s, t)
  /\ SetTab(r, TabsOf(r, s, {surf[r][s].node, "__local__"}), s, t)

Edit(r, s) == Has(r, s) /\ edits < MaxEdits /\ edits' = edits + 1 /\ UNCHANGED labelled

UpdateAt(r, s, t) ==
  /\ Edit(r, s) /\ ApplyUpdate(r, s, t)
  /\ IF r = "hub" THEN Broadcast(Update(s, t)) /\ UNCHANGED up ELSE SendUp(r, Update(s, t))

CloseAt(r, s) ==
  /\ Edit(r, s) /\ Delete(r, s)
  /\ IF r = "hub" THEN Broadcast(Close(s)) /\ UNCHANGED up ELSE SendUp(r, Close(s))

-----------------------------------------------------------------------------
(* The hub receives from leaf l, whose instance it finds by the label.     *)
HubImports(m) ==
  /\ Import("hub", m.id, m.label, m.title)
  /\ SetTab("hub", {m.label, "__local__"}, m.id, TitleAfter("hub", m.id, m.title))
  /\ UNCHANGED down

HubReceives(l) ==
  /\ up[l] # <<>> /\ up' = [up EXCEPT ![l] = Tail(@)]
  /\ LET m == Head(up[l]) IN
     CASE m.type = "publish" -> HubImports(m)
       [] m.type # "publish" /\ ~Has("hub", m.id) -> UNCHANGED <<surf, tab, down>>
       [] m.type = "update" /\ Has("hub", m.id) -> ApplyUpdate("hub", m.id, m.title) /\ Relay(l, m)
       [] m.type = "close" /\ Has("hub", m.id) -> Delete("hub", m.id) /\ Relay(l, m)
  /\ UNCHANGED <<labelled, edits>>

\* onUpstreamMessage.  A surface of a leaf is for that leaf, and is imported
\* if it has an instance with the label (syncSurfacesByLabel).
LeafImports(l, m) ==
  \/ /\ m.node = "__local__"
     /\ Import(l, m.id, "__local__", m.title)
     /\ SetTab(l, {"__local__"}, m.id, TitleAfter(l, m.id, m.title))
  \/ /\ m.label = l /\ l \in labelled
     /\ Import(l, m.id, "inst", m.title)
     /\ SetTab(l, {"inst", "__local__"}, m.id, TitleAfter(l, m.id, m.title))
  \/ /\ m.node # "__local__" /\ ~(m.label = l /\ l \in labelled)
     /\ UNCHANGED <<surf, tab>>

LeafReceives(l) ==
  /\ down[l] # <<>> /\ down' = [down EXCEPT ![l] = Tail(@)]
  /\ LET m == Head(down[l]) IN
     CASE m.type = "publish" -> LeafImports(l, m)
       [] m.type = "close" -> Delete(l, m.id)
       [] m.type = "update" /\ ~Has(l, m.id) -> UNCHANGED <<surf, tab>>
       [] m.type = "update" /\ Has(l, m.id) -> Rename(l, m.id, m.title) /\ SetTab(l, {surf[l][m.id].node}, m.id, m.title)
  /\ UNCHANGED <<labelled, up, edits>>

-----------------------------------------------------------------------------
SurfInit ==
  /\ surf = [r \in Relays |-> [s \in Ids |-> NoSurface]]
  /\ tab = [r \in Relays |-> [n \in Nodes |-> [s \in Ids |-> NoSurface]]]
  /\ labelled \in SUBSET Leaves
  /\ up = [l \in Leaves |-> <<>>] /\ down = [l \in Leaves |-> <<>>] /\ edits = 0

SurfNext ==
  \/ \E s \in Ids, n \in Nodes, t \in Titles :
       PublishAtHub(s, n, t) \/ \E l \in Leaves : PublishAtLeaf(l, s, n, t)
  \/ \E r \in Relays, s \in Ids : CloseAt(r, s) \/ \E t \in Titles : UpdateAt(r, s, t)
  \/ \E l \in Leaves : HubReceives(l) \/ LeafReceives(l)

-----------------------------------------------------------------------------
Quiet == \A l \in Leaves : up[l] = <<>> /\ down[l] = <<>>
\* The leaves that are to have a surface of the hub: all of them if the hub
\* made it for itself, its own leaf otherwise, if that could import it.
Sharers(s) ==
  LET n == surf["hub"][s].node IN
  IF n = "__local__" THEN Leaves
  ELSE IF n \in labelled \/ surf["hub"][s].by = "upstream" THEN {n} ELSE {}

\* Once every message has arrived, the relays agree: a surface of the hub is
\* on the leaves it is for, with the same title, whoever renamed it at the
\* same time; a leaf has no surface the hub has not; and everywhere a surface
\* has the tab that belongs to it, and one that was closed has no tab.
RelaysAgree ==
  Quiet =>
    /\ \A s \in Ids : Has("hub", s) =>
         \A l \in Sharers(s) : Has(l, s) /\ surf[l][s].title = surf["hub"][s].title
    /\ \A l \in Leaves, s \in Ids : Has(l, s) => Has("hub", s)
    /\ \A r \in Relays, s \in Ids :
         IF Has(r, s) THEN tab[r][surf[r][s].node][s] = surf[r][s].title
                      ELSE TabsOf(r, s, Nodes) = {}

\* "Label matches the local node's hostname - sync to __local__ so the browser
\* sees surfaces even before opening any terminal on the local node"
\* (relay-server.ts:362-363): what the hub publishes for a leaf is among the
\* leaf's own tabs.  A leaf without an instance never imports it.
SeenBeforeTerminal ==
  Quiet => \A s \in Ids, l \in Leaves :
             Has("hub", s) /\ surf["hub"][s].node = l /\ surf["hub"][s].by = "browser"
             => tab[l]["__local__"][s] # NoSurface

-----------------------------------------------------------------------------
(* The output of a surface *)
outputVars == <<home, written, buffer, known, subscribed, waiting, linked, toHub, toLeaf, sock, tries,
                asks, wire, shown, cuts, broken>>
viewerVars == <<sock, tries, asks, shown>>

Viewers == LeafViewers \cup HubViewers
At(v) == IF v \in LeafViewers THEN "leaf" ELSE "hub"

OutputTypeOK ==
  /\ home \in {"leaf", "hub"} /\ written \in 0..MaxChunks /\ cuts \in 0..MaxCuts
  /\ known \subseteq {"leaf", "hub"} /\ waiting \subseteq LeafViewers /\ asks \subseteq Viewers
  /\ \A r \in {"leaf", "hub"} : buffer[r] \in Seq(1..MaxChunks) /\ Len(buffer[r]) <= MaxReplay
  /\ subscribed \in [{"leaf", "hub"} -> SUBSET (Viewers \cup {"leaf"})]
  /\ sock \in [Viewers -> {"connecting", "open", "backoff", "gone"}]
  /\ tries \in [Viewers -> 0..MaxReconnects]

PublishOut == [type |-> "publish"]
Subscribe == [type |-> "subscribe"]
Subscribed == [type |-> "subscribed"]
Output(c) == [type |-> "output", chunk |-> c]
Lines(cs) == [type |-> "lines", chunks |-> cs]   \* runtime.output, or a runtime.replay of several

-----------------------------------------------------------------------------
(* A relay *)
Trimmed(s) == IF Len(s) > MaxReplay THEN Tail(s) ELSE s

\* Mutant: only a relay somebody looks at keeps what it sends.
KeepIfWatched(r, c) ==
  buffer' = [buffer EXCEPT ![r] = IF subscribed[r] \cap Viewers = {} THEN @ ELSE Trimmed(Append(@, c))]

Keep(r, c) == buffer' = [buffer EXCEPT ![r] = Trimmed(Append(@, c))]

\* broadcastToSubscribers: it is kept, and sent to the subscribers.
Emit(r, c) ==
  /\ Keep(r, c)
  /\ wire' = [v \in Viewers |-> IF v \in subscribed[r] THEN Append(wire[v], Lines(<<c>>)) ELSE wire[v]]
ToLeaf(r, c) == IF r = "hub" /\ "leaf" \in subscribed["hub"] THEN Append(toLeaf, Output(c)) ELSE toLeaf

\* Viewers that are subscribed get what was kept, then the rest as it comes.
Join(r, vs) ==
  /\ subscribed' = [subscribed EXCEPT ![r] = @ \cup vs]
  /\ wire' = [v \in Viewers |-> IF v \in vs /\ buffer[r] # <<>> THEN Append(wire[v], Lines(buffer[r])) ELSE wire[v]]

\* The process writes: a leaf sends it up as well, if it can.
Write ==
  /\ written < MaxChunks /\ written' = written + 1
  /\ Emit(home, written')
  /\ toHub' = IF home = "leaf" /\ linked THEN Append(toHub, Output(written')) ELSE toHub
  /\ toLeaf' = ToLeaf(home, written')
  /\ UNCHANGED <<home, known, subscribed, waiting, linked, viewerVars, cuts, broken>>

\* surface.subscribe of a viewer.  A leaf that is no home to the process asks
\* the hub; if it has not got the surface at all the viewer waits for it.
HubGoes(m) == IF linked THEN Append(toHub, m) ELSE toHub
TakesSubscribe(v) ==
  /\ v \in asks /\ asks' = asks \ {v}
  /\ \/ /\ At(v) \in known
        /\ Join(At(v), {v})
        /\ toHub' = IF At(v) = "leaf" /\ home = "hub" THEN HubGoes(Subscribe) ELSE toHub
        /\ UNCHANGED waiting
     \/ /\ At(v) = "leaf" /\ "leaf" \notin known
        /\ waiting' = waiting \cup {v} /\ toHub' = HubGoes(Subscribe)
        /\ UNCHANGED <<subscribed, wire>>
     \/ /\ At(v) = "hub" /\ "hub" \notin known     \* SURFACE_NOT_FOUND
        /\ UNCHANGED <<waiting, subscribed, wire, toHub>>
  /\ UNCHANGED <<home, written, buffer, known, linked, toLeaf, sock, tries, shown, cuts, broken>>

\* After 15 s it waits no longer.
WaitEnds(v) ==
  /\ v \in waiting /\ waiting' = waiting \ {v}
  /\ UNCHANGED <<home, written, buffer, known, subscribed, linked, toHub, toLeaf, viewerVars, wire, cuts, broken>>

\* The hub: a surface it hears of first has the leaf as a subscriber.
HubTakes ==
  /\ toHub # <<>> /\ toHub' = Tail(toHub)
  /\ LET m == Head(toHub) IN
     \/ /\ m.type = "publish" /\ "hub" \notin known
        /\ known' = known \cup {"hub"} /\ Join("hub", {"leaf"}) /\ toLeaf' = toLeaf
        /\ UNCHANGED buffer
     \/ /\ m.type = "subscribe" /\ "hub" \in known
        /\ Join("hub", {"leaf"}) /\ toLeaf' = Append(toLeaf, Subscribed) /\ UNCHANGED <<buffer, known>>
     \/ /\ m.type = "output" /\ "hub" \in known
        /\ Emit("hub", m.chunk) /\ toLeaf' = ToLeaf("hub", m.chunk) /\ UNCHANGED <<known, subscribed>>
     \/ /\ IF m.type = "publish" THEN "hub" \in known ELSE "hub" \notin known
        /\ UNCHANGED <<buffer, known, subscribed, wire, toLeaf>>
  /\ UNCHANGED <<home, written, waiting, linked, viewerVars, cuts, broken>>

\* Mutant: what comes down is handled as output of the leaf's own, and goes up again.
SendsOnUp(c) == Append(toHub, Output(c))

SendsOn(c) == toHub

\* onUpstreamMessage (a replay is not among what the node hands on)
LeafTakes ==
  /\ toLeaf # <<>> /\ toLeaf' = Tail(toLeaf)
  /\ LET m == Head(toLeaf) IN
     \/ /\ m.type = "output" /\ Emit("leaf", m.chunk) /\ toHub' = SendsOn(m.chunk)
        /\ UNCHANGED <<known, subscribed, waiting>>
     \/ /\ m.type \in {"publish", "subscribed"}
        /\ known' = IF m.type = "publish" THEN known \cup {"leaf"} ELSE known
        /\ IF "leaf" \in known' THEN Join("leaf", waiting) /\ waiting' = {}
           ELSE UNCHANGED <<subscribed, wire, waiting>>
        /\ UNCHANGED <<buffer, toHub>>
  /\ UNCHANGED <<home, written, linked, viewerVars, cuts, broken>>

\* The connection of the leaf: what is on its way is lost.  Back again, it
\* publishes nothing (for a process the hub has no surface of, the report the
\* hub asks for makes one of the hub's own, which is left out here).
LinkLost ==
  /\ linked /\ cuts < MaxCuts /\ cuts' = cuts + 1
  /\ linked' = FALSE /\ broken' = TRUE
  /\ toHub' = <<>> /\ toLeaf' = <<>> /\ subscribed' = [subscribed EXCEPT !["hub"] = @ \ {"leaf"}]
  /\ UNCHANGED <<home, written, buffer, known, waiting, viewerVars, wire>>
LinkBack ==
  /\ ~linked /\ linked' = TRUE
  /\ UNCHANGED <<home, written, buffer, known, subscribed, waiting, toHub, toLeaf, viewerVars, wire, cuts, broken>>

-----------------------------------------------------------------------------
(* A terminal *)
TerminalOnly == UNCHANGED <<home, written, buffer, known, linked, toHub, toLeaf, broken>>

Opens(v) ==
  /\ sock[v] = "connecting" /\ sock' = [sock EXCEPT ![v] = "open"] /\ tries' = [tries EXCEPT ![v] = 0]
  /\ asks' = asks \cup {v} /\ shown' = [shown EXCEPT ![v] = <<>>]
  /\ UNCHANGED <<subscribed, waiting, wire, cuts>> /\ TerminalOnly

Shows(v) ==
  /\ wire[v] # <<>> /\ wire' = [wire EXCEPT ![v] = Tail(@)]
  /\ shown' = [shown EXCEPT ![v] = @ \o Head(wire[v]).chunks]
  /\ UNCHANGED <<subscribed, waiting, sock, tries, asks, cuts>> /\ TerminalOnly

\* The socket closes, or never opened: the next attempt, as long as there are any.
Closes(v) ==
  /\ sock[v] \in {"connecting", "open"} /\ cuts < MaxCuts /\ cuts' = cuts + 1
  /\ IF tries[v] < MaxReconnects
     THEN sock' = [sock EXCEPT ![v] = "backoff"] /\ tries' = [tries EXCEPT ![v] = @ + 1]
     ELSE sock' = [sock EXCEPT ![v] = "gone"] /\ tries' = tries
  /\ asks' = asks \ {v} /\ wire' = [wire EXCEPT ![v] = <<>>] /\ waiting' = waiting \ {v}
  /\ subscribed' = [r \in {"leaf", "hub"} |-> subscribed[r] \ {v}]
  /\ UNCHANGED shown /\ TerminalOnly

Retries(v) ==
  /\ sock[v] = "backoff" /\ sock' = [sock EXCEPT ![v] = "connecting"]
  /\ UNCHANGED <<subscribed, waiting, wire, tries, asks, shown, cuts>> /\ TerminalOnly

-----------------------------------------------------------------------------
\* The surface has just been published, at its home.
OutputInit ==
  /\ home \in {"leaf", "hub"} /\ known = {home} /\ linked = TRUE
  /\ toHub = (IF home = "leaf" THEN <<PublishOut>> ELSE <<>>)
  /\ toLeaf = (IF home = "hub" THEN <<PublishOut>> ELSE <<>>)
  /\ written = 0 /\ buffer = [r \in {"leaf", "hub"} |-> <<>>] /\ waiting = {} /\ asks = {}
  /\ subscribed = [r \in {"leaf", "hub"} |-> {}]
  /\ sock = [v \in Viewers |-> "connecting"] /\ tries = [v \in Viewers |-> 0]
  /\ wire = [v \in Viewers |-> <<>>] /\ shown = [v \in Viewers |-> <<>>]
  /\ cuts = 0 /\ broken = FALSE

OutputNext ==
  \/ Write \/ HubTakes \/ LeafTakes \/ LinkLost \/ LinkBack
  \/ \E v \in Viewers : TakesSubscribe(v) \/ WaitEnds(v) \/ Opens(v) \/ Shows(v) \/ Closes(v) \/ Retries(v)

-----------------------------------------------------------------------------
OutQuiet == toHub = <<>> /\ toLeaf = <<>>
Times(s, c) == Cardinality({i \in DOMAIN s : s[i] = c})
Watches(v) == v \in subscribed[At(v)] /\ wire[v] = <<>>

\* What a terminal shows is what the process wrote.  Once nothing is on its way
\* to it, the end of what it shows is what its relay would replay; nothing is
\* shown twice, but for the output of a leaf's own process at that leaf, which
\* comes back from the hub once, and never again; and as long as the link
\* holds there is no gap from the first that is shown to the last the process
\* wrote.
OutputArrives ==
  \A v \in Viewers :
    LET s == shown[v] IN
    /\ Watches(v) => IsSuffix(buffer[At(v)], s)
    /\ \A c \in 1..written : Times(s, c) <= (IF home = "leaf" /\ At(v) = "leaf" THEN 2 ELSE 1)
    /\ Watches(v) /\ OutQuiet /\ ~broken /\ s # <<>> =>
         \A c \in s[1]..written : Times(s, c) > 0
===============================================================================
