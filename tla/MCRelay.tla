-------------------------------- MODULE MCRelay --------------------------------
(***************************************************************************)
(* What the archived relay keeps: the entries of its state bus, the        *)
(* processes of its instances, the surfaces it shares with other relays,   *)
(* the instances it restores, its nodes with what runs there, the          *)
(* extensions its host has loaded, the                                     *)
(* tabs of its pages; and the output of a process on its way to the        *)
(* terminals.  A behaviour is one of one of them, the subject, while the   *)
(* others stay as they are initially.                                      *)
(***************************************************************************)
EXTENDS Naturals, TLC

CONSTANTS
  Peers, NoEntry, MaxWrites, MaxBreaks,
  Sockets, NoSocket, Clients, Insts, MaxProcs,
  Leaves, SurfaceIds, Titles, NoSurface, MaxEdits,
  Agents, Labels, NoAgent, MaxIds, MaxSockets,
  NumDirs, ExtIds, MaxDiskEdits, MaxScans, NoDir,
  Pages, MaxTerminals, MaxSurfaces, MaxPageEdits,
  LeafViewers, HubViewers, MaxChunks, MaxReplay, MaxReconnects, MaxCuts,
  MaxAgents, MaxInsts, MaxLinks, MaxShared, MaxStarts

VARIABLES
  subject,
  entry, nextVersion, disk, saving, ttls, wire, joined, writes, breaks, writers, missed,
  inst, proc, pending, batch, healing, tab, owned, lock, client, session, told, mine, shared,
  restarted, overlapped,
  surf, tabs, labelled, up, down, edits,
  relay, instances, label, socket, agent, registered, file, dirty, timer, before, had,
  folder, imported, scan, adapters, points, extensions, report, scans, diskEdits, crossed,
  pageTabs, activeTab, inNode, online, creating, publishing, received, stored, surfaces, subs,
  published, made,
  pageEdits, listCrossed, behind,
  home, written, buffer, known, subscribed, waiting, linked, toHub, toLeaf, sock, tries, asks,
  lines, shown, cuts, broken,
  named, ordered, nodeInst, conn, using, toRelay, toAgent, running, nodeSurf, nodeTabs, cards, starts,
  confirmed, released

State == INSTANCE StateSync
Inst == INSTANCE RelayInstances
Surfs == INSTANCE RelaySurfaces WITH tab <- tabs, Ids <- SurfaceIds, wire <- lines
Loader == INSTANCE ExtensionLoader
Page == INSTANCE ArchivedPage WITH tabs <- pageTabs, crossed <- listCrossed
Nodes == INSTANCE RelayNodes WITH inst <- nodeInst, surf <- nodeSurf, tabs <- nodeTabs

\* An entry of the state bus is on two nodes; what stands for none is none; and
\* no leaf or terminal is called what a relay calls itself or a leaf.
ASSUME RelayBounds ==
  /\ \E n, m \in Peers : n # m /\ Peers = {n, m}
  /\ MaxWrites \in Nat /\ NoEntry \notin State!Entry
  /\ MaxScans \in Nat /\ NoDir \notin Loader!Dirs
  /\ Labels # {} /\ NoAgent \notin Agents
  /\ {MaxAgents, MaxInsts, MaxLinks, MaxShared} \subseteq Nat
  /\ {"hub", "__local__", "inst"} \cap Leaves = {} /\ NoSurface \notin Titles \cup Surfs!Surfaces
  /\ "leaf" \notin LeafViewers \cup HubViewers
  /\ MaxProcs \in Nat /\ NoSocket \notin Sockets /\ {"new", "closed"} \cap Clients = {}

stateVars == <<entry, nextVersion, disk, saving, ttls, wire, joined, writes, breaks, writers, missed>>
shellVars == <<inst, proc, pending, batch, healing, tab, owned, lock, client, session, told, mine,
               shared, restarted, overlapped>>
surfVars == <<surf, tabs, labelled, up, down, edits>>
sessVars == <<relay, instances, label, socket, agent, registered, file, dirty, timer, before, had>>
extVars == <<folder, imported, scan, adapters, points, extensions, report, scans, diskEdits, crossed>>
pagesVars == <<pageTabs, activeTab, inNode, online, creating, publishing, received, stored,
            surfaces, subs, published,
            made, pageEdits, listCrossed, behind>>
outputVars == <<home, written, buffer, known, subscribed, waiting, linked, toHub, toLeaf, sock,
            tries, asks, lines, shown, cuts, broken>>
nodesVars == <<named, ordered, nodeInst, conn, using, toRelay, toAgent, running, nodeSurf, nodeTabs,
            cards, starts, confirmed, released>>
allVars == <<subject, stateVars, shellVars, surfVars, sessVars, extVars, pagesVars, outputVars, nodesVars>>

Init ==
  /\ subject \in {"state", "shells", "surfaces", "sessions", "extensions", "pages", "output", "nodes"}
  /\ State!SyncInit /\ Inst!ShellsInit /\ Surfs!SurfInit /\ Inst!SessInit
  /\ Loader!LoaderInit
  /\ subject # "surfaces" => labelled = {}
  /\ subject # "sessions" => \A a \in Agents : label[a] = CHOOSE l \in Labels : TRUE
  /\ subject # "extensions" => folder = CHOOSE f \in [1..NumDirs -> Loader!Folder] :
                                          \A d \in 1..NumDirs : f[d].present /\ f[d].valid
  /\ Page!ArchivedPageInit
  /\ Surfs!OutputInit
  /\ subject # "output" => home = "hub"
  /\ Nodes!NodesInit
  /\ subject # "nodes" => named = {}

StateStep ==
  /\ subject = "state" /\ State!SyncNext
  /\ UNCHANGED <<subject, shellVars, surfVars, sessVars, extVars, pagesVars, outputVars, nodesVars>>
ShellsStep ==
  /\ subject = "shells" /\ Inst!ShellsNext
  /\ UNCHANGED <<subject, stateVars, surfVars, sessVars, extVars, pagesVars, outputVars, nodesVars>>
SurfacesStep ==
  /\ subject = "surfaces" /\ Surfs!SurfNext
  /\ UNCHANGED <<subject, stateVars, shellVars, sessVars, extVars, pagesVars, outputVars, nodesVars>>
SessionsStep ==
  /\ subject = "sessions" /\ Inst!SessNext
  /\ UNCHANGED <<subject, stateVars, shellVars, surfVars, extVars, pagesVars, outputVars, nodesVars>>
ExtensionsStep ==
  /\ subject = "extensions" /\ Loader!LoaderNext
  /\ UNCHANGED <<subject, stateVars, shellVars, surfVars, sessVars, pagesVars, outputVars, nodesVars>>
PagesStep ==
  /\ subject = "pages" /\ Page!ArchivedPageNext
  /\ UNCHANGED <<subject, stateVars, shellVars, surfVars, sessVars, extVars, outputVars, nodesVars>>
OutputStep ==
  /\ subject = "output" /\ Surfs!OutputNext
  /\ UNCHANGED <<subject, stateVars, shellVars, surfVars, sessVars, extVars, pagesVars, nodesVars>>
NodesStep ==
  /\ subject = "nodes" /\ Nodes!NodesNext
  /\ UNCHANGED <<subject, stateVars, shellVars, surfVars, sessVars, extVars, pagesVars, outputVars>>

Next == StateStep \/ ShellsStep \/ SurfacesStep \/ SessionsStep \/ ExtensionsStep \/ PagesStep \/ OutputStep \/ NodesStep

Spec == Init /\ [][Next]_allVars

-----------------------------------------------------------------------------
\* Nodes that share an entry have the same value of it, as long as one writes
\* and no change was lost (sync-engine.ts:227).
NodesAgree == subject = "state" => State!NodesAgree

\* The relays that share a surface agree on it, its title and its tabs, once
\* every message has arrived (relay-server.ts:3484-4098); and the pages of a
\* node show its surfaces, unless one of them sent a list of before it heard of
\* a surface (page.tsx:398, 438).
RelaysAgree ==
  /\ subject = "surfaces" => Surfs!RelaysAgree
  /\ subject = "pages" => Page!PagesShowSurfaces

\* The two pages, the two peers and the two sockets are alike.  Only one of these
\* pairs is in a behaviour, so that they can be exchanged together.
Pairs == {Pages, Peers, Sockets}
PairSymmetry ==
  {p \in Permutations(UNION Pairs) :
     \/ \A x \in UNION Pairs : p[x] = x
     \/ \A S \in Pairs : \A x \in S : p[x] \in S \ {x}}

\* A process that nobody stopped is the handle of its instance, unless that
\* was restarted or started twice at a time (relay-server.ts:1128), and a
\* browser that comes back is told of its shells (relay-server.ts:2557); and a
\* terminal shows the output of its process whole, in order, and no more often
\* than the way it takes explains (relay-server.ts:816, relay-integration.ts:413).
ShellsFound ==
  /\ subject = "shells" => Inst!ShellsReachable /\ Inst!SessionsRecover
  /\ subject = "output" => Surfs!OutputArrives

\* An agent that has registered has a running instance of its own
\* (relay-server.ts:2686); what it reports is found under its node, and not as
\* orphaned if the relay has an instance of it (relay-server.ts:2780, 3705); what
\* runs on it keeps a surface, and the peers shown are its nodes
\* (relay-server.ts:2736).
AgentsListed ==
  /\ subject = "sessions" => Inst!AgentsListed
  /\ subject = "nodes" => Nodes!NodesFound

\* What the report of the last scan says of an extension is so
\* (extension-host.ts:117).
ReportIsTrue == subject = "extensions" => Loader!ReportIsTrue

\* Stated of the program, and not so: see the modules.
ShutdownKeeps == subject = "sessions" => Inst!ShutdownKeeps
SeenBeforeTerminal == subject = "surfaces" => Surfs!SeenBeforeTerminal
=============================================================================
