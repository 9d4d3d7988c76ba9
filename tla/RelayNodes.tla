------------------------------ MODULE RelayNodes ------------------------------
(***************************************************************************)
(* The nodes of the archived relay and the surfaces of what runs on them   *)
(* (relay-server.ts: agent.register, agent.inventory.report,               *)
(* agent.unregister, agent.instance.spawn and exit, surface.subscribe and  *)
(* subscribeNode, keep and unkeep, workbench.reconcile, the close of a     *)
(* socket, the start, and the list of peers), over agents that lose their  *)
(* connection and a relay that is started again and knows its surfaces but *)
(* no instance.                                                            *)
(*                                                                         *)
(* Instances get a new id whenever they are made, also the ones restored   *)
(* from sessions.json, which stand for nothing a surface refers to and are *)
(* left out.  An agent that is named reports under the id the relay gave   *)
(* it, as the relay asks; the program's own (node-runtime.ts:243) under    *)
(* its configured id, here -a, and its main shell is the one process it    *)
(* ever reports, for its other shells die with the connection.  So does    *)
(* the shell an agent is asked for when a surface is opened whose process  *)
(* is no instance: it is AgentNode's, and left out here.                   *)
(***************************************************************************)
EXTENDS Integers, FiniteSets, Sequences

CONSTANTS
  MaxAgents,
  MaxInsts,    \* bound: instances ever made
  MaxLinks,    \* bound: connections ever made
  MaxShared,   \* bound: surfaces ever made
  MaxStarts    \* bound: restarts of the relay

VARIABLES
  named,  \* agents that report under the relay's id; all have one label
  ordered,       \* named agents of which the relay reads an old connection first
  inst,          \* instance -> what it is, of which agent, over which connection
  conn,          \* connection -> its agent, state and node
  using,         \* agent -> the connection it uses, or 0
  toRelay, toAgent,
  running,       \* agent -> its processes
  surf,          \* surface -> its node and process
  tabs,          \* StateRelayWorkbenchStore: node -> surfaces
  cards,         \* the peers a browser shows
  starts,
  confirmed,     \* history: agent -> what it last reported and has not ended since
  released       \* history: processes whose surface somebody un-kept; once each is enough

nodesVars == <<named, ordered, inst, conn, using, toRelay, toAgent, running, surf, tabs, cards, starts,
               confirmed, released>>

NodeAgents == 1..MaxAgents
InstIds == 1..MaxInsts
Links == 1..MaxLinks
Shared == 1..MaxShared
NodeIds == InstIds \cup {-a : a \in NodeAgents}

Exists(n) == n \in InstIds /\ inst[n].kind \in {"local", "node", "run"}
Remote(n) == n \in InstIds /\ inst[n].kind \in {"node", "run"}
LabelOf(n) == inst[n].agent   \* no two agents have one label
Live == {s \in Shared : surf[s].state = "live"}
Of(p) == {s \in Live : surf[s].proc = p}
FreshInst(i) == inst[i].kind = "unused" /\ \A j \in 1..(i - 1) : inst[j].kind # "unused"
Made(kind, a, c) == [kind |-> kind, agent |-> a, conn |-> c]
Surface(n, p, keep, orphaned) ==
  [state |-> "live", node |-> n, proc |-> p, keep |-> keep, orphaned |-> orphaned]
NodeCards(is) == {i \in InstIds : is[i].kind = "node"}
Node(c) == IF conn[c].agent \in named THEN conn[c].node ELSE -conn[c].agent
Msg(type, procs) == [type |-> type, procs |-> procs]
ReportMsg(c) == toRelay[c] # <<>> /\ Head(toRelay[c]).type = "report"

\* New surfaces, one for each of a set of processes
Published(ps, n, orphaned) ==
  LET unused == {s \in Shared : surf[s].state = "unused"}
      of == CHOOSE f \in [ps -> unused] : \A p, q \in ps : p # q => f[p] # f[q]
  IN [s \in {of[p] : p \in ps} |->
        Surface(n, CHOOSE p \in ps : of[p] = s, TRUE, orphaned)]
Room(ps) == Cardinality(ps) <= Cardinality({s \in Shared : surf[s].state = "unused"})
Gone(fs, ss) == [s \in Shared |-> IF s \in ss THEN [fs[s] EXCEPT !.state = "gone"] ELSE fs[s]]
With(fs, new) == [s \in Shared |-> IF s \in DOMAIN new THEN new[s] ELSE fs[s]]
Off(ts, ss) == [n \in NodeIds |-> ts[n] \ ss]

-----------------------------------------------------------------------------
(* Agents *)
Send(c, m) == toRelay' = [toRelay EXCEPT ![c] = Append(@, m)]

Connect(a) ==
  /\ using[a] = 0
  /\ \E c \in Links :
       /\ conn[c].state = "new" /\ \A d \in 1..(c - 1) : conn[d].state # "new"
       /\ conn' = [conn EXCEPT ![c] = [agent |-> a, state |-> "open", node |-> 0]]
       /\ using' = [using EXCEPT ![a] = c]
       /\ Send(c, Msg("register", {}))
  /\ UNCHANGED <<named, ordered, inst, toAgent, running, surf, tabs, cards, starts, confirmed, released>>

\* The shells of the program's own agent end with its connection.
Lost(as) == running' = [b \in NodeAgents |-> IF b \in as \ named THEN {} ELSE running[b]]

Lose(a) ==
  /\ using[a] # 0 /\ using' = [using EXCEPT ![a] = 0]
  /\ Lost({a})
  /\ toAgent' = [toAgent EXCEPT ![using[a]] = <<>>] /\ confirmed' = [confirmed EXCEPT ![a] = {}]
  /\ UNCHANGED <<named, ordered, inst, conn, toRelay, surf, tabs, cards, starts, released>>

\* collectAliveProcesses, or a process starts
AgentReceives(c) ==
  LET a == conn[c].agent
      m == Head(toAgent[c])
      now == IF a \in named THEN running[a] ELSE {-a}
  IN
  /\ toAgent[c] # <<>> /\ toAgent' = [toAgent EXCEPT ![c] = Tail(@)]
  /\ CASE m.type = "request" ->
            Send(c, Msg("report", now)) /\ running' = [running EXCEPT ![a] = now]
       [] m.type = "spawned" ->
            running' = [running EXCEPT ![a] = @ \cup m.procs] /\ UNCHANGED toRelay
  /\ UNCHANGED <<named, ordered, inst, conn, using, surf, tabs, cards, starts, confirmed, released>>

AskSpawn(a) ==
  /\ a \in named /\ using[a] # 0 /\ conn[using[a]].state = "registered"
  /\ \E i \in InstIds : FreshInst(i)
  /\ toRelay[using[a]] = <<>> /\ Send(using[a], Msg("spawn", {}))
  /\ UNCHANGED <<named, ordered, inst, conn, using, toAgent, running, surf, tabs, cards, starts, confirmed, released>>

ProcessExits(a, p) ==
  /\ a \in named /\ p \in running[a] /\ running' = [running EXCEPT ![a] = @ \ {p}]
  /\ IF using[a] # 0 /\ conn[using[a]].state = "registered"
     THEN Send(using[a], Msg("exit", {p})) ELSE UNCHANGED toRelay
  /\ UNCHANGED <<named, ordered, inst, conn, using, toAgent, surf, tabs, cards, starts, confirmed, released>>

Unregister(a) ==
  /\ a \in named /\ using[a] # 0 /\ conn[using[a]].state = "registered"
  /\ Send(using[a], Msg("unregister", {})) /\ running' = [running EXCEPT ![a] = {}]
  /\ using' = [using EXCEPT ![a] = 0] /\ toAgent' = [toAgent EXCEPT ![using[a]] = <<>>]
  /\ confirmed' = [confirmed EXCEPT ![a] = {}]
  /\ UNCHANGED <<named, ordered, inst, conn, surf, tabs, cards, starts, released>>

-----------------------------------------------------------------------------
(* The relay *)
Register(c) ==
  LET a == conn[c].agent IN
  /\ \E i \in InstIds :
       /\ FreshInst(i)
       /\ inst' = [inst EXCEPT ![i] = Made("node", a, c)]
       /\ conn' = [conn EXCEPT ![c].state = "registered", ![c].node = i]
  /\ cards' = NodeCards(inst')
  /\ toAgent' = [toAgent EXCEPT ![c] = IF using[a] = c THEN Append(@, Msg("request", {})) ELSE @]
  /\ UNCHANGED <<surf, tabs, confirmed>>

(* Mutant: a surface that is known stays under the node it had. *)
NotMoved(n, procs) ==
  [s \in Shared |-> IF s \in Live /\ surf[s].proc \in procs
                    THEN [surf[s] EXCEPT !.orphaned = FALSE] ELSE surf[s]]

\* A surface whose process is reported comes under the node that reports it.
Remapped(n, procs) ==
  [s \in Shared |-> IF s \in Live /\ surf[s].proc \in procs
                    THEN [surf[s] EXCEPT !.orphaned = FALSE, !.node = n] ELSE surf[s]]

\* With the first surface that moves away the old node's list is deleted.
MovedTabs(n, procs) ==
  LET moving == {s \in Live : surf[s].proc \in procs /\ surf[s].node # n}
      first == {s \in moving : \A t \in moving : surf[t].node = surf[s].node => surf[s].proc <= surf[t].proc}
  IN [k \in NodeIds |->
        CASE k = n -> tabs[n] \cup {s \in first : s \in tabs[surf[s].node]}
          [] \E s \in moving : surf[s].node = k -> {}
          [] OTHER -> tabs[k]]

Report(c, procs) ==
  LET n == Node(c)
      new == Published({p \in procs : Of(p) = {}}, n, FALSE)
      kept == With(Remapped(n, procs), new)
      stale == {s \in Shared : /\ kept[s].state = "live" /\ kept[s].proc \notin procs
                               /\ Exists(kept[s].node) /\ Exists(n) /\ LabelOf(kept[s].node) = LabelOf(n)}
  IN
  /\ Room({p \in procs : Of(p) = {}})
  /\ surf' = [s \in Shared |->
                CASE s \in stale /\ kept[s].keep -> [kept[s] EXCEPT !.orphaned = TRUE]
                  [] s \in stale /\ ~kept[s].keep -> [kept[s] EXCEPT !.state = "gone"]
                  [] s \notin stale -> kept[s]]
  /\ tabs' = [MovedTabs(n, procs) EXCEPT ![n] = @ \cup DOMAIN new]
  /\ confirmed' = [confirmed EXCEPT ![conn[c].agent] = IF using[conn[c].agent] = c THEN procs ELSE @]
  /\ UNCHANGED <<inst, conn, cards, toAgent>>

Spawn(c) ==
  \E i \in InstIds :
    /\ FreshInst(i) /\ Room({i})
    /\ inst' = [inst EXCEPT ![i] = Made("run", conn[c].agent, c)]
    /\ LET new == Published({i}, conn[c].node, FALSE) IN
         /\ surf' = With(surf, new)
         /\ tabs' = [tabs EXCEPT ![conn[c].node] = @ \cup DOMAIN new]
    /\ toAgent' = [toAgent EXCEPT ![c] = IF using[conn[c].agent] = c THEN Append(@, Msg("spawned", {i})) ELSE @]
    /\ UNCHANGED <<conn, cards, confirmed>>

\* An instance that is known goes and its surfaces stay; of one that is not
\* the surfaces go.
Exited(c, p) ==
  /\ IF Remote(p)
     THEN inst' = [inst EXCEPT ![p].kind = "gone"] /\ UNCHANGED <<surf, tabs>>
     ELSE /\ surf' = Gone(surf, Of(p))
          /\ tabs' = [n \in NodeIds |-> tabs[n] \ {s \in Of(p) : surf[s].node = n}]
          /\ UNCHANGED inst
  /\ confirmed' = [confirmed EXCEPT ![conn[c].agent] = @ \ {p}]
  /\ UNCHANGED <<conn, cards, toAgent>>

\* The peers are not sent again.
Unregistered(c) ==
  LET n == conn[c].node IN
  /\ conn' = [conn EXCEPT ![c].state = "unregistered"]
  /\ inst' = [inst EXCEPT ![n].kind = "gone"]
  /\ LET off == {s \in Live : surf[s].node = n} IN surf' = Gone(surf, off) /\ tabs' = Off(tabs, off)
  /\ UNCHANGED <<cards, toAgent, confirmed>>

RelayReceives(c) ==
  LET m == Head(toRelay[c]) IN
  /\ toRelay[c] # <<>> /\ toRelay' = [toRelay EXCEPT ![c] = Tail(@)]
  /\ conn[c].agent \in ordered =>
       \A d \in 1..(c - 1) : conn[d].agent = conn[c].agent => toRelay[d] = <<>>
  /\ CASE m.type = "register" -> Register(c)
       [] m.type = "report" -> Report(c, m.procs)
       [] m.type = "spawn" -> Spawn(c)
       [] m.type = "exit" -> Exited(c, CHOOSE p \in m.procs : TRUE)
       [] m.type = "unregister" -> Unregistered(c)
  /\ UNCHANGED <<named, ordered, using, running, starts, released>>

\* The close of a socket: the first instance of the connection goes.
Closes(c) ==
  LET its == {i \in InstIds : Remote(i) /\ inst[i].conn = c}
      first == {i \in its : \A j \in its : i <= j}
  IN
  /\ conn[c].state \in {"open", "registered", "unregistered"} /\ using[conn[c].agent] # c
  /\ conn' = [conn EXCEPT ![c].state = "closed"]
  /\ toRelay' = [toRelay EXCEPT ![c] = <<>>]
  /\ inst' = [i \in InstIds |-> IF i \in first THEN [inst[i] EXCEPT !.kind = "gone"] ELSE inst[i]]
  /\ cards' = NodeCards(inst')
  /\ UNCHANGED <<named, ordered, using, toAgent, running, surf, tabs, starts, confirmed, released>>

-----------------------------------------------------------------------------
(* Browsers *)
\* A surface is opened whose process is no instance the relay knows: it is
\* orphaned, or deleted if it is not kept.  Its tab stays.
Subscribe(s) ==
  /\ s \in Live /\ ~Exists(surf[s].proc)
  /\ surf' = IF surf[s].keep THEN [surf EXCEPT ![s].orphaned = TRUE] ELSE Gone(surf, {s})
  /\ UNCHANGED <<named, ordered, inst, conn, using, toRelay, toAgent, running, tabs, cards, starts, confirmed, released>>

\* What belongs to no instance any more is cleaned up, a local instance that
\* has no surface gets one.
SubscribeNode(n) ==
  LET stale == {s \in Live : /\ surf[s].node = n /\ surf[s].proc # n /\ ~Remote(n)
                             /\ ~surf[s].keep /\ ~Exists(surf[s].proc)}
      bare == IF Exists(n) /\ inst[n].kind = "local" /\ Of(n) = {} THEN {n} ELSE {}
      new == Published(bare, n, TRUE)
  IN
  /\ Room(bare) /\ (stale # {} \/ bare # {})
  /\ surf' = With(Gone(surf, stale), new)
  /\ tabs' = [tabs EXCEPT ![n] = @ \cup DOMAIN new]
  /\ UNCHANGED <<named, ordered, inst, conn, using, toRelay, toAgent, running, cards, starts, confirmed, released>>

SetKeep(s) ==
  /\ s \in Live /\ (surf[s].keep => surf[s].proc \notin released)
  /\ surf' = [surf EXCEPT ![s].keep = ~@]
  /\ released' = IF surf[s].keep THEN released \cup {surf[s].proc} ELSE released
  /\ UNCHANGED <<named, ordered, inst, conn, using, toRelay, toAgent, running, tabs, cards, starts, confirmed>>

Reconcile(n) ==
  /\ tabs[n] \ Live # {} /\ tabs' = [tabs EXCEPT ![n] = @ \cap Live]
  /\ UNCHANGED <<named, ordered, inst, conn, using, toRelay, toAgent, running, surf, cards, starts, confirmed, released>>

-----------------------------------------------------------------------------
(* The relay is stopped and started: its surfaces come back, with their    *)
(* tabs; those of a process that is no instance now are orphaned if they   *)
(* are kept, and deleted if not.                                           *)
Restart ==
  LET stale == {s \in Live : surf[s].proc # surf[s].node}
      off == {s \in stale : ~surf[s].keep}
  IN
  /\ starts < MaxStarts /\ starts' = starts + 1
  /\ \E i \in InstIds :
       /\ FreshInst(i)
       /\ inst' = [j \in InstIds |-> IF j = i THEN Made("local", 0, 0)
                                       ELSE IF inst[j].kind = "unused" THEN inst[j]
                                       ELSE [inst[j] EXCEPT !.kind = "gone"]]
  /\ conn' = [c \in Links |-> IF conn[c].state = "new" THEN conn[c] ELSE [conn[c] EXCEPT !.state = "closed"]]
  /\ using' = [a \in NodeAgents |-> 0] /\ Lost(NodeAgents)
  /\ toRelay' = [c \in Links |-> <<>>] /\ toAgent' = [c \in Links |-> <<>>]
  /\ surf' = [s \in Shared |->
                CASE s \in off -> [surf[s] EXCEPT !.state = "gone"]
                  [] s \in stale \ off -> [surf[s] EXCEPT !.orphaned = TRUE]
                  [] s \notin stale -> surf[s]]
  /\ tabs' = Off([n \in NodeIds |-> tabs[n] \cup {s \in Live : surf[s].node = n}], off)
  /\ cards' = {} /\ confirmed' = [a \in NodeAgents |-> {}]
  /\ UNCHANGED <<named, ordered, released>>

-----------------------------------------------------------------------------
NodesInit ==
  /\ named \in SUBSET NodeAgents /\ ordered \in SUBSET named
  /\ inst = [i \in InstIds |-> IF i = 1 THEN Made("local", 0, 0) ELSE Made("unused", 0, 0)]
  /\ conn = [c \in Links |-> [agent |-> 0, state |-> "new", node |-> 0]]
  /\ using = [a \in NodeAgents |-> 0]
  /\ toRelay = [c \in Links |-> <<>>] /\ toAgent = [c \in Links |-> <<>>]
  /\ running = [a \in NodeAgents |-> {}]
  /\ surf = [s \in Shared |-> [Surface(0, 0, FALSE, FALSE) EXCEPT !.state = "unused"]]
  /\ tabs = [n \in NodeIds |-> {}]
  /\ cards = {} /\ starts = 0
  /\ confirmed = [a \in NodeAgents |-> {}] /\ released = {}

NodesNext ==
  \/ \E a \in NodeAgents : Connect(a) \/ Lose(a) \/ AskSpawn(a) \/ Unregister(a)
  \/ \E a \in NodeAgents, p \in InstIds : ProcessExits(a, p)
  \/ \E c \in Links : AgentReceives(c) \/ RelayReceives(c) \/ Closes(c)
  \/ \E n \in NodeIds : SubscribeNode(n) \/ Reconcile(n)
  \/ \E s \in Shared : Subscribe(s) \/ SetKeep(s)
  \/ Restart

-----------------------------------------------------------------------------
\* What an agent has reported is found under the node it reports as, and is
\* not marked orphaned, if the relay has an instance of it; without one it may
\* be marked when it is opened, and goes then if somebody has un-kept it.  A
\* named agent's old messages may arrive after it has come back under a new
\* node, and undo what it has reported since.
Found(a, p) ==
  \E s \in Of(p) : surf[s].node = Node(using[a]) /\ (Exists(p) => ~surf[s].orphaned)
ReportedIsFound ==
  \A a \in NodeAgents : (a \in named => a \in ordered) =>
    \A p \in confirmed[a] : Exists(p) \/ p \notin released => Found(a, p)

\* A process that runs has a surface, over lost connections and restarts of
\* the relay, unless somebody un-kept it; and no process has two.
RunningIsShown ==
  /\ \A a \in named : \A p \in running[a] : Of(p) # {} \/ p \in released
  /\ \A p \in NodeIds : Cardinality(Of(p)) <= 1

\* The peers shown are the nodes there are, but for an agent that has said
\* goodbye and not closed.
PeersTrue == cards = NodeCards(inst) \/ \E c \in Links : conn[c].state = "unregistered"

NodesFound == ReportedIsFound /\ RunningIsShown /\ PeersTrue
=============================================================================
