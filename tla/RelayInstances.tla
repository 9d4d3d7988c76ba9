---------------------------- MODULE RelayInstances ----------------------------
(***************************************************************************)
(* The processes of local instances of the archived relay                  *)
(* (relay-server.ts: spawnShellForWs, spawnInstance, the shell.* handlers, *)
(* DELETE /api/instances), the write locks, and the sessions by which a    *)
(* browser that comes back is told of its shells.                          *)
(*                                                                         *)
(* adapter.start() makes the process at once and settles before the next   *)
(* event, but a socket hands over all messages of one chunk in one event   *)
(* (ws 8.18): while a start is pending only the socket that caused it is   *)
(* heard.  An instance is named once and never comes back.  Output, its    *)
(* subscribers and permissions are left out.                               *)
(*                                                                         *)
(* And its instances of every source with the file they are restored from  *)
(* (src/instance-manager.ts, src/session-persistence.ts, and in            *)
(* relay-server.ts agent.register, the close of a socket, the shutdown and *)
(* the start), over agents that come and go, a graceful shutdown and a     *)
(* crash of the relay.                                                     *)
(*                                                                         *)
(* There an instance is its id, label and source; a socket is an agent's   *)
(* or a browser's, and a browser with a client token returns early from    *)
(* the close handler, which is nothing here.  The two share the relay and  *)
(* no variable.                                                            *)
(***************************************************************************)
EXTENDS Integers, FiniteSets

CONSTANTS
  Sockets, NoSocket,
  Clients,      \* clientToken: a browser
  Insts,
  MaxProcs,     \* bound: processes ever started
  Agents, Labels, NoAgent,
  MaxIds,       \* bound: instances ever made
  MaxSockets    \* bound: sockets ever opened

VARIABLES
  inst,         \* instanceManager: status and handle of each instance
  proc,         \* the processes, 1 .. Len
  pending,      \* starts that have not settled
  batch,        \* the socket whose chunk is being handled
  healing,      \* pendingShellSpawns
  tab,          \* instances with a surface
  owned,        \* shellWsMap
  lock,         \* shellLockMap
  client,       \* wsToClientToken of open sockets, "new" or "closed"
  session,      \* clientSessionMap
  told,         \* restoredInstances of the welcome
  mine,         \* history: shells each browser asked for
  shared,       \* history: browsers with two sockets at a time
  restarted, overlapped,  \* history: instances restarted, or started twice at a time
  relay,       \* "up", "stopping" or "down"
  instances,   \* the instances: id -> what it is; status "none": no such instance
  label,       \* the label each agent registers with
  socket,      \* socket -> "new", "open" or "closed"
  agent,       \* the agent of a socket, or NoAgent: a browser
  registered,  \* sockets whose agent has registered
  file,        \* sessions.json: the instances in it
  dirty, timer,\* SessionPersistence: to be written; the debounce timer runs
  before,      \* history: the instances when the last shutdown began
  had          \* history: the last instance of each agent, 0 for none

(* The processes of instances, and the browsers they are told to *)
Ids == 1..MaxIds
Connections == 1..MaxSockets

shellVars == <<inst, proc, pending, batch, healing, tab, owned, lock, client, session,
               told, mine, shared, restarted, overlapped>>

Procs == 1..MaxProcs
NoSession == [sock |-> NoSocket, shells |-> {}, away |-> FALSE]
Absent == [status |-> "absent", handle |-> 0]
Unused == [of |-> "none", via |-> "none", state |-> "unused", stopped |-> FALSE]

Open(k) == client[k] \in Clients
Exists(i) == inst[i].status \in {"starting", "running", "stopped"}
Heard(k) == Open(k) /\ (pending = {} \/ batch = k)
Fresh == CHOOSE p \in Procs : proc[p] = Unused
CanStart == \E p \in Procs : proc[p] = Unused

ShellsTypeOK ==
  /\ inst \in [Insts -> [status: {"absent", "starting", "running", "stopped", "gone"}, handle: 0..MaxProcs]]
  /\ proc \in [Procs -> [of: Insts \cup {"none"}, via: {"none", "spawn", "surface", "input", "command"},
                         state: {"unused", "starting", "live", "exited"}, stopped: BOOLEAN]]
  /\ pending \subseteq Procs /\ batch \in Sockets \cup {NoSocket}
  /\ healing \subseteq Insts /\ tab \subseteq Insts /\ owned \in [Sockets -> SUBSET Insts]
  /\ lock \in [Insts -> Sockets \cup {NoSocket}]
  /\ client \in [Sockets -> Clients \cup {"new", "closed"}]
  /\ session \in [Clients -> [sock: Sockets \cup {NoSocket}, shells: SUBSET Insts, away: BOOLEAN]]

-----------------------------------------------------------------------------
(* Starting and stopping *)
Start(k, i, via) ==
  /\ CanStart
  /\ proc' = [proc EXCEPT ![Fresh] = [of |-> i, via |-> via, state |-> "starting", stopped |-> FALSE]]
  /\ pending' = pending \cup {Fresh} /\ batch' = k
  /\ overlapped' = IF \E p \in pending : proc[p].of = i THEN overlapped \cup {i} ELSE overlapped

NoStart == UNCHANGED <<proc, pending, batch, overlapped>>

Remember(k, i) ==
  /\ session' = [session EXCEPT ![client[k]].shells = @ \cup {i}]
  /\ mine' = [mine EXCEPT ![client[k]] = @ \cup {i}]

Attached(i) == inst[i].handle # 0 /\ inst[i].status = "running"

\* shell.spawn of an instance, or surface.subscribe of its surface, which
\* is not remembered
SpawnShell(k, i, viaSurface) ==
  /\ Heard(k) /\ Exists(i) /\ (viaSurface => i \in tab)
  /\ IF Attached(i) THEN NoStart ELSE Start(k, i, IF viaSurface THEN "surface" ELSE "spawn")
  /\ owned' = [owned EXCEPT ![k] = @ \cup {i}]
  /\ IF Attached(i) /\ ~viaSurface THEN Remember(k, i) ELSE UNCHANGED <<session, mine>>
  /\ UNCHANGED <<inst, healing, tab, lock, client, told, shared, restarted>>

\* shell.spawn without an instance
SpawnNew(k, i) ==
  /\ Heard(k) /\ inst[i].status = "absent"
  /\ inst' = [inst EXCEPT ![i].status = "starting"]
  /\ Start(k, i, "spawn")
  /\ owned' = [owned EXCEPT ![k] = @ \cup {i}]
  /\ UNCHANGED <<healing, tab, lock, client, session, told, mine, shared, restarted>>

\* POST /api/instances: an instance with a surface, started by whoever
\* subscribes first
Create(i) ==
  /\ pending = {} /\ inst[i].status = "absent"
  /\ inst' = [inst EXCEPT ![i].status = "starting"] /\ tab' = tab \cup {i}
  /\ UNCHANGED <<proc, pending, batch, healing, owned, lock, client, session, told, mine,
                 shared, restarted, overlapped>>

\* shell.input: with no handle the shell is started, once however many
\* inputs there are
SelfHeal(k, i) ==
  /\ Heard(k) /\ Exists(i) /\ inst[i].handle = 0 /\ inst[i].status # "stopped" /\ i \notin healing
  /\ healing' = healing \cup {i}
  /\ Start(k, i, "input")
  /\ owned' = [owned EXCEPT ![k] = @ \cup {i}]
  /\ UNCHANGED <<inst, tab, lock, client, session, told, mine, shared, restarted>>

Stopped(i) == IF inst[i].handle = 0 THEN proc ELSE [proc EXCEPT ![inst[i].handle].stopped = TRUE]

\* instance.command clear or restart: spawnInstance
Restart(k, i) ==
  /\ Heard(k) /\ Exists(i) /\ CanStart
  /\ proc' = [Stopped(i) EXCEPT ![Fresh] =
                [of |-> i, via |-> "command", state |-> "starting", stopped |-> FALSE]]
  /\ inst' = [inst EXCEPT ![i].handle = 0]
  /\ pending' = pending \cup {Fresh} /\ batch' = k
  /\ overlapped' = IF \E p \in pending : proc[p].of = i THEN overlapped \cup {i} ELSE overlapped
  /\ restarted' = restarted \cup {i}
  /\ UNCHANGED <<healing, tab, owned, lock, client, session, told, mine, shared>>

\* Once all starts have settled the chunk is behind.
Handed == batch' = IF pending' = {} THEN NoSocket ELSE batch

\* The start settles, and only then is the shell remembered; or it throws: a
\* shell that was not made has no handle.
Settle(p) ==
  /\ p \in pending /\ pending' = pending \ {p}
  /\ inst' = [inst EXCEPT ![proc[p].of] = [status |-> "running", handle |-> p]]
  /\ proc' = [proc EXCEPT ![p].state = "live"]
  /\ healing' = healing \ {proc[p].of} /\ Handed
  /\ IF proc[p].via = "spawn" THEN Remember(batch, proc[p].of) ELSE UNCHANGED <<session, mine>>
  /\ UNCHANGED <<tab, owned, lock, client, told, shared, restarted, overlapped>>

StartThrows(p) ==
  /\ p \in pending /\ pending' = pending \ {p}
  /\ proc' = [proc EXCEPT ![p].state = "exited"]
  /\ healing' = healing \ {proc[p].of} /\ Handed
  /\ UNCHANGED <<inst, tab, owned, lock, client, session, told, mine, shared, restarted, overlapped>>

\* onExit: whichever process it was, the handle of the instance goes.  The
\* exit of a shell takes the surface with it.
Exit(p) ==
  /\ pending = {} /\ proc[p].state = "live"
  /\ proc' = [proc EXCEPT ![p].state = "exited"]
  /\ inst' = IF Exists(proc[p].of)
             THEN [inst EXCEPT ![proc[p].of] = [status |-> "stopped", handle |-> 0]] ELSE inst
  /\ tab' = IF proc[p].via = "command" THEN tab ELSE tab \ {proc[p].of}
  /\ UNCHANGED <<pending, batch, healing, owned, lock, client, session, told, mine, shared,
                 restarted, overlapped>>

(* Mutant: the instance is removed with its handle running. *)
DeleteOnly(i) ==
  /\ pending = {} /\ Exists(i)
  /\ inst' = [inst EXCEPT ![i] = [status |-> "gone", handle |-> 0]]
  /\ UNCHANGED <<proc, pending, batch, healing, tab, owned, lock, client, session, told, mine,
                 shared, restarted, overlapped>>

\* DELETE /api/instances/:id leaves the surface.
Delete(i) ==
  /\ pending = {} /\ Exists(i)
  /\ proc' = Stopped(i)
  /\ inst' = [inst EXCEPT ![i] = [status |-> "gone", handle |-> 0]]
  /\ UNCHANGED <<pending, batch, healing, tab, owned, lock, client, session, told, mine, shared,
                 restarted, overlapped>>

-----------------------------------------------------------------------------
(* Locks and sessions *)
Lock(k, i) ==
  /\ Heard(k) /\ lock[i] = NoSocket /\ lock' = [lock EXCEPT ![i] = k]
  /\ UNCHANGED <<inst, proc, pending, batch, healing, tab, owned, client, session, told, mine,
                 shared, restarted, overlapped>>

Unlock(k, i) ==
  /\ Heard(k) /\ lock[i] = k /\ lock' = [lock EXCEPT ![i] = NoSocket]
  /\ UNCHANGED <<inst, proc, pending, batch, healing, tab, owned, client, session, told, mine,
                 shared, restarted, overlapped>>

Hello(k, c) ==
  /\ client[k] = "new" /\ pending = {}
  /\ client' = [client EXCEPT ![k] = c]
  /\ IF session[c].away
     THEN /\ session' = [session EXCEPT ![c].sock = k, ![c].away = FALSE]
          /\ told' = [told EXCEPT ![k] = {i \in session[c].shells : Exists(i)}]
     ELSE session' = [session EXCEPT ![c] = [NoSession EXCEPT !.sock = k]] /\ UNCHANGED told
  /\ shared' = IF \E j \in Sockets : client[j] = c THEN shared \cup {c} ELSE shared
  /\ UNCHANGED <<inst, proc, pending, batch, healing, tab, owned, lock, mine, restarted, overlapped>>

(* Mutant: the session ends with its socket. *)
Forgotten(c) == NoSession

Away(c) == [session[c] EXCEPT !.away = TRUE]

\* A socket that is its browser's session marks it and returns early: what
\* it owned stays in the map.
Close(k) ==
  /\ Open(k) /\ pending = {}
  /\ client' = [client EXCEPT ![k] = "closed"]
  /\ lock' = [i \in Insts |-> IF lock[i] = k THEN NoSocket ELSE lock[i]]
  /\ LET c == client[k]
     IN IF session[c].sock = k
        THEN session' = [session EXCEPT ![c] = Away(c)] /\ UNCHANGED owned
        ELSE owned' = [owned EXCEPT ![k] = {}] /\ UNCHANGED session
  /\ UNCHANGED <<inst, proc, pending, batch, healing, tab, told, mine, shared, restarted, overlapped>>

-----------------------------------------------------------------------------
ShellsInit ==
  /\ inst = [i \in Insts |-> Absent] /\ proc = [p \in Procs |-> Unused]
  /\ pending = {} /\ batch = NoSocket /\ healing = {} /\ tab = {}
  /\ owned = [k \in Sockets |-> {}] /\ lock = [i \in Insts |-> NoSocket]
  /\ client = [k \in Sockets |-> "new"] /\ session = [c \in Clients |-> NoSession]
  /\ told = [k \in Sockets |-> {}] /\ mine = [c \in Clients |-> {}] /\ shared = {}
  /\ restarted = {} /\ overlapped = {}

ShellsNext ==
  \/ \E k \in Sockets :
       \/ \E i \in Insts :
            \/ \E viaSurface \in BOOLEAN : SpawnShell(k, i, viaSurface)
            \/ SpawnNew(k, i) \/ SelfHeal(k, i) \/ Restart(k, i) \/ Lock(k, i) \/ Unlock(k, i)
       \/ \E c \in Clients : Hello(k, c)
       \/ Close(k)
  \/ \E i \in Insts : Create(i) \/ Delete(i)
  \/ \E p \in Procs : Settle(p) \/ StartThrows(p) \/ Exit(p)

-----------------------------------------------------------------------------
Running(p) == proc[p].state = "live" /\ ~proc[p].stopped

\* A process that nobody stopped can be reached and stopped: it is the handle
\* of its instance.  It is not once the instance was restarted, because the
\* exit of the process before takes the handle away (relay-server.ts:1128), nor
\* when one chunk of a socket holds two messages that start a shell.
ShellsReachable ==
  \A p \in Procs : Running(p) =>
    \/ inst[proc[p].of] = [status |-> "running", handle |-> p]
    \/ proc[p].of \in restarted \cup overlapped

\* A browser that was never connected twice at a time is told, when it comes
\* back, of every shell it asked for that still exists (relay-server.ts:2557).
SessionsRecover ==
  \A c \in Clients \ shared : mine[c] \subseteq session[c].shells
    /\ \A k \in Sockets : client[k] = c => session[c].sock = k /\ ~session[c].away

\* "Kill existing process via handle" (relay-server.ts:1085): a restart leaves
\* no process of the instance running but its own.
RestartKills ==
  \A p, q \in Procs : Running(p) /\ Running(q) /\ proc[p].of = proc[q].of /\ p # q
    => proc[p].of \in overlapped

-------------------------------------------------------------------------------
(* The instances, their agents and the file they are restored from *)
sessVars == <<relay, instances, label, socket, agent, registered, file, dirty, timer, before, had>>

Instance == [status : {"none", "running", "stopped"}, label : Labels, source : {"local", "remote"},
             socket : Connections \cup {0}]
Listed == {i \in Ids : instances[i].status # "none"}

SessTypeOK ==
  /\ relay \in {"up", "stopping", "down"} /\ {dirty, timer} \subseteq BOOLEAN
  /\ instances \in [Ids -> Instance] /\ label \in [Agents -> Labels] /\ had \in [Agents -> Ids \cup {0}]
  /\ socket \in [Connections -> {"new", "open", "closed"}] /\ agent \in [Connections -> Agents \cup {NoAgent}]
  /\ registered \subseteq Connections /\ before \subseteq Ids
  /\ file \in [Ids -> Instance]

NewIds == {i \in Ids : \A j \in Listed \cup before \cup {had[a] : a \in Agents} : i > j}
NewId(i) == i \in NewIds /\ \A j \in NewIds : i <= j
Made(l, src, s) == [status |-> "running", label |-> l, source |-> src, socket |-> s]
Nothing == [status |-> "none", label |-> CHOOSE l \in Labels : TRUE, source |-> "local", socket |-> 0]
NoInstances == [i \in Ids |-> Nothing]

-----------------------------------------------------------------------------
(* SessionPersistence *)
Save == dirty' = TRUE /\ timer' = TRUE
AsStopped(i) == IF i.status = "none" THEN i ELSE [i EXCEPT !.status = "stopped", !.socket = 0]
WriteSnapshot == file' = IF dirty THEN [i \in Ids |-> AsStopped(instances[i])] ELSE file
Flush == WriteSnapshot /\ dirty' = FALSE /\ timer' = FALSE

SaveTimer ==
  /\ timer /\ relay # "down"
  /\ Flush
  /\ UNCHANGED <<relay, instances, label, socket, agent, registered, before, had>>

-----------------------------------------------------------------------------
(* Connections and agents *)
Connect(s, a) ==
  /\ relay = "up" /\ socket[s] = "new" /\ \A t \in Connections : t < s => socket[t] # "new"
  /\ socket' = [socket EXCEPT ![s] = "open"] /\ agent' = [agent EXCEPT ![s] = a]
  /\ UNCHANGED <<relay, instances, label, registered, file, dirty, timer, before, had>>

\* POST /api/instances, or a shell of a browser
CreateLocal(l) ==
  /\ relay = "up"
  /\ \E i \in Ids : NewId(i) /\ instances' = [instances EXCEPT ![i] = Made(l, "local", 0)]
  /\ UNCHANGED <<relay, label, socket, agent, registered, file, dirty, timer, before, had>>

(* Mutant: an instance of the label is taken over, running or not. *)
SameLabel(a) == {i \in Listed : instances[i].label = label[a] /\ instances[i].source = "remote"}

Reusable(a) ==
  {i \in Listed : instances[i].label = label[a] /\ instances[i].source = "remote" /\ instances[i].status = "stopped"}

\* agent.register: the first stopped instance with the label, else a new one
Register(s) ==
  LET a == agent[s] IN
  /\ relay = "up" /\ socket[s] = "open" /\ a # NoAgent /\ s \notin registered
  /\ registered' = registered \cup {s}
  /\ \E i \in Ids :
       /\ IF Reusable(a) = {} THEN NewId(i) ELSE i \in Reusable(a) /\ \A j \in Reusable(a) : i <= j
       /\ instances' = [instances EXCEPT ![i] = Made(label[a], "remote", s)]
       /\ had' = [had EXCEPT ![a] = i]
  /\ UNCHANGED <<relay, label, socket, agent, file, dirty, timer, before>>

\* The close of a socket, which may be noticed long after its agent has come
\* back on another: its instance is removed, not stopped.
SocketCloses(s) ==
  /\ socket[s] = "open" /\ relay # "down"
  /\ socket' = [socket EXCEPT ![s] = "closed"]
  /\ instances' = [i \in Ids |-> IF i \in Listed /\ instances[i].socket = s THEN Nothing ELSE instances[i]]
  /\ Save
  /\ UNCHANGED <<relay, label, agent, registered, file, before, had>>

-----------------------------------------------------------------------------
(* The relay stops, and starts again *)
\* shutdown(): the flush, the end of all instances, then of all sockets
Shutdown ==
  /\ relay = "up" /\ relay' = "stopping"
  /\ Flush /\ instances' = NoInstances /\ before' = Listed
  /\ UNCHANGED <<label, socket, agent, registered, had>>

\* When the last socket has closed, or after 5 s
RelayExits ==
  /\ relay = "stopping" /\ relay' = "down"
  /\ dirty' = FALSE /\ timer' = FALSE
  /\ socket' = [s \in Connections |-> IF socket[s] = "open" THEN "closed" ELSE socket[s]]
  /\ UNCHANGED <<instances, label, agent, registered, file, before, had>>

Crash ==
  /\ relay = "up" /\ relay' = "down"
  /\ instances' = NoInstances /\ dirty' = FALSE /\ timer' = FALSE /\ before' = {}
  /\ socket' = [s \in Connections |-> IF socket[s] = "open" THEN "closed" ELSE socket[s]]
  /\ UNCHANGED <<label, agent, registered, file, had>>

\* NodeRelayServer.start: each instance of the file gets a new id, and is stopped.
Saved == {i \in Ids : file[i].status # "none"}
RelayRestarts ==
  /\ relay = "down" /\ relay' = "up"
  /\ Cardinality(Saved) <= Cardinality(NewIds)
  /\ \E f \in [Saved -> NewIds] :
       /\ \A i, j \in Saved : i < j => f[i] < f[j]
       /\ \A i \in Saved, n \in NewIds : n < f[i] => \E j \in Saved : f[j] = n
       /\ instances' = [n \in Ids |-> IF \E i \in Saved : f[i] = n
                                 THEN file[CHOOSE i \in Saved : f[i] = n]
                                 ELSE Nothing]
  /\ before' = {}
  /\ UNCHANGED <<label, socket, agent, registered, file, dirty, timer, had>>

-----------------------------------------------------------------------------
SessInit ==
  /\ relay = "up" /\ instances = NoInstances /\ label \in [Agents -> Labels]
  /\ socket = [s \in Connections |-> "new"] /\ agent = [s \in Connections |-> NoAgent] /\ registered = {}
  /\ file = NoInstances /\ dirty = FALSE /\ timer = FALSE
  /\ before = {} /\ had = [a \in Agents |-> 0]

SessNext ==
  \/ \E s \in Connections : \/ \E a \in Agents \cup {NoAgent} : Connect(s, a)
                        \/ Register(s) \/ SocketCloses(s)
  \/ \E l \in Labels : CreateLocal(l)
  \/ SaveTimer \/ Shutdown \/ RelayExits \/ Crash \/ RelayRestarts

-----------------------------------------------------------------------------
\* While the relay is up, every agent that has registered has an instance of
\* its own that is running, whatever its label, and however late the relay
\* notices that an earlier socket of the agent is gone.
AgentsListed ==
  relay = "up" =>
    \A s \in registered : socket[s] = "open" =>
      Cardinality({i \in Listed : instances[i].socket = s /\ instances[i].status = "running"
                                  /\ instances[i].label = label[agent[s]]}) = 1

\* "When a leaf relay reconnects, it should reclaim its previous instance so
\* surfaces/workbench tabs remain associated" (relay-server.ts:2684-2685).
\* The close of its last socket has removed that instance.
Reclaims ==
  [][\A a \in Agents :
       had[a] # 0 /\ (\A s \in registered : agent[s] = a => socket[s] = "closed")
       => had'[a] = had[a]]_had

\* "Call this during graceful shutdown so no state is lost"
\* (session-persistence.ts:80): what a graceful shutdown leaves on disk are
\* the instances there were.  What changed since the last socket closed is not
\* written, and a socket that closes during the shutdown writes the empty list.
ShutdownKeeps == relay = "down" /\ before # {} => Saved = before
===============================================================================
