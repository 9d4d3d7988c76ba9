----------------------------- MODULE ExtensionHost -----------------------------
(***************************************************************************)
(* The extension host of the archived agent in development mode: the       *)
(* manager (agent-core/extension-host-manager.ts), the process it forks    *)
(* (agent-core/extension-host.ts), and the node that starts it, reloads it *)
(* when a file changes, and shuts it down (agent-core/node-runtime.ts).    *)
(*                                                                         *)
(* Of an extension only the version of its manifest is kept.  startInstance *)
(* and what follows from it have no callers.  A message that the process   *)
(* sent before it died can still be read, up to its exit event.            *)
(***************************************************************************)
EXTENDS Naturals, Sequences, FiniteSets

CONSTANTS
  MaxHosts,     \* bound: processes ever forked, the last of which does not die
  MaxRequests,  \* bound: requests ever sent
  MaxRespawns,
  MaxChanges    \* bound: changes of a file

Hosts == 1..MaxHosts
Requests == 1..MaxRequests

VARIABLES
  mgr,          \* ExtensionHostManager.state
  child,        \* the process it knows, or 0
  host,         \* every process; "dead": its exit event is to come
  current,      \* currentRequestId of the process
  handling,     \* requests whose handler awaits, with the version it scanned
  toHost, fromHost,
  request,      \* every request: what for, and how it ended
  crashCount, respawns,  \* and respawn timers that run
  start, down,  \* how far NodeRuntime.start and shutdown are
  files, active,\* version of the manifests, and the one activated in the process
  reloadTimer,
  overlapped, late, failed, \* history: overlapping reloads, a process ready after the shutdown,
                            \* or a reload that did not get there
  missed        \* history: a file changed after the activation had read it and before the
                \* watcher started, and none has since

hostVars == <<mgr, child, host, current, handling, toHost, fromHost, request, crashCount, respawns,
              start, down, files, active, reloadTimer, overlapped, late, failed, missed>>

Alive(h) == h # 0 /\ host[h] \in {"booting", "up"}
Made == {r \in Requests : request[r].kind # "none"}
Pending == {r \in Requests : request[r].outcome = "pending"}
NextId == Cardinality(Made) + 1
Forked == Cardinality({h \in Hosts : host[h] # "unused"})
Running == mgr = "running" /\ Alive(child)

HostTypeOK ==
  /\ mgr \in {"stopped", "starting", "running", "crashed"} /\ child \in 0..MaxHosts
  /\ host \in [Hosts -> {"unused", "booting", "up", "dead", "gone"}]
  /\ current \in 0..MaxRequests /\ handling \subseteq Requests \X (1..MaxChanges + 1)
  /\ request \in [Requests -> [kind : {"none", "activate", "reload", "shutdown"},
                               outcome : {"none", "pending", "own", "other", "error", "timeout"}]]
  /\ start \in {"no", "waiting", "activating", "done", "failed"}
  /\ down \in {"no", "asked", "waiting", "stopped"}

-----------------------------------------------------------------------------
(* Processes and requests *)
Spawn ==
  /\ Forked < MaxHosts
  /\ child' = Forked + 1 /\ host' = [host EXCEPT ![Forked + 1] = "booting"]
  /\ mgr' = "starting" /\ current' = 0 /\ handling' = {} /\ toHost' = <<>> /\ active' = 0

\* sendRequest throws if the process is not connected.
Send(kind) ==
  /\ NextId \in Requests
  /\ request' = [request EXCEPT ![NextId] =
                   [kind |-> kind, outcome |-> IF Alive(child) THEN "pending" ELSE "error"]]
  /\ toHost' = IF Alive(child) THEN Append(toHost, NextId) ELSE toHost

Settle(rs, outcome) ==
  [r \in Requests |-> IF r \in rs /\ request[r].outcome = "pending"
                      THEN [request[r] EXCEPT !.outcome = outcome] ELSE request[r]]

\* How the node goes on: activate() ends start(), and what became of the
\* shutdown request does not matter to shutdown().
StartAfter(rs, ok) ==
  start' = IF start = "activating" /\ \E r \in rs : request[r].kind = "activate"
           THEN IF ok THEN "done" ELSE "failed" ELSE start

StartHost ==
  /\ start = "no" /\ down = "no" /\ start' = "waiting" /\ Spawn
  /\ UNCHANGED <<fromHost, request, crashCount, respawns, down, files, reloadTimer,
                 overlapped, late, failed, missed>>

StartTimeout ==
  /\ start = "waiting" /\ start' = "failed"
  /\ UNCHANGED <<mgr, child, host, current, handling, toHost, fromHost, request, crashCount,
                 respawns, down, files, active, reloadTimer, overlapped, late, failed, missed>>

RequestTimeout(r) ==
  /\ r \in Pending /\ request' = Settle({r}, "timeout") /\ StartAfter({r}, FALSE)
  /\ UNCHANGED <<mgr, child, host, current, handling, toHost, fromHost, crashCount, respawns, down,
                 files, active, reloadTimer, overlapped, late, failed, missed>>

-----------------------------------------------------------------------------
(* The process *)
Boots ==
  /\ child # 0 /\ host[child] = "booting" /\ host' = [host EXCEPT ![child] = "up"]
  /\ fromHost' = Append(fromHost, [type |-> "ready", tag |-> 0, of |-> 0])
  /\ UNCHANGED <<mgr, child, current, handling, toHost, request, crashCount, respawns, start, down,
                 files, active, reloadTimer, overlapped, late, failed, missed>>

Answer(tag, r) == Append(fromHost, [type |-> "answer", tag |-> tag, of |-> r])
IsShutdown(r) == r = 0 \/ request[r].kind = "shutdown"

\* handleMessage, up to its await.  A reload first drops what is active.  A
\* shutdown exits at once: its answer may not get out.
HostReceives ==
  /\ child # 0 /\ host[child] = "up" /\ toHost # <<>>
  /\ toHost' = Tail(toHost)
  /\ LET r == Head(toHost) IN
     /\ current' = r
     /\ IF IsShutdown(r)
        THEN /\ host' = [host EXCEPT ![child] = "dead"]
             /\ fromHost' \in {fromHost, Answer(r, r)}
             /\ UNCHANGED <<handling, active, overlapped>>
        ELSE /\ handling' = handling \cup {<<r, files>>}
             /\ active' = IF request[r].kind = "reload" THEN 0 ELSE active
             /\ overlapped' = (overlapped \/ handling # {})
             /\ UNCHANGED <<host, fromHost>>
  /\ UNCHANGED <<mgr, child, request, crashCount, respawns, start, down, files, reloadTimer,
                 late, failed, missed>>

\* The handler goes on.  What it sends bears the id of the message that came last.
HandlerEnds ==
  /\ child # 0 /\ host[child] = "up"
  /\ \E h \in handling :
       /\ handling' = handling \ {h} /\ active' = h[2]
       /\ fromHost' = Answer(current, h[1])
  /\ UNCHANGED <<mgr, child, host, current, toHost, request, crashCount, respawns, start, down,
                 files, reloadTimer, overlapped, late, failed, missed>>

Dies ==
  /\ Alive(child) /\ Forked < MaxHosts /\ host' = [host EXCEPT ![child] = "dead"]
  /\ UNCHANGED <<mgr, child, current, handling, toHost, fromHost, request, crashCount, respawns,
                 start, down, files, active, reloadTimer, overlapped, late, failed, missed>>

-----------------------------------------------------------------------------
(* The manager *)
\* host.ready: start() resolves, and the node calls activate().
Ready ==
  /\ fromHost # <<>> /\ Head(fromHost).type = "ready" /\ fromHost' = Tail(fromHost)
  /\ mgr' = "running" /\ crashCount' = 0
  /\ IF start = "waiting"
     THEN /\ Send("activate") /\ start' = IF Alive(child) THEN "activating" ELSE "failed"
     ELSE UNCHANGED <<request, toHost, start>>
  /\ late' = (late \/ down = "stopped")
  /\ UNCHANGED <<child, host, current, handling, respawns, down, files, active, reloadTimer,
                 overlapped, failed, missed>>

\* An answer settles the request it bears the id of, if that still waits.
ManagerReceives ==
  /\ fromHost # <<>> /\ Head(fromHost).type = "answer" /\ fromHost' = Tail(fromHost)
  /\ LET m == Head(fromHost) IN
     IF m.tag \in Pending
     THEN /\ request' = Settle({m.tag}, IF m.of = m.tag THEN "own" ELSE "other")
          /\ StartAfter({m.tag}, TRUE)
     ELSE UNCHANGED <<request, start>>
  /\ UNCHANGED <<mgr, child, host, current, handling, toHost, crashCount, respawns, down, files,
                 active, reloadTimer, overlapped, late, failed, missed>>

Respawns(wasRunning) ==
  IF wasRunning
  THEN /\ crashCount' = crashCount + 1
       /\ respawns' = IF crashCount' <= MaxRespawns THEN respawns + 1 ELSE respawns
  ELSE UNCHANGED <<crashCount, respawns>>

\* onChildExit.  A shutdown that waits for it ends in the same event.
ChildExits ==
  /\ child # 0 /\ host[child] = "dead" /\ fromHost = <<>>
  /\ host' = [host EXCEPT ![child] = "gone"] /\ child' = 0
  /\ request' = Settle(Requests, "error") /\ StartAfter(Pending, FALSE)
  /\ Respawns(mgr \in {"running", "starting"})
  /\ IF down \in {"asked", "waiting"}
     THEN mgr' = "stopped" /\ down' = "stopped"
     ELSE mgr' = "crashed" /\ UNCHANGED down
  /\ UNCHANGED <<current, handling, toHost, fromHost, files, active, reloadTimer, overlapped, late, failed, missed>>

(* Mutant: the timer does not look whether the manager was shut down. *)
AlwaysSpawn == child = 0

MaySpawn == mgr = "crashed"

RespawnTimer ==
  /\ respawns > 0 /\ respawns' = respawns - 1
  /\ IF MaySpawn THEN Spawn
     ELSE UNCHANGED <<mgr, child, host, current, handling, toHost, active>>
  /\ UNCHANGED <<fromHost, request, crashCount, start, down, files, reloadTimer, overlapped, late, failed, missed>>

-----------------------------------------------------------------------------
(* The node: a file changes, and half a second later reload(), if the watcher
   has started, which it does when activate() is over *)
FileChanges ==
  /\ start \in {"waiting", "activating", "done"} /\ down = "no" /\ files <= MaxChanges
  /\ files' = files + 1 /\ reloadTimer' = (start = "done")
  /\ missed' = (start = "activating" /\ toHost = <<>>)
  /\ UNCHANGED <<mgr, child, host, current, handling, toHost, fromHost, request, crashCount,
                 respawns, start, down, active, overlapped, late, failed>>

(* Mutant: no reload while a request is under way. *)
ReloadIfIdle ==
  /\ reloadTimer /\ reloadTimer' = FALSE
  /\ IF Running /\ Pending = {}
     THEN Send("reload") ELSE UNCHANGED <<request, toHost>>
  /\ failed' = (failed \/ ~Running)
  /\ UNCHANGED <<mgr, child, host, current, handling, fromHost, crashCount, respawns, start, down,
                 files, active, overlapped, late, missed>>

Reload ==
  /\ reloadTimer /\ reloadTimer' = FALSE
  /\ IF Running THEN Send("reload") /\ UNCHANGED failed
                ELSE failed' = TRUE /\ UNCHANGED <<request, toHost>>
  /\ UNCHANGED <<mgr, child, host, current, handling, fromHost, crashCount, respawns, start, down,
                 files, active, overlapped, late, missed>>

Shutdown ==
  /\ down = "no" /\ start # "no"
  /\ IF Alive(child)
     THEN Send("shutdown") /\ down' = "asked" /\ UNCHANGED <<mgr, start>>
     ELSE /\ down' = "stopped" /\ mgr' = "stopped"
          /\ request' = Settle(Requests, "error") /\ StartAfter(Pending, FALSE)
          /\ UNCHANGED toHost
  /\ UNCHANGED <<child, host, current, handling, fromHost, crashCount, respawns, files, active,
                 reloadTimer, overlapped, late, failed, missed>>

\* The request was answered, or was not in 5 s: ask again, and wait.
Asked == \E r \in Made : request[r].kind = "shutdown" /\ r \notin Pending
AskAgain ==
  /\ down = "asked" /\ Asked /\ Alive(child)
  /\ down' = "waiting" /\ toHost' = Append(toHost, 0)
  /\ UNCHANGED <<mgr, child, host, current, handling, fromHost, request, crashCount, respawns,
                 start, files, active, reloadTimer, overlapped, late, failed, missed>>

\* Two seconds later, or if the process is not connected, cleanup
Cleanup ==
  /\ \/ down = "waiting"
     \/ down = "asked" /\ Asked /\ ~Alive(child)
  /\ host' = IF Alive(child) THEN [host EXCEPT ![child] = "dead"] ELSE host
  /\ down' = "stopped" /\ mgr' = "stopped"
  /\ request' = Settle(Requests, "error") /\ StartAfter(Pending, FALSE)
  /\ UNCHANGED <<child, current, handling, toHost, fromHost, crashCount, respawns, files, active,
                 reloadTimer, overlapped, late, failed, missed>>

-----------------------------------------------------------------------------
HostInit ==
  /\ mgr = "stopped" /\ child = 0 /\ host = [h \in Hosts |-> "unused"]
  /\ current = 0 /\ handling = {} /\ toHost = <<>> /\ fromHost = <<>>
  /\ request = [r \in Requests |-> [kind |-> "none", outcome |-> "none"]]
  /\ crashCount = 0 /\ respawns = 0 /\ start = "no" /\ down = "no"
  /\ files = 1 /\ active = 0 /\ reloadTimer = FALSE
  /\ overlapped = FALSE /\ late = FALSE /\ failed = FALSE /\ missed = FALSE

HostNext ==
  \/ StartHost \/ StartTimeout \/ Boots \/ HostReceives \/ HandlerEnds \/ Dies
  \/ Ready \/ ManagerReceives \/ ChildExits \/ RespawnTimer
  \/ FileChanges \/ Reload \/ Shutdown \/ AskAgain \/ Cleanup
  \/ \E r \in Requests : RequestTimeout(r)

-----------------------------------------------------------------------------
\* No second process is ever forked while one lives, and once the shutdown is
\* over none lives and none is forked any more.  One is if the process that
\* was killed had just become ready (extension-host-manager.ts:438).
OneHost ==
  /\ \A h \in Hosts : Alive(h) => h = child
  /\ down = "stopped" /\ ~late => ~Alive(child)

\* The process has activated the manifests as they are once all is quiet, but
\* for one that changed after the activation had read it and before the watcher
\* started (node-runtime.ts:215), until the next change; unless it was forked
\* anew, which nobody activates, a reload failed, or two reloads overlapped, of
\* which the first may end last.
ManifestsCurrent ==
  (start = "done" /\ down = "no" /\ child = 1 /\ Alive(1) /\ ~reloadTimer /\ ~overlapped /\ ~failed
     /\ handling = {} /\ toHost = <<>>) => (active = files <=> ~missed)

\* Every request settles, and a manager that is not shut down has a process
\* that runs, or gave up after MaxRespawns of them.
HostSettles ==
  /\ \A r \in Requests : r \in Pending ~> r \notin Pending
  /\ <>[](start \in {"no", "failed"} \/ down # "no" \/ Running \/ crashCount > MaxRespawns)

\* "The host echoes our `requestId` so we can match responses to requests"
\* (extension-host-manager.ts:386): a request is settled by its own answer.
\* Of two reloads at a time the first to end is taken for the second.
AnswersAreOwn == \A r \in Requests : request[r].outcome # "other"
=============================================================================
