------------------------------ MODULE AgentNode -------------------------------
(***************************************************************************)
(* A node of the archived system: its connection to the relay              *)
(* (agent-core/relay-connection.ts) and the shells it keeps for it         *)
(* (agent-core/node-runtime.ts), over lost connections, shutdown and a     *)
(* crash.  The relay's side of the handshake is relay-server.ts:2536-2705. *)
(*                                                                         *)
(* reconnectTo and disconnectUpstream have no callers, so that connect()   *)
(* is called by start() and by the reconnect timer only: there is one      *)
(* socket.  Back-off, chunks, configuration and notifications are left     *)
(* out.                                                                    *)
(*                                                                         *)
(* One remote operation of the archived relay: RemoteOperationManager      *)
(* (src/remote-operation-manager.ts) with the handlers of relay-server.ts  *)
(* that call it, the agent that runs it (agent-core/operation-runner.ts),  *)
(* and the browsers that follow it.  Operations share nothing but the      *)
(* links.                                                                  *)
(*                                                                         *)
(* A message to a browser counts as seen when it is sent, the socket keeps *)
(* the order.  The two queues are the agent's connection: a link that is   *)
(* lost loses what is on it.  An output is a number.                       *)
(***************************************************************************)
EXTENDS Integers, Sequences, FiniteSets, SequencesExt

CONSTANTS
  MaxShells,   \* bound: shells ever made
  MaxLosses,   \* bound: connections lost or refused, and crashes
  MaxInputs,   \* bound: inputs of a shell, and how often one is sent on; inputs of the operation
  Browsers,
  BufferCap,   \* MAX_OUTPUT_SIZE, in outputs
  MaxSubs      \* bound: operation.subscribe messages

VARIABLES
  ws,          \* the socket: how far its handshake is; "late": closed before its answer
  closing,     \* RelayConnection.closing
  shutdown,    \* NodeRuntime.shutdown: not called, its first part run, or both
  reconnect,   \* the reconnect timer is armed
  crypto,      \* the relay encrypts
  upstream,    \* config.upstreamRelay is set; without it the relay is this process
  shell,       \* every shell: what for, and how it is
  shellProc,   \* the main shell, or 0
  pidFile,     \* .sessionbridge/shell.pid: a shell, or 0
  remoteShell, \* remoteShells.get(instance), or 0
  stdin,       \* agent.stdin on the way
  inputs, sent, \* inputs of browsers and probes of a spawn, and agent.stdin messages sent
  losses,
  prompt,      \* how the platform behaves: a shell that was killed closes its pipes before the
               \* node reconnects, or it may do so late
  forgotten,   \* history: shells whose place the close event of another one has emptied
  op,          \* the operation in the manager, or how it is asked for
  subscribers, \* op.subscribers
  seen,        \* what each browser was told
  toAgent,     \* relay.operation.* on the way
  fromAgent,   \* agent.operation.* on the way
  link,        \* the agent's connection: the first, none, or a later one
  runner,      \* OperationRunner: what the handler does
  emitted,     \* outputs the agent has made
  asked        \* inputs and subscriptions so far

(* The node: its connection and its shells *)
nodeVars == <<ws, closing, shutdown, reconnect, crypto, upstream, shell, shellProc, pidFile,
              remoteShell, stdin, inputs, sent, losses, prompt, forgotten>>

Shells == 1..MaxShells
NodeTypeOK ==
  /\ ws \in {"none", "connecting", "open", "registering", "registered", "late", "closing"}
  /\ {closing, reconnect, crypto, upstream} \subseteq BOOLEAN /\ shutdown \in {"no", "begun", "done"}
  /\ shell \in [Shells -> [for: {"none", "main", "orphan", "remote"}, state: {"none", "running", "killed", "gone"}]]
  /\ {shellProc, pidFile, remoteShell} \subseteq 0..MaxShells
  /\ {inputs, stdin, sent, losses} \subseteq Nat

Unmade == {p \in Shells : shell[p].state = "none"}
NewShell == CHOOSE p \in Unmade : TRUE   \* its number is only a name
Kill(s, ps) == [p \in Shells |-> IF p \in ps /\ s[p].state = "running" THEN [s[p] EXCEPT !.state = "killed"] ELSE s[p]]
Make(s, for) == [s EXCEPT ![NewShell] = [for |-> for, state |-> "running"]]

-----------------------------------------------------------------------------
(* The connection *)
Connect ==
  /\ reconnect /\ reconnect' = FALSE
  /\ prompt => \A p \in Shells : shell[p].state # "killed"
  /\ ws' = IF closing THEN ws ELSE "connecting"
  /\ UNCHANGED <<closing, shutdown, crypto, upstream, shell, shellProc, pidFile, remoteShell, stdin,
                 inputs, sent, losses, prompt, forgotten>>

\* open: hello.  welcome: agent.register.
Opens ==
  /\ ws = "connecting" /\ ws' = "open"
  /\ UNCHANGED <<closing, shutdown, reconnect, crypto, upstream, shell, shellProc, pidFile,
                 remoteShell, stdin, inputs, sent, losses, prompt, forgotten>>

Welcome ==
  /\ ws = "open" /\ ws' = "registering"
  /\ UNCHANGED <<closing, shutdown, reconnect, crypto, upstream, shell, shellProc, pidFile,
                 remoteShell, stdin, inputs, sent, losses, prompt, forgotten>>

\* spawnShell: the shell there is, and the one the pid file names, are killed.
SpawnShell ==
  /\ Unmade # {}
  /\ shell' = Make(Kill(shell, {shellProc, pidFile} \ {0}), "main")
  /\ shellProc' = NewShell /\ pidFile' = NewShell

\* After shutdown() what is encrypted cannot be read any more.
Ending == ws \in {"late", "closing"}
Readable == ~Ending \/ ~crypto

Registered ==
  /\ ws \in {"registering", "late"} /\ Readable
  /\ ws' = IF ws = "late" THEN "closing" ELSE "registered"
  /\ IF upstream THEN UNCHANGED <<shell, shellProc, pidFile>> ELSE SpawnShell
  /\ UNCHANGED <<closing, shutdown, reconnect, crypto, upstream, remoteShell, stdin, inputs,
                 sent, losses, prompt, forgotten>>

(* Mutant: the shells of the relay's terminals stay. *)
KillMain ==
  /\ shell' = Kill(shell, {shellProc})
  /\ shellProc' = 0 /\ remoteShell' = 0
  /\ pidFile' = IF shellProc # 0 THEN 0 ELSE pidFile

KillShells ==
  /\ shell' = Kill(shell, {shellProc, remoteShell})
  /\ shellProc' = 0 /\ remoteShell' = 0
  /\ pidFile' = IF shellProc # 0 THEN 0 ELSE pidFile

(* Mutant: only an error schedules a reconnect. *)
Given == reconnect' = (~closing /\ ws = "connecting")

Reconnects == reconnect' = ~closing

\* The close event, also of a connection that was refused
Closes ==
  /\ ws # "none" /\ ws' = "none"
  /\ IF closing THEN UNCHANGED losses ELSE losses < MaxLosses /\ losses' = losses + 1
  /\ KillShells /\ Reconnects
  /\ stdin' = 0
  /\ UNCHANGED <<closing, shutdown, crypto, upstream, inputs, sent, prompt, forgotten>>

-----------------------------------------------------------------------------
(* Shells of the relay's terminals *)
\* In a relay without upstream the instance is found in this very process:
\* it is a remote one, and its input goes to the agent, which is this node.
SendStdin == ~upstream /\ ws = "registered"
Again == stdin' = stdin + 1 /\ sent' = sent + 1

RelayShellSpawn ==
  /\ ws = "registered" \/ Ending
  /\ Readable /\ sent < MaxInputs
  /\ IF SendStdin
     THEN inputs' = inputs + 1 /\ Again /\ UNCHANGED <<shell, remoteShell>>
     ELSE /\ UNCHANGED <<stdin, inputs, sent>>
          /\ remoteShell = 0 /\ Unmade # {}
          /\ shell' = Make(shell, "remote") /\ remoteShell' = NewShell
  /\ UNCHANGED <<ws, closing, shutdown, reconnect, crypto, upstream, shellProc, pidFile, losses,
                 prompt, forgotten>>

Input ==
  /\ ws = "registered" /\ inputs < MaxInputs /\ sent < MaxInputs
  /\ inputs' = inputs + 1 /\ Again
  /\ UNCHANGED <<ws, closing, shutdown, reconnect, crypto, upstream, shell, shellProc, pidFile,
                 remoteShell, losses, prompt, forgotten>>

\* agent.stdin: sent on, or written to the shell, or dropped
Stdin ==
  /\ stdin > 0 /\ Readable
  /\ IF SendStdin
     THEN sent < MaxInputs /\ sent' = sent + 1 /\ UNCHANGED stdin
     ELSE stdin' = stdin - 1 /\ UNCHANGED sent
  /\ UNCHANGED <<ws, closing, shutdown, reconnect, crypto, upstream, shell, shellProc, pidFile,
                 remoteShell, inputs, losses, prompt, forgotten>>

\* A shell closes: the handlers do not look at which one it was.
Place(for) == CASE for = "main" -> shellProc [] for = "remote" -> remoteShell [] OTHER -> 0

ShellCloses(p) ==
  /\ shell[p].state \in {"running", "killed"}
  /\ shell' = [shell EXCEPT ![p].state = "gone"]
  /\ IF shell[p].for = "main" THEN shellProc' = 0 /\ pidFile' = 0 ELSE UNCHANGED <<shellProc,
                                                                                   pidFile>>
  /\ remoteShell' = IF shell[p].for = "remote" THEN 0 ELSE remoteShell
  /\ forgotten' = forgotten \cup ({Place(shell[p].for)} \ {0, p})
  /\ UNCHANGED <<ws, closing, shutdown, reconnect, crypto, upstream, stdin, inputs, sent, losses,
                 prompt>>

-----------------------------------------------------------------------------
(* Shutdown: killShell, then, an await later, RelayConnection.shutdown *)
BeginShutdown ==
  /\ shutdown = "no" /\ shutdown' = "begun"
  /\ shell' = Kill(shell, {shellProc}) /\ shellProc' = 0
  /\ pidFile' = IF shellProc # 0 THEN 0 ELSE pidFile
  /\ UNCHANGED <<ws, closing, reconnect, crypto, upstream, remoteShell, stdin, inputs, sent,
                 losses, prompt, forgotten>>

ShutDown ==
  /\ shutdown = "begun" /\ shutdown' = "done"
  /\ closing' = TRUE /\ reconnect' = FALSE
  /\ ws' = CASE ws = "none" -> ws [] ws = "registering" -> "late" [] OTHER -> "closing"
  /\ UNCHANGED <<crypto, upstream, shell, shellProc, pidFile, remoteShell, stdin, inputs, sent,
                 losses, prompt, forgotten>>

\* The node dies and is started again.  Its main shell does not die with it,
\* and the next process hears nothing of its end; the shells of terminals are
\* not written down anywhere, and are taken to end with their pipes.
Crash ==
  /\ losses < MaxLosses /\ losses' = losses + 1 /\ shutdown = "no"
  /\ ws' = "connecting" /\ reconnect' = FALSE /\ stdin' = 0
  /\ shellProc' = 0 /\ remoteShell' = 0
  /\ shell' = [p \in Shells |->
                 CASE shell[p].for = "remote" -> [shell[p] EXCEPT !.state = "gone"]
                   [] shell[p].for = "main" -> [shell[p] EXCEPT !.for = "orphan"]
                   [] OTHER -> shell[p]]
  /\ UNCHANGED <<closing, shutdown, crypto, upstream, pidFile, inputs, sent, prompt, forgotten>>

-----------------------------------------------------------------------------
NodeInit ==
  /\ ws = "connecting" /\ closing = FALSE /\ shutdown = "no" /\ reconnect = FALSE
  /\ crypto \in BOOLEAN /\ upstream \in BOOLEAN
  /\ shell = [p \in Shells |-> [for |-> "none", state |-> "none"]]
  /\ shellProc = 0 /\ pidFile = 0 /\ remoteShell = 0
  /\ stdin = 0 /\ inputs = 0 /\ sent = 0 /\ losses = 0
  /\ prompt \in BOOLEAN /\ forgotten = {}

NodeNext ==
  \/ Connect \/ Opens \/ Welcome \/ Registered \/ Closes
  \/ RelayShellSpawn \/ Input \/ Stdin \/ BeginShutdown \/ ShutDown \/ Crash
  \/ \E p \in Shells : ShellCloses(p)

-----------------------------------------------------------------------------
\* Every shell that runs is one the node can write to and kill, or the one
\* its pid file lets it kill (node-runtime.ts:525), over reconnects and a crash;
\* but for one that had its place when another closed, which takes it away
\* (:559, :612), and no other.  None is forgotten if killed shells close their
\* pipes before the node reconnects.
ShellsKnown ==
  /\ \A p \in Shells :
       shell[p].state = "running" => p \in {shellProc, pidFile, remoteShell} \cup forgotten
  /\ prompt => forgotten = {}

\* A node that is not shut down is registered again after every loss, and one
\* that is shut down ends with no connection and no shell.
NodeSettles ==
  /\ <>[](ws = "registered" \/ shutdown # "no")
  /\ shutdown = "done" ~> [](ws = "none" /\ shellProc = 0 /\ remoteShell = 0)

\* "prevents infinite message loops on standalone relays"
\* (node-runtime.ts:125): what a browser types is sent to the agent once.
\* On a standalone relay the agent is this process: it finds its own instance
\* and sends the input to itself again, and again.
InputOnce == sent <= inputs

-------------------------------------------------------------------------------
(* Operations: what the relay asks the node to run *)
opsVars == <<op, subscribers, seen, toAgent, fromAgent, link, runner, emitted, asked>>

Statuses == {"starting", "running", "completed", "failed", "cancelled"}
Kinds == {"echo", "info", "unknown", "adapter", "none"}
Nothing == [status |-> "unknown", outputs |-> <<>>, result |-> "none"]
NoOp == [kind |-> "none", remote |-> FALSE, status |-> "absent", buffer |-> <<>>, result |-> "none"]

Known == op.status # "absent"
Ended(o) == o.status \in {"completed", "failed"}

OpsTypeOK ==
  /\ op \in [kind: Kinds, remote: BOOLEAN, status: Statuses \cup {"absent"}, buffer: Seq(Nat),
             result: {"none", "ok", "error"}]
  /\ subscribers \subseteq Browsers /\ link \in {"first", "lost", "again"} /\ emitted \in Nat
  /\ seen \in [Browsers -> [status: Statuses \cup {"unknown"}, outputs: Seq(Nat),
                            result: {"none", "ok", "error"}]]
  /\ runner \in {"idle", "waiting", "done"}

-----------------------------------------------------------------------------
(* The manager: what it does to the operation, and tells its subscribers *)
Tell(bs, f(_)) == seen' = [b \in Browsers |-> IF b \in bs THEN f(seen[b]) ELSE seen[b]]

EmitStatus(status) ==
  /\ op' = [op EXCEPT !.status = status]
  /\ Tell(subscribers, LAMBDA s : [s EXCEPT !.status = status])

Trim(buffer) == IF Len(buffer) > BufferCap THEN Tail(buffer) ELSE buffer

EmitOutput(n) ==
  /\ op' = [op EXCEPT !.buffer = Trim(Append(@, n))]
  /\ Tell(subscribers, LAMBDA s : [s EXCEPT !.outputs = Append(@, n)])

Complete(result) ==
  LET status == IF result = "ok" THEN "completed" ELSE "failed"
  IN  /\ op' = [op EXCEPT !.status = status, !.result = result]
      /\ Tell(subscribers, LAMBDA s : [s EXCEPT !.status = status, !.result = result])

(* Mutant: a late joiner is told status and output, and no result. *)
ReplayNoResult(s) == [s EXCEPT !.status = op.status, !.outputs = @ \o op.buffer]

Replay(s) ==
  [s EXCEPT !.status = op.status, !.outputs = @ \o op.buffer,
            !.result = IF Ended(op) /\ op.result # "none" THEN op.result ELSE @]

-----------------------------------------------------------------------------
\* operation.start: create, subscribe the browser, forward.  An operation of
\* a local node stays 'starting': nothing runs it.
Start(b, kind, remote) ==
  LET status == IF remote THEN "running" ELSE "starting"
  IN  /\ ~Known /\ (remote => link = "first")
      /\ op' = [NoOp EXCEPT !.kind = kind, !.remote = remote, !.status = status]
      /\ subscribers' = {b}
      /\ Tell({b}, LAMBDA s : [s EXCEPT !.status = status])
      /\ toAgent' = IF remote THEN Append(toAgent, "start") ELSE toAgent
      /\ UNCHANGED <<fromAgent, link, runner, emitted, asked>>

Subscribe(b) ==
  /\ Known /\ asked.subs < MaxSubs /\ asked' = [asked EXCEPT !.subs = @ + 1]
  /\ subscribers' = subscribers \cup {b}
  /\ Tell({b}, Replay)
  /\ UNCHANGED <<op, toAgent, fromAgent, link, runner, emitted>>

\* The browser's socket closes; the page that comes back knows nothing.
SocketCloses(b) ==
  /\ b \in subscribers
  /\ subscribers' = subscribers \ {b} /\ seen' = [seen EXCEPT ![b] = Nothing]
  /\ UNCHANGED <<op, toAgent, fromAgent, link, runner, emitted, asked>>

\* cancel only marks the operation: the agent is not told.
Cancel ==
  /\ Known /\ op.status \notin {"completed", "failed", "cancelled"}
  /\ EmitStatus("cancelled")
  /\ UNCHANGED <<subscribers, toAgent, fromAgent, link, runner, emitted, asked>>

ForwardInput ==
  /\ Known /\ op.remote /\ link = "first"
  /\ asked.inputs < MaxInputs /\ asked' = [asked EXCEPT !.inputs = @ + 1]
  /\ toAgent' = Append(toAgent, "input")
  /\ UNCHANGED <<op, subscribers, seen, fromAgent, link, runner, emitted>>

-----------------------------------------------------------------------------
(* The agent *)
Status(status) == [type |-> "status", status |-> status, output |-> 0, result |-> "none"]
Output(n) == [type |-> "output", status |-> "running", output |-> n, result |-> "none"]
Result(result) == [type |-> "result", status |-> "running", output |-> 0, result |-> result]

\* transport.send: what is sent on a lost link is dropped.  No handler writes
\* more than one output at a time.
Sends(msgs) ==
  /\ fromAgent' = IF link # "lost" THEN fromAgent \o msgs ELSE fromAgent
  /\ emitted' = IF \E i \in DOMAIN msgs : msgs[i].type = "output" THEN emitted + 1 ELSE emitted

(* Mutant: a kind that the runner does not know is not answered. *)
AnswersSilent ==
  CASE op.kind \in {"none", "unknown"} -> <<>>
    [] op.kind = "info" -> <<Status("running"), Output(emitted + 1), Result("ok")>>
    [] op.kind = "adapter" -> <<Status("running"), Status("running"), Output(emitted + 1), Result("ok")>>
    [] op.kind = "echo" -> <<Status("running")>>

\* What a handler answers at once, after its first status
Answers ==
  CASE op.kind = "none" -> <<Status("failed"), Result("error")>>
    [] op.kind = "unknown" -> <<Status("running"), Status("failed"), Result("error")>>
    [] op.kind = "info" -> <<Status("running"), Output(emitted + 1), Result("ok")>>
    [] op.kind = "adapter" -> <<Status("running"), Status("running"), Output(emitted + 1), Result("ok")>>
    [] op.kind = "echo" -> <<Status("running")>>

RunnerStart ==
  /\ toAgent # <<>> /\ Head(toAgent) = "start"
  /\ toAgent' = Tail(toAgent)
  /\ runner' = IF op.kind = "echo" THEN "waiting" ELSE "done"
  /\ Sends(Answers)
  /\ UNCHANGED <<op, subscribers, seen, link, asked>>

RunnerInput ==
  /\ toAgent # <<>> /\ Head(toAgent) = "input"
  /\ toAgent' = Tail(toAgent)
  /\ Sends(<<Output(emitted + 1)>>)
  /\ UNCHANGED <<op, subscribers, seen, link, runner, asked>>

\* mock-echo answers 50 ms later.
EchoTimer ==
  /\ runner = "waiting" /\ runner' = "done"
  /\ Sends(<<Output(emitted + 1), Result("ok")>>)
  /\ UNCHANGED <<op, subscribers, seen, toAgent, link, asked>>

RelayReceives ==
  /\ fromAgent # <<>>
  /\ fromAgent' = Tail(fromAgent)
  /\ LET m == Head(fromAgent)
     IN  \/ m.type = "status" /\ EmitStatus(m.status)
         \/ m.type = "output" /\ EmitOutput(m.output)
         \/ m.type = "result" /\ Complete(m.result)
  /\ UNCHANGED <<subscribers, toAgent, link, runner, emitted, asked>>

AgentLost ==
  /\ link = "first" /\ link' = "lost" /\ toAgent' = <<>> /\ fromAgent' = <<>>
  /\ UNCHANGED <<op, subscribers, seen, runner, emitted, asked>>

\* The agent registers as another instance: the operation's instance is
\* gone, what its handler still sends is taken for the operation.
AgentReturns ==
  /\ link = "lost" /\ link' = "again"
  /\ UNCHANGED <<op, subscribers, seen, toAgent, fromAgent, runner, emitted, asked>>

-----------------------------------------------------------------------------
OpsInit ==
  /\ op = NoOp /\ subscribers = {} /\ seen = [b \in Browsers |-> Nothing]
  /\ toAgent = <<>> /\ fromAgent = <<>> /\ link = "first"
  /\ runner = "idle" /\ emitted = 0 /\ asked = [inputs |-> 0, subs |-> 0]

OpsNext ==
  \/ \E b \in Browsers :
       \/ \E kind \in Kinds, remote \in BOOLEAN : Start(b, kind, remote)
       \/ Subscribe(b) \/ SocketCloses(b)
  \/ Cancel \/ ForwardInput
  \/ RunnerStart \/ RunnerInput \/ EchoTimer \/ RelayReceives \/ AgentLost \/ AgentReturns

-----------------------------------------------------------------------------
\* R5 and R6 (remote-operation-manager.ts:11-12): whenever it joined, a
\* subscriber knows the status, the result and the buffered output that those
\* who followed from the start know, the outputs in order.
SubscribersAgree ==
  \A b \in subscribers :
    /\ seen[b].status = op.status /\ seen[b].result = op.result
    /\ IsSuffix(op.buffer, seen[b].outputs)

\* An operation that its agent was given ends, unless the agent is lost: a
\* browser that follows it is not left waiting.
OperationEnds == toAgent # <<>> ~> (Ended(op) \/ link # "first")
===============================================================================
