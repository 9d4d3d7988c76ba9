-------------------------------- MODULE MCAgents -------------------------------
(***************************************************************************)
(* Processes that run for a console somewhere else, and what they owe it:  *)
(* the Claude adapter with the chat that shows it, and its model providers;*)
(* and of the archived agent an operation, its connection with the shells  *)
(* it keeps, and its extension host.  A behaviour is one of one of them,   *)
(* the subject, while the others stay as they are initially.               *)
(***************************************************************************)
EXTENDS ClaudeChat

CONSTANTS
  Browsers, BufferCap, MaxInputs, MaxSubs,
  MaxShells, MaxLosses,
  MaxHosts, MaxRequests, MaxRespawns, MaxChanges,
  MaxEvents

\* The bounds are numbers.
ASSUME AgentsBounds == MaxShells \in Nat /\ MaxHosts \in Nat

VARIABLES
  subject,
  op, subscribers, seen, toAgent, fromAgent, link, runner, emitted, asked,
  ws, closing, shutdown, reconnect, crypto, upstream, shell, shellProc, pidFile, remoteShell,
  typed, inputs, sent, losses, prompt, forgotten,
  mgr, child, host, current, handling, toHost, fromHost, request, crashCount, respawns, start,
  down, files, active, reloadTimer, overlapped, late, failed, missed,
  answer, wire, buffer, eventType, call, out, ended

Node == INSTANCE AgentNode WITH stdin <- typed
Host == INSTANCE ExtensionHost
Provider == INSTANCE ProviderStreams

opsVars == <<op, subscribers, seen, toAgent, fromAgent, link, runner, emitted, asked>>
nodeVars == <<ws, closing, shutdown, reconnect, crypto, upstream, shell, shellProc, pidFile,
               remoteShell, typed, inputs, sent, losses, prompt, forgotten>>
hostVars == <<mgr, child, host, current, handling, toHost, fromHost, request, crashCount, respawns,
             start, down, files, active, reloadTimer, overlapped, late, failed, missed>>
providerVars == <<answer, wire, buffer, eventType, call, out, ended>>
agentsVars == <<subject, allVars, opsVars, nodeVars, hostVars, providerVars>>

AgentsInit ==
  /\ subject \in {"chat", "operation", "node", "host", "provider"}
  /\ ChatInit /\ Node!OpsInit /\ Node!NodeInit /\ Host!HostInit
  /\ subject # "node" => crypto /\ upstream /\ prompt
  /\ Provider!StreamInit
  /\ subject # "provider" => answer = <<>>

ChatStep == subject = "chat" /\ ChatNext /\ UNCHANGED <<subject, opsVars, nodeVars, hostVars, providerVars>>
OpStep == subject = "operation" /\ Node!OpsNext /\ UNCHANGED <<subject, allVars, nodeVars, hostVars, providerVars>>
NodeStep == subject = "node" /\ Node!NodeNext /\ UNCHANGED <<subject, allVars, opsVars, hostVars, providerVars>>
HostStep == subject = "host" /\ Host!HostNext /\ UNCHANGED <<subject, allVars, opsVars, nodeVars, providerVars>>
ProviderStep ==
  /\ subject = "provider" /\ Provider!StreamNext
  /\ UNCHANGED <<subject, allVars, opsVars, nodeVars, hostVars>>

AgentsNext == ChatStep \/ OpStep \/ NodeStep \/ HostStep \/ ProviderStep

\* Whatever a socket delivers is handled, a connection attempt ends, and a
\* timer fires; what browsers, files and crashes do is not owed.
OpFairness ==
  /\ WF_opsVars(subject = "operation" /\ Node!RunnerStart)
  /\ WF_opsVars(subject = "operation" /\ Node!RunnerInput)
  /\ WF_opsVars(subject = "operation" /\ Node!EchoTimer)
  /\ WF_opsVars(subject = "operation" /\ Node!RelayReceives)

NodeFairness ==
  /\ WF_nodeVars(subject = "node" /\ Node!Connect)
  /\ WF_nodeVars(subject = "node" /\ Node!Opens)
  /\ WF_nodeVars(subject = "node" /\ Node!Welcome)
  /\ WF_nodeVars(subject = "node" /\ ws = "registering" /\ Node!Registered)
  /\ WF_nodeVars(subject = "node" /\ closing /\ Node!Closes)
  /\ \A p \in 1..MaxShells :
       WF_nodeVars(subject = "node" /\ shell[p].state = "killed" /\ Node!ShellCloses(p))

HostFairness ==
  /\ WF_hostVars(subject = "host" /\ Host!Boots)
  /\ WF_hostVars(subject = "host" /\ Host!Ready)
  /\ WF_hostVars(subject = "host" /\ Host!ManagerReceives)
  /\ WF_hostVars(subject = "host" /\ Host!ChildExits)
  /\ WF_hostVars(subject = "host" /\ Host!RespawnTimer)
  /\ \A r \in 1..MaxRequests : WF_hostVars(subject = "host" /\ Host!RequestTimeout(r))

AgentsSpec ==
  /\ AgentsInit /\ [][AgentsNext]_agentsVars
  /\ ChatFairness /\ OpFairness /\ NodeFairness /\ HostFairness

-----------------------------------------------------------------------------
\* While the chat shows 'running' something is owed that will end it, and
\* plain turns write one result each (claude-chat/adapter/index.js:318); and an
\* answer of a model has its effect however it is cut (providers/anthropic.js:84).
TurnsAreOwed ==
  /\ subject = "chat" => ResultsBalanced /\ RunningIsOwed
  /\ subject = "provider" => Provider!PiecesDoNotMatter

\* Whenever it joined, a subscriber of an operation knows what the others know
\* (remote-operation-manager.ts:11).
SubscribersAgree == subject = "operation" => Node!SubscribersAgree

\* No shell of a node is forgotten, over reconnects and a crash
\* (node-runtime.ts:525).
ShellsKnown == subject = "node" => Node!ShellsKnown

\* There is one extension host, none after a shutdown, and its manifests are
\* those on the disk once all is quiet, but for a change that the watcher was
\* not there to see (extension-host-manager.ts:305, node-runtime.ts:215).
HostIsCurrent == subject = "host" => Host!OneHost /\ Host!ManifestsCurrent

\* A turn ends (index.js:318); an operation ends (operation-runner.ts:102); a node registers again, or is
\* shut down with nothing left (relay-connection.ts:268); every request to the
\* extension host settles (extension-host-manager.ts:388).
Settles ==
  /\ subject = "chat" => TurnEnds
  /\ subject = "operation" => Node!OperationEnds
  /\ subject = "node" => Node!NodeSettles
  /\ subject = "host" => Host!HostSettles

\* Stated of the program, and not so: see the modules.
OnlyOneRun == subject = "chat" => OneRun
AnswersAreOwn == subject = "host" => Host!AnswersAreOwn
InputOnce == subject = "node" => Node!InputOnce
=============================================================================
