------------------------------ MODULE MCLinks ------------------------------
(***************************************************************************)
(* What crosses the connection to Core: the proxy client, the events route *)
(* at the other end of its stream, the direct client, and the keys of a    *)
(* terminal; and to the archived relay, its browser client.  The route is  *)
(* checked against EventStream, which is what the proxy client assumes of  *)
(* it; else they share nothing.  A behaviour is one of one of them, the    *)
(* others stay as they are initially.                                      *)
(***************************************************************************)
EXTENDS ProxyCoreClient

CONSTANTS
  MaxMessages,
  Sockets, NoSocket, Calls, MaxLinks,
  Sessions, NoSession, MaxBytes, MaxKeys,
  MaxIds, MaxLosses

VARIABLES
  subject,
  probing, ws, coreWs, cleanup, connectTimer, heartbeat, stream, out, aborted, earlyAbort,
  limit, directWs, sock, directStatus, stopped, retries, timers, call, via, inflight,
  wanted, reopened, settled,
  shown, buffer, timer, typedAt, writes, stdin, lost,
  insts, created, sealed, wire, losses, doubtful, crypto, link, hello, keyed, handling, list,
  shownStatus, post, made, delete, removing

\* No limit on attempts, and a limit that can be reached
Limits == {-1, 2}

Route == INSTANCE SseBridge
Direct == INSTANCE CoreClientDirect
  WITH ws <- directWs, status <- directStatus, disconnected <- stopped,
       attempts <- retries, calm <- settled
Input == INSTANCE TerminalInput
Browser == INSTANCE RelayClient WITH sock <- link, status <- shownStatus

routeVars == <<probing, ws, coreWs, cleanup, connectTimer, heartbeat, stream, out,
               aborted, earlyAbort>>
directVars == <<limit, directWs, sock, directStatus, stopped, retries, timers, call,
                via, inflight, wanted, reopened, settled>>
inputVars == <<shown, buffer, timer, typedAt, writes, stdin, lost>>
browserVars == <<insts, created, sealed, wire, losses, doubtful, crypto, link, hello, keyed, handling,
                 list, shownStatus, post, made, delete, removing>>
allVars == <<subject, vars, routeVars, directVars, inputVars, browserVars>>

MCInit ==
  /\ subject \in {"proxy", "route", "direct", "keys", "browser"}
  /\ Init /\ Route!Init /\ Direct!Init /\ Input!Init /\ Browser!ClientInit
  /\ subject # "proxy" => faults = {}
  /\ subject # "direct" => limit = 2
  /\ subject # "browser" => crypto

ProxyStep ==
  subject = "proxy" /\ Next /\ UNCHANGED <<subject, routeVars, directVars, inputVars, browserVars>>
RouteStep ==
  subject = "route" /\ Route!Next /\ UNCHANGED <<subject, vars, directVars, inputVars, browserVars>>
DirectStep ==
  subject = "direct" /\ Direct!Next /\ UNCHANGED <<subject, vars, routeVars, inputVars, browserVars>>
KeysStep ==
  subject = "keys" /\ Input!Next /\ UNCHANGED <<subject, vars, routeVars, directVars, browserVars>>
BrowserStep ==
  /\ subject = "browser" /\ Browser!ClientNext
  /\ UNCHANGED <<subject, vars, routeVars, directVars, inputVars>>

MCNext == ProxyStep \/ RouteStep \/ DirectStep \/ KeysStep \/ BrowserStep

(* The fairness of each module, for its own behaviours *)
MCSpec ==
  /\ MCInit /\ [][MCNext]_allVars
  /\ WF_vars(subject = "proxy" /\ ReconnectTimerFires)
  /\ WF_vars(subject = "proxy" /\ \E ok \in BOOLEAN : ProbeSettles(ok))
  /\ \A s \in Streams :
       /\ WF_vars(subject = "proxy" /\ StreamOpens(s))
       /\ WF_vars(subject = "proxy" /\ BridgeConnected(s))
       /\ WF_vars(subject = "proxy" /\ sse[s] = "ended" /\ NetworkError(s))
  /\ WF_routeVars(subject = "route" /\ \E healthy \in BOOLEAN : Route!ProbeSettles(healthy))
  /\ WF_routeVars(subject = "route" /\ Route!ConnectTimeout)
  /\ WF_routeVars(subject = "route" /\ ws = "closing" /\ Route!WsCloses)
  /\ WF_routeVars(subject = "route" /\ Route!Cancel)
  /\ WF_directVars(subject = "direct" /\ Direct!TimerFires)
  /\ \A c \in Calls : WF_directVars(subject = "direct" /\ Direct!CallTimeout(c))
  /\ \A s \in Sockets :
       /\ WF_directVars(subject = "direct" /\ settled /\ Direct!SocketOpens(s))
       /\ WF_directVars(subject = "direct" /\ sock[s] = "closing" /\ Direct!SocketCloses(s))
  /\ WF_inputVars(subject = "keys" /\ Input!TimerFires)
  /\ WF_inputVars(subject = "keys" /\ Input!WriteSettles)
  /\ WF_browserVars(subject = "browser" /\ Browser!Opens)
  /\ WF_browserVars(subject = "browser" /\ Browser!Hello)
  /\ WF_browserVars(subject = "browser" /\ Browser!TakesHello)
  /\ WF_browserVars(subject = "browser" /\ Browser!Receive)
  /\ WF_browserVars(subject = "browser" /\ \E m \in handling : Browser!Resolves(m))
  /\ WF_browserVars(subject = "browser" /\ Browser!Retry)

-----------------------------------------------------------------------------
\* No client of the events route waits for ever, however Core behaves, and
\* timers and sockets of a request that was cleaned up are released, early
\* aborts apart (events/route.ts:174).
RouteSettles == (subject = "route" => Route!ClientIsAnswered) /\ Route!ReleasesAll

\* What the browser sees of one request is the event stream that the proxy
\* client assumes.
ImplementsEventStream == Route!ImplementsEventStream

\* A direct client that is wanted has a socket or a timer, or it says 'error'
\* (core-client.ts:239), and a call of it settles, and once (core-client.ts:205).
DirectSettles == [](subject = "direct" => Direct!NeverSilentlyStranded) /\ Direct!CallsSettleOnce

\* The direct client implements the abstract link, recovery included.
DirectImplementsCoreLink == Direct!ImplementsCoreLink

\* A key never reaches another session than the one it was typed to, none is
\* dropped or sent twice, and it reaches its session unless its write fails
\* (terminal-input-buffer.ts).
KeysArrive == [](Input!KeysReachOwnSession /\ Input!KeysAccounted) /\ Input!KeysDelivered

\* The archived page comes back after lost sockets, and lists what the relay
\* has, with the exceptions the module names (use-ws.ts:184).
ArchivedPageAgrees ==
  subject = "browser" => []Browser!InstancesAgree /\ Browser!ClientRecovers
=============================================================================
