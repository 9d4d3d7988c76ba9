--------------------------- MODULE ProxyCoreClient ---------------------------
(***************************************************************************)
(* The browser's connection to Core (app/console/core/proxy-core-client.ts)*)
(*                                                                         *)
(* Events arrive over one EventSource on /api/core/events.  When it breaks *)
(* the client closes it and reconnects by one of three paths: the          *)
(* EventSource's own retry, an HTTP health probe that creates a new        *)
(* EventSource, or a backoff timer that leads to such a probe.  A second   *)
(* probe, node.health, races with the stream's first 'connected' event.    *)
(* Timers, fetch answers, stream events and the page's own calls (on,      *)
(* disconnect, call) interleave freely: each action below is one callback, *)
(* which runs to completion.                                               *)
(*                                                                         *)
(* Left out: the text of lastError, listener sets and delivery (no         *)
(* connection state depends on them), mesh reachability and routing.       *)
(***************************************************************************)
EXTENDS Integers

CONSTANTS
  Streams,         \* identities of EventSource objects
  NoStream,        \* _eventSource = null
  MaxAttempts,     \* attempts saturate here: the delay's cap, and only > 0 is tested
  MaxProbes,       \* bound: /api/core/health probes in flight
  MaxHealthCalls   \* bound: node.health calls in flight

ASSUME StreamsAssumption == NoStream \notin Streams
ASSUME BoundsAssumption ==
  /\ MaxAttempts \in Nat \ {0}
  /\ MaxProbes \in Nat \ {0}
  /\ MaxHealthCalls \in Nat \ {0}

VARIABLES
  es,                \* _eventSource
  sse,               \* browser and server side of every EventSource
  status,            \* _connectionStatus
  disconnected,      \* _disconnected
  attempts,          \* _reconnectAttempts
  reconnectTimer,    \* _reconnectTimer is armed
  backoffScheduled,  \* _backoffScheduled
  probeTimer,        \* _probeTimer is armed (2 s)
  probes,            \* health probes in flight in _probeCoreAndConnect
  healthCalls,       \* node.health calls in flight
  proxyHealthy,      \* _proxyHealthy
  subscribed,        \* on() has asked for the stream (history)
  calm,              \* Core and the network no longer fail (environment)
  faults             \* the faults this deployment may have (environment, fixed)

streamVars == <<es, sse, status, probeTimer>>
backoffVars == <<attempts, reconnectTimer, backoffScheduled>>
requestVars == <<probes, healthCalls, proxyHealthy>>
userVars == <<disconnected, subscribed>>
envVars == <<calm, faults>>
vars == <<es, sse, status, disconnected, attempts, reconnectTimer,
          backoffScheduled, probeTimer, probes, healthCalls, proxyHealthy,
          subscribed, calm, faults>>

\* "fatal": the stream may get a non-200 answer, as behind a gateway
\* "ctor":  new EventSource() may throw
Fault == {"fatal", "ctor"}

(***************************************************************************)
(* "connecting" and "open" are EventSource.CONNECTING and OPEN; on a       *)
(* "bridged" stream the server has also announced its WebSocket to Core;   *)
(* an "ended" one is still open in the browser but the server has finished *)
(* the response; "closed" is EventSource.CLOSED (and not yet created).     *)
(***************************************************************************)
StreamState == {"closed", "connecting", "open", "bridged", "ended"}
Status == {"disconnected", "connecting", "connected", "error"}

TypeOK ==
  /\ es \in Streams \cup {NoStream}
  /\ sse \in [Streams -> StreamState]
  /\ status \in Status
  /\ disconnected \in BOOLEAN
  /\ attempts \in 0..MaxAttempts
  /\ reconnectTimer \in BOOLEAN
  /\ backoffScheduled \in BOOLEAN
  /\ probeTimer \in BOOLEAN
  /\ probes \in 0..MaxProbes
  /\ healthCalls \in 0..MaxHealthCalls
  /\ proxyHealthy \in BOOLEAN
  /\ subscribed \in BOOLEAN
  /\ calm \in BOOLEAN
  /\ faults \subseteq Fault

Init ==
  /\ es = NoStream
  /\ sse = [s \in Streams |-> "closed"]
  /\ status = "disconnected"
  /\ disconnected = FALSE
  /\ attempts = 0
  /\ reconnectTimer = FALSE
  /\ backoffScheduled = FALSE
  /\ probeTimer = FALSE
  /\ probes = 0
  /\ healthCalls = 0
  /\ proxyHealthy = FALSE
  /\ subscribed = FALSE
  /\ calm = FALSE
  /\ faults \in SUBSET Fault

-----------------------------------------------------------------------------
Live(s) == sse[s] # "closed"

\* this._eventSource && this._eventSource.readyState !== CLOSED
HasStream == es \in Streams /\ sse[es] # "closed"

\* Mutant: nobody looks at _disconnected before reconnecting.
MayConnectAnyway == ~HasStream

\* What on() and a successful probe check before they connect
MayConnect == ~HasStream /\ ~disconnected

\* _connectSSE: a new EventSource and the 2 s timer that belongs to it.
ConnectSSE ==
  \/ /\ HasStream
     /\ UNCHANGED streamVars
  \/ /\ ~HasStream
     /\ \E s \in Streams :
          /\ sse[s] = "closed"
          /\ es' = s
          /\ sse' = [sse EXCEPT ![s] = "connecting"]
     /\ status' = "connecting"
     /\ probeTimer' = TRUE
  \/ /\ ~HasStream
     /\ "ctor" \in faults
     /\ status' = "error"
     /\ UNCHANGED <<es, sse, probeTimer>>

\* Mutant: the old EventSource is dropped without close().
NotClosed == sse

\* _eventSource.close()
Closed == IF es \in Streams THEN [sse EXCEPT ![es] = "closed"] ELSE sse

\* _closeSSE, and the status its callers set next to it
CloseSSE(newStatus) ==
  /\ sse' = Closed
  /\ es' = NoStream
  /\ probeTimer' = FALSE
  /\ status' = newStatus

\* _reconnectAttempts++, as far as the capped delay can tell
MoreAttempts == IF attempts < MaxAttempts THEN attempts + 1 ELSE attempts

\* _scheduleBackoffReconnect: replaces whatever timer is armed
ScheduleBackoff ==
  /\ attempts' = MoreAttempts
  /\ reconnectTimer' = TRUE

\* _probeCoreAndConnect, up to its fetch
StartProbe ==
  IF disconnected
  THEN UNCHANGED probes
  ELSE /\ probes < MaxProbes
       /\ probes' = probes + 1

-----------------------------------------------------------------------------
(* Calls of the page *)

On ==
  /\ subscribed' = (subscribed \/ ~disconnected)
  /\ IF MayConnect THEN ConnectSSE ELSE UNCHANGED streamVars
  /\ UNCHANGED <<disconnected, backoffVars, requestVars, envVars>>

Disconnect ==
  /\ disconnected' = TRUE
  /\ reconnectTimer' = FALSE
  /\ CloseSSE("disconnected")
  /\ UNCHANGED <<attempts, backoffScheduled, requestVars, subscribed, envVars>>

\* What _callAs does with its HTTP answer: unreachable (network error, 502,
\* 503), unauthorized (401), or any other answer.
CallOutcome == {"unreachable", "unauthorized", "answered"}

\* Any capability call a component makes settles.
CallSettles(outcome) ==
  /\ proxyHealthy' = (outcome # "unreachable")
  /\ status' = IF outcome = "unauthorized" THEN "disconnected" ELSE status
  /\ UNCHANGED <<es, sse, probeTimer, backoffVars, probes, healthCalls,
                 userVars, envVars>>

-----------------------------------------------------------------------------
(* Events of the EventSource *)

StreamOpens(s) ==
  /\ sse[s] = "connecting"
  /\ sse' = [sse EXCEPT ![s] = "open"]
  /\ UNCHANGED <<es, status, probeTimer, backoffVars, requestVars, userVars, envVars>>

\* event 'core' with type 'connected'
BridgeConnected(s) ==
  /\ sse[s] = "open"
  /\ sse' = [sse EXCEPT ![s] = "bridged"]
  /\ probeTimer' = FALSE
  /\ attempts' = 0
  /\ status' = "connected"
  /\ UNCHANGED <<es, reconnectTimer, backoffScheduled, requestVars, userVars, envVars>>

\* event 'core' with type 'core.offline'
CoreOffline(s) ==
  /\ sse[s] = "open"
  /\ ~calm
  /\ CloseSSE("disconnected")
  /\ backoffScheduled' = TRUE
  /\ ScheduleBackoff
  /\ UNCHANGED <<requestVars, userVars, envVars>>

\* onerror, after the 'error' listener has set the status to listenerStatus
\* and the browser has moved stream s to state after.
OnError(s, listenerStatus, after) ==
  \/ /\ backoffScheduled
     /\ backoffScheduled' = FALSE
     /\ sse' = [sse EXCEPT ![s] = after]
     /\ probeTimer' = FALSE
     /\ status' = listenerStatus
     /\ UNCHANGED <<es, attempts, reconnectTimer, probes>>
  \/ /\ ~backoffScheduled
     /\ CloseSSE("disconnected")
     /\ IF attempts > 0
        THEN ScheduleBackoff /\ UNCHANGED probes
        ELSE StartProbe /\ UNCHANGED <<attempts, reconnectTimer>>
     /\ UNCHANGED backoffScheduled

\* The server sends 'event: error', which reaches the listener and onerror,
\* and finishes the response.
ServerError(s) ==
  /\ sse[s] \in {"open", "bridged"}
  /\ ~calm
  /\ OnError(s, "error", "ended")
  /\ UNCHANGED <<healthCalls, proxyHealthy, userVars, envVars>>

\* The response ended or the network failed: the browser will retry by
\* itself unless onerror closes the stream.
NetworkError(s) ==
  /\ Live(s)
  /\ sse[s] = "ended" \/ ~calm
  /\ OnError(s, "disconnected", "connecting")
  /\ UNCHANGED <<healthCalls, proxyHealthy, userVars, envVars>>

\* A retry was answered with another status than 200 (401 from the route
\* gate, 502 from a gateway): the browser gives the stream up.
FatalError(s) ==
  /\ "fatal" \in faults
  /\ sse[s] = "connecting"
  /\ ~calm
  /\ OnError(s, "disconnected", "closed")
  /\ UNCHANGED <<healthCalls, proxyHealthy, userVars, envVars>>

-----------------------------------------------------------------------------
(* Timers and answers *)

\* Mutant: the timer checks for a stream and never probes.
ReconnectTimerFiresIdly ==
  /\ reconnectTimer
  /\ reconnectTimer' = FALSE
  /\ UNCHANGED <<streamVars, attempts, backoffScheduled, requestVars, userVars, envVars>>

ReconnectTimerFires ==
  /\ reconnectTimer
  /\ reconnectTimer' = FALSE
  /\ IF disconnected \/ HasStream THEN UNCHANGED probes ELSE StartProbe
  /\ UNCHANGED <<streamVars, attempts, backoffScheduled, healthCalls,
                 proxyHealthy, userVars, envVars>>

\* Mutant: a failed probe ends the backoff.
ProbeSettlesGivesUp(ok) ==
  /\ probes > 0
  /\ calm => ok
  /\ probes' = probes - 1
  /\ IF ok /\ MayConnect THEN ConnectSSE ELSE UNCHANGED streamVars
  /\ UNCHANGED <<backoffVars, healthCalls, proxyHealthy, userVars, envVars>>

\* The rest of _probeCoreAndConnect once its fetch has settled
ProbeSettles(ok) ==
  /\ probes > 0
  /\ calm => ok
  /\ probes' = probes - 1
  /\ IF ~ok
     THEN ScheduleBackoff /\ UNCHANGED streamVars
     ELSE /\ UNCHANGED <<attempts, reconnectTimer>>
          /\ IF MayConnect THEN ConnectSSE ELSE UNCHANGED streamVars
  /\ UNCHANGED <<backoffScheduled, healthCalls, proxyHealthy, userVars, envVars>>

ProbeTimerFires ==
  /\ probeTimer
  /\ probeTimer' = FALSE
  /\ IF status = "connected"
     THEN UNCHANGED healthCalls
     ELSE /\ healthCalls < MaxHealthCalls
          /\ healthCalls' = healthCalls + 1
  /\ UNCHANGED <<es, sse, status, backoffVars, probes, proxyHealthy, userVars, envVars>>

\* node.health is a call like any other whose success also sets the status;
\* it may also be answered with an error the caller swallows.
HealthCallSettles(outcome, ok) ==
  /\ healthCalls > 0
  /\ healthCalls' = healthCalls - 1
  /\ proxyHealthy' = (outcome # "unreachable")
  /\ status' = CASE outcome = "unauthorized" -> "disconnected"
                 [] outcome = "answered" /\ ok -> "connected"
                 [] OTHER -> status
  /\ UNCHANGED <<es, sse, probeTimer, backoffVars, probes, userVars, envVars>>

\* From here on Core and the network work.
Settle ==
  /\ ~calm
  /\ calm' = TRUE
  /\ UNCHANGED <<streamVars, backoffVars, requestVars, userVars, faults>>

-----------------------------------------------------------------------------
Next ==
  \/ On
  \/ Disconnect
  \/ \E o \in CallOutcome : CallSettles(o)
  \/ \E s \in Streams :
       \/ StreamOpens(s)
       \/ BridgeConnected(s)
       \/ CoreOffline(s)
       \/ ServerError(s)
       \/ NetworkError(s)
       \/ FatalError(s)
  \/ ReconnectTimerFires
  \/ \E ok \in BOOLEAN : ProbeSettles(ok)
  \/ ProbeTimerFires
  \/ \E o \in CallOutcome, ok \in BOOLEAN : HealthCallSettles(o, ok)
  \/ Settle

Safe == Init /\ [][Next]_vars

(***************************************************************************)
(* Timers fire, and a probe settles (AbortSignal.timeout).  The browser    *)
(* retries a stream by itself, and reports the end of a response it has    *)
(* seen; a route that works announces its bridge.  Nobody is obliged to    *)
(* subscribe, to call, to disconnect or to fail.                           *)
(***************************************************************************)
Fairness ==
  /\ WF_vars(ReconnectTimerFires)
  /\ WF_vars(\E ok \in BOOLEAN : ProbeSettles(ok))
  /\ \A s \in Streams :
       /\ WF_vars(StreamOpens(s))
       /\ WF_vars(BridgeConnected(s))
       /\ WF_vars(sse[s] = "ended" /\ NetworkError(s))

Spec == Safe /\ Fairness

-----------------------------------------------------------------------------
(***************************************************************************)
(* Properties                                                              *)
(***************************************************************************)

\* The client never holds two connection slots: an EventSource that is not
\* closed is the current one (comment on slots, proxy-core-client.ts:466).
OneLiveStream == \A s \in Streams : Live(s) => s = es

\* disconnect() is final for the stream: whatever timers and answers were
\* under way, none of them opens an EventSource afterwards.
QuietAfterDisconnect == disconnected => ~HasStream

\* The 2 s timer only runs for a stream that is still waiting for its first
\* 'connected': every path that ends the wait clears it.
ProbeTimerHasStream ==
  probeTimer => HasStream /\ sse[es] \in {"connecting", "open"}

\* Where the events route is answered with 200 or not at all, a client that
\* somebody subscribed to always has something under way that leads to a
\* stream: a stream the browser keeps alive, a timer or a probe.
NeverStranded ==
  faults = {} /\ subscribed /\ ~disconnected
  => HasStream \/ reconnectTimer \/ probes > 0

Bridged == es \in Streams /\ sse[es] = "bridged"

Unauthorized ==
  \/ CallSettles("unauthorized")
  \/ \E ok \in BOOLEAN : HealthCallSettles("unauthorized", ok)

\* While one stream stays bridged nothing but a 401 takes the status away
\* from 'connected': late probes, stale timers and other answers do not.
StatusHeldWhileBridged ==
  [][ Bridged /\ status = "connected" /\ Bridged' /\ es' = es
      => status' = "connected" \/ Unauthorized ]_vars

\* The client implements the abstract link; it owes nobody recovery from
\* fatal answers.
Link ==
  IF Bridged THEN "linked"
  ELSE IF disconnected THEN "stopped"
  ELSE IF subscribed THEN "recovering" ELSE "idle"

Abstract == INSTANCE CoreLink WITH link <- Link, calm <- (calm /\ faults = {})
ImplementsCoreLink == Abstract!Spec
ImplementsCoreLinkSafely == Abstract!Safe

(***************************************************************************)
(* What the comments and tests say and the code does not keep.             *)
(***************************************************************************)

\* "Set when backoff reconnect is already scheduled" (line 45): onerror
\* leaves an error to the backoff only if there is a backoff under way.
ErrorSkipped(s) ==
  /\ backoffScheduled
  /\ ServerError(s) \/ NetworkError(s) \/ FatalError(s)

SkipsOnlyWhenScheduled ==
  [][ (\E s \in Streams : ErrorSkipped(s)) => reconnectTimer \/ probes > 0 ]_vars
=============================================================================
