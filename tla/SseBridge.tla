------------------------------ MODULE SseBridge ------------------------------
(***************************************************************************)
(* One request of GET /api/core/events (app/api/core/events/route.ts): the *)
(* server probes Core's HTTP health, opens a WebSocket to Core and         *)
(* forwards its messages as server-sent events until either side is gone.  *)
(* Requests share nothing, so one is modelled.  Each action is one         *)
(* callback: the probe's continuation, a WebSocket event, a timer, the     *)
(* abort of the request or the cancellation of its stream.                 *)
(***************************************************************************)
EXTENDS Naturals, Sequences, FiniteSets

CONSTANT MaxMessages   \* bound: messages Core sends

VARIABLES
  probing,       \* start() waits for the health probe (line 81)
  ws,            \* the WebSocket to Core, as the ws library has it
  coreWs,        \* the variable coreWs is not null
  cleanup,       \* the variable cleanup
  connectTimer,  \* connectTimer is armed (15 s)
  heartbeat,     \* heartbeatTimer is armed (25 s)
  stream,        \* the ReadableStream: "readable", "closed", "cancelled"
  out,           \* events the browser receives
  aborted,       \* request.signal has been aborted
  earlyAbort     \* ... while the probe was in flight (history)

vars == <<probing, ws, coreWs, cleanup, connectTimer, heartbeat, stream, out,
          aborted, earlyAbort>>
requestVars == <<aborted, earlyAbort>>

WsState == {"none", "connecting", "open", "closing", "closed"}
Event == {"connected", "message", "error", "offline"}

TypeOK ==
  /\ probing \in BOOLEAN
  /\ ws \in WsState
  /\ coreWs \in BOOLEAN
  /\ cleanup \in BOOLEAN
  /\ connectTimer \in BOOLEAN
  /\ heartbeat \in BOOLEAN
  /\ stream \in {"readable", "closed", "cancelled"}
  /\ out \in Seq(Event)
  /\ aborted \in BOOLEAN
  /\ earlyAbort \in BOOLEAN

Init ==
  /\ probing = TRUE
  /\ ws = "none"
  /\ coreWs = FALSE
  /\ cleanup = FALSE
  /\ connectTimer = FALSE
  /\ heartbeat = FALSE
  /\ stream = "readable"
  /\ out = <<>>
  /\ aborted = FALSE
  /\ earlyAbort = FALSE

-----------------------------------------------------------------------------
WsLive == ws \in {"connecting", "open"}

\* coreWs?.close()
Closing == IF coreWs /\ WsLive THEN "closing" ELSE ws

Messages == Cardinality({i \in 1..Len(out) : out[i] = "message"})

\* new WebSocket(connectUrl) and the 15 s timer (lines 99-112)
OpenSocket ==
  /\ ws' = "connecting"
  /\ coreWs' = TRUE
  /\ connectTimer' = TRUE

\* Mutant: after the offline event the route opens the WebSocket as well.
ProbeFallsThrough(healthy) ==
  /\ probing
  /\ probing' = FALSE
  /\ OpenSocket
  /\ IF healthy \/ stream # "readable"
     THEN UNCHANGED <<out, stream, cleanup>>
     ELSE /\ out' = IF aborted THEN out ELSE Append(out, "offline")
          /\ stream' = "closed"
          /\ cleanup' = TRUE
  /\ UNCHANGED <<heartbeat, requestVars>>

\* The health probe settles.  When Core is not healthy the client is told,
\* unless its stream is gone: then enqueue throws, and the catch clause
\* falls through to the WebSocket.
ProbeSettles(healthy) ==
  /\ probing
  /\ probing' = FALSE
  /\ \/ /\ ~healthy
        /\ stream = "readable"
        /\ out' = IF aborted THEN out ELSE Append(out, "offline")
        /\ stream' = "closed"
        /\ cleanup' = TRUE
        /\ UNCHANGED <<ws, coreWs, connectTimer>>
     \/ /\ healthy \/ stream # "readable"
        /\ OpenSocket
        /\ UNCHANGED <<out, stream, cleanup>>
  /\ UNCHANGED <<heartbeat, requestVars>>

\* coreWs.on('open')
WsOpens ==
  /\ ws = "connecting"
  /\ ws' = "open"
  /\ IF cleanup
     THEN UNCHANGED <<connectTimer, heartbeat, out>>
     ELSE /\ connectTimer' = FALSE
          /\ out' = Append(out, "connected")
          /\ heartbeat' = TRUE
  /\ UNCHANGED <<probing, coreWs, cleanup, stream, requestVars>>

\* coreWs.on('message')
WsMessage ==
  /\ ws = "open"
  /\ ~cleanup
  /\ Messages < MaxMessages
  /\ out' = Append(out, "message")
  /\ UNCHANGED <<probing, ws, coreWs, cleanup, connectTimer, heartbeat, stream,
                 requestVars>>

\* Mutant: the stream is left open.
TearDownLeavesStream ==
  /\ cleanup' = TRUE
  /\ connectTimer' = FALSE
  /\ heartbeat' = FALSE
  /\ coreWs' = FALSE
  /\ UNCHANGED stream

\* Everything the handlers of 'error' and 'close' share
TearDown ==
  /\ cleanup' = TRUE
  /\ connectTimer' = FALSE
  /\ heartbeat' = FALSE
  /\ stream' = "closed"
  /\ coreWs' = FALSE

\* coreWs.on('error'); the ws library closes the socket next
WsError ==
  /\ WsLive
  /\ ws' = "closing"
  /\ IF cleanup
     THEN UNCHANGED <<coreWs, cleanup, connectTimer, heartbeat, stream, out>>
     ELSE TearDown /\ out' = Append(out, "error")
  /\ UNCHANGED <<probing, requestVars>>

\* coreWs.on('close'), from Core or at the end of our own closing
WsCloses ==
  /\ ws \in {"open", "closing"}
  /\ ws' = "closed"
  /\ IF cleanup
     THEN UNCHANGED <<coreWs, cleanup, connectTimer, heartbeat, stream>>
     ELSE TearDown
  /\ UNCHANGED <<probing, out, requestVars>>

\* Mutant: the timer gives up without a word.
ConnectTimeoutSilent ==
  /\ connectTimer
  /\ connectTimer' = FALSE
  /\ cleanup' = TRUE
  /\ ws' = Closing
  /\ coreWs' = FALSE
  /\ UNCHANGED <<probing, heartbeat, stream, out, requestVars>>

\* The 15 s timer: the WebSocket did not open
ConnectTimeout ==
  /\ connectTimer
  /\ connectTimer' = FALSE
  /\ IF cleanup
     THEN UNCHANGED <<ws, coreWs, cleanup, stream, out>>
     ELSE /\ cleanup' = TRUE
          /\ ws' = Closing
          /\ coreWs' = FALSE
          /\ out' = Append(out, "error")
          /\ stream' = "closed"
  /\ UNCHANGED <<probing, heartbeat, requestVars>>

\* The browser closed the stream: Next.js aborts the request's signal ...
Abort ==
  /\ ~aborted
  /\ aborted' = TRUE
  /\ earlyAbort' = probing
  /\ cleanup' = TRUE
  /\ IF cleanup
     THEN UNCHANGED <<connectTimer, heartbeat, ws, coreWs>>
     ELSE /\ connectTimer' = FALSE
          /\ heartbeat' = FALSE
          /\ ws' = Closing
          /\ coreWs' = FALSE
  /\ UNCHANGED <<probing, stream, out>>

\* ... and then cancels the stream (comment at line 58): cancel() alone would
\* leave the heartbeat running.
Cancel ==
  /\ aborted
  /\ stream = "readable"
  /\ stream' = "cancelled"
  /\ cleanup' = TRUE
  /\ IF cleanup
     THEN UNCHANGED <<connectTimer, ws, coreWs>>
     ELSE /\ connectTimer' = FALSE
          /\ ws' = Closing
          /\ coreWs' = FALSE
  /\ UNCHANGED <<probing, heartbeat, out, requestVars>>

-----------------------------------------------------------------------------
Next ==
  \/ \E healthy \in BOOLEAN : ProbeSettles(healthy)
  \/ WsOpens
  \/ WsMessage
  \/ WsError
  \/ WsCloses
  \/ ConnectTimeout
  \/ Abort
  \/ Cancel

(***************************************************************************)
(* The probe settles (AbortSignal.timeout), timers fire, a socket that is  *)
(* being closed ends up closed, and an aborted stream is cancelled.  Core  *)
(* need neither accept the WebSocket nor refuse it.                        *)
(***************************************************************************)
Fairness ==
  /\ WF_vars(\E healthy \in BOOLEAN : ProbeSettles(healthy))
  /\ WF_vars(ConnectTimeout)
  /\ WF_vars(ws = "closing" /\ WsCloses)
  /\ WF_vars(Cancel)

Spec == Init /\ [][Next]_vars /\ Fairness

-----------------------------------------------------------------------------
(***************************************************************************)
(* Properties                                                              *)
(***************************************************************************)

\* The handlers that enqueue without a try block ('open', line 124, and the
\* connection timeout, line 107) look only at cleanup: it must imply that
\* the stream can still be written, or the exception escapes the handler.
WritableUnlessCleanedUp == ~cleanup => stream = "readable"

\* The only WebSocket left open behind a client that is gone belongs to a
\* request that was aborted during its health probe.
OrphanOnlyAfterEarlyAbort == cleanup /\ WsLive => earlyAbort

\* No client waits for ever: it gets an announcement, a farewell or the end
\* of its stream, however Core behaves.
ClientIsAnswered == <>(out # <<>> \/ stream # "readable" \/ aborted)

\* Timers and sockets of a request that was cleaned up are released (early
\* aborts apart).
ReleasesAll ==
  cleanup /\ ~earlyAbort ~> [](~connectTimer /\ ~heartbeat /\ ws \in {"none", "closed"})

\* What the browser sees is the event stream ProxyCoreClient assumes.
Has(event) == \E i \in 1..Len(out) : out[i] = event
Farewell == IF Has("offline") THEN "offline" ELSE IF Has("error") THEN "error" ELSE "none"
Phase == IF stream # "readable" \/ aborted THEN "ended"
         ELSE IF Has("connected") THEN "bridged" ELSE "open"
Seen == INSTANCE EventStream WITH phase <- Phase, farewell <- Farewell,
                                  delivered <- Messages
ImplementsEventStream == Seen!Spec
=============================================================================
