--------------------------- MODULE CoreClientDirect ---------------------------
(***************************************************************************)
(* The client that talks to Core over a WebSocket of its own               *)
(* (app/console/core/core-client.ts, CoreClientImpl; the harness page of   *)
(* the end-to-end tests uses it).  Calls and events share the socket.      *)
(*                                                                         *)
(* disconnect() forgets the socket before it is closed, and every close    *)
(* event, also that of a forgotten socket, resets the client: it forgets   *)
(* the current socket, rejects the pending calls and arms a reconnect      *)
(* timer nobody keeps a handle of.  Each action is one callback.           *)
(*                                                                         *)
(* Left out: payloads, lastError, listener sets, the scoped clients, which *)
(* delegate everything but disconnect().                                   *)
(***************************************************************************)
EXTENDS Integers, FiniteSets

CONSTANTS
  Sockets,         \* identities of WebSocket objects
  NoSocket,        \* _ws = null
  Calls,           \* requests; a requestId is used once
  Limits,          \* values of _maxReconnectAttempts, -1 for no limit
  MaxLinks         \* bound: sockets that are not closed plus reconnect timers

VARIABLES
  limit,         \* _maxReconnectAttempts, given to the constructor
  ws,            \* _ws
  sock,          \* readyState of every WebSocket ("closed": also not created)
  status,        \* _connectionStatus
  disconnected,  \* _disconnected
  attempts,      \* _reconnectAttempts
  timers,        \* armed reconnect timers
  call,          \* what became of each request
  via,           \* the socket a request was sent on (history)
  inflight,      \* requests Core has not answered
  wanted,        \* somebody has asked for the connection (history)
  reopened,      \* connect() was called after disconnect() (history)
  calm           \* Core and the network no longer fail (environment)

connVars == <<ws, sock, status, attempts, timers>>
callVars == <<call, via, inflight>>
userVars == <<disconnected, wanted, reopened>>
envVars == <<limit, calm>>
vars == <<limit, ws, sock, status, disconnected, attempts, timers, call, via,
          inflight, wanted, reopened, calm>>

SocketState == {"connecting", "open", "closing", "closed"}
Status == {"disconnected", "connecting", "connected", "error"}
Settled == {"resolved", "rejected"}

TypeOK ==
  /\ limit \in Limits
  /\ ws \in Sockets \cup {NoSocket}
  /\ sock \in [Sockets -> SocketState]
  /\ status \in Status
  /\ disconnected \in BOOLEAN
  /\ attempts \in Nat
  /\ limit >= 0 => attempts <= limit
  /\ timers \in Nat
  /\ call \in [Calls -> {"new", "pending"} \cup Settled]
  /\ via \in [Calls -> Sockets \cup {NoSocket}]
  /\ inflight \subseteq Calls
  /\ wanted \in BOOLEAN
  /\ reopened \in BOOLEAN
  /\ calm \in BOOLEAN

Init ==
  /\ limit \in Limits
  /\ ws = NoSocket
  /\ sock = [s \in Sockets |-> "closed"]
  /\ status = "disconnected"
  /\ disconnected = FALSE
  /\ attempts = 0
  /\ timers = 0
  /\ call = [c \in Calls |-> "new"]
  /\ via = [c \in Calls |-> NoSocket]
  /\ inflight = {}
  /\ wanted = FALSE
  /\ reopened = FALSE
  /\ calm = FALSE

-----------------------------------------------------------------------------
Live(s) == sock[s] # "closed"
Links == Cardinality({s \in Sockets : Live(s)}) + timers

CurrentIs(states) == ws \in Sockets /\ sock[ws] \in states

\* The attempts that are left; without a limit nothing depends on the count.
MayReconnect == limit < 0 \/ attempts < limit
MoreAttempts == IF limit < 0 THEN attempts ELSE attempts + 1

\* Mutant: nothing is armed.
ArmRetryNever(armed) ==
  /\ timers' = armed
  /\ UNCHANGED attempts

\* _reconnectAttempts++ and setTimeout, if attempts are left, where armed
\* timers are under way already
ArmRetry(armed) ==
  IF MayReconnect
  THEN /\ timers' = armed + 1
       /\ attempts' = MoreAttempts
  ELSE /\ timers' = armed
       /\ UNCHANGED attempts

Busy == CurrentIs({"open", "connecting"})

\* The early returns of _connect
MustOpen == ~disconnected /\ ~Busy

\* The rest of _connect: the constructor may throw (a bad URL, a policy).
OpenSocket(armed) ==
  \/ /\ \E s \in Sockets :
          /\ sock[s] = "closed"
          /\ ws' = s
          /\ sock' = [sock EXCEPT ![s] = "connecting"]
     /\ status' = "connecting"
     /\ timers' = armed
     /\ UNCHANGED attempts
  \/ /\ ~calm
     /\ status' = "error"
     /\ ArmRetry(armed)
     /\ UNCHANGED <<ws, sock>>

-----------------------------------------------------------------------------
(* Calls of the page *)

Connect ==
  /\ disconnected' = FALSE
  /\ wanted' = TRUE
  /\ reopened' = (reopened \/ disconnected)
  /\ IF Busy THEN UNCHANGED connVars
     ELSE Links < MaxLinks /\ OpenSocket(timers)
  /\ UNCHANGED <<callVars, envVars>>

\* on(): the first listener opens the connection.
On ==
  /\ wanted' = (wanted \/ ~disconnected)
  /\ IF (ws = NoSocket \/ CurrentIs({"closed"})) /\ MustOpen
     THEN Links < MaxLinks /\ OpenSocket(timers)
     ELSE UNCHANGED connVars
  /\ UNCHANGED <<disconnected, reopened, callVars, envVars>>

Disconnect ==
  /\ disconnected' = TRUE
  /\ sock' = IF ws \in Sockets /\ sock[ws] # "closed"
             THEN [sock EXCEPT ![ws] = "closing"] ELSE sock
  /\ ws' = NoSocket
  /\ status' = "disconnected"
  /\ UNCHANGED <<attempts, timers, callVars, wanted, reopened, envVars>>

\* _callAs: without an open socket the call throws at once.
Call(c) ==
  /\ call[c] = "new"
  /\ IF CurrentIs({"open"})
     THEN /\ call' = [call EXCEPT ![c] = "pending"]
          /\ via' = [via EXCEPT ![c] = ws]
          /\ inflight' = inflight \cup {c}
     ELSE /\ call' = [call EXCEPT ![c] = "rejected"]
          /\ UNCHANGED <<via, inflight>>
  /\ UNCHANGED <<connVars, userVars, envVars>>

-----------------------------------------------------------------------------
(* Events of the sockets *)

\* onopen
SocketOpens(s) ==
  /\ sock[s] = "connecting"
  /\ sock' = [sock EXCEPT ![s] = "open"]
  /\ attempts' = 0
  /\ status' = "connected"
  /\ UNCHANGED <<ws, timers, callVars, userVars, envVars>>

\* Mutant: a response settles its call without looking it up.
AnswerUnchecked(c, outcome) ==
  /\ c \in inflight
  /\ sock[via[c]] = "open"
  /\ inflight' = inflight \ {c}
  /\ call' = [call EXCEPT ![c] = outcome]
  /\ UNCHANGED <<connVars, via, userVars, envVars>>

\* onmessage with an action.response.  A response nobody waits for any more
\* is handed to the listeners.
Answer(c, outcome) ==
  /\ c \in inflight
  /\ sock[via[c]] = "open"
  /\ inflight' = inflight \ {c}
  /\ call' = IF call[c] = "pending" THEN [call EXCEPT ![c] = outcome] ELSE call
  /\ UNCHANGED <<connVars, via, userVars, envVars>>

\* Core starts the closing handshake; the socket is not usable any more.
CoreCloses(s) ==
  /\ sock[s] = "open"
  /\ ~calm
  /\ sock' = [sock EXCEPT ![s] = "closing"]
  /\ UNCHANGED <<ws, status, attempts, timers, callVars, userVars, envVars>>

\* Mutant: onclose gives up silently when no attempt is left.
AfterCloseSilent ==
  /\ status' = "disconnected"
  /\ IF disconnected THEN UNCHANGED <<attempts, timers>> ELSE ArmRetry(timers)

\* The status a close leaves, and the retry it arms
AfterClose ==
  /\ status' = IF ~disconnected /\ ~MayReconnect THEN "error" ELSE "disconnected"
  /\ IF disconnected THEN UNCHANGED <<attempts, timers>> ELSE ArmRetry(timers)

\* this._ws = null, whichever socket was closed
Forget(s) == NoSocket

\* The loop over _pendingCalls
RejectPending == [c \in Calls |-> IF call[c] = "pending" THEN "rejected" ELSE call[c]]

\* onerror, if there was an error, and onclose: the browser reports both in
\* one task.
SocketCloses(s) ==
  /\ \/ sock[s] = "closing"
     \/ sock[s] \in {"connecting", "open"} /\ ~calm
  /\ sock' = [sock EXCEPT ![s] = "closed"]
  /\ ws' = Forget(s)
  /\ call' = RejectPending
  /\ inflight' = {c \in inflight : via[c] # s}
  /\ AfterClose
  /\ UNCHANGED <<via, userVars, envVars>>

-----------------------------------------------------------------------------
(* Timers *)

\* setTimeout(() => this._connect(), ...)
TimerFires ==
  /\ timers > 0
  /\ IF MustOpen
     THEN OpenSocket(timers - 1)
     ELSE timers' = timers - 1 /\ UNCHANGED <<ws, sock, status, attempts>>
  /\ UNCHANGED <<callVars, userVars, envVars>>

CallTimeout(c) ==
  /\ call[c] = "pending"
  /\ call' = [call EXCEPT ![c] = "rejected"]
  /\ UNCHANGED <<connVars, via, inflight, userVars, envVars>>

\* From here on Core and the network work.
Settle ==
  /\ ~calm
  /\ calm' = TRUE
  /\ UNCHANGED <<connVars, callVars, userVars, limit>>

-----------------------------------------------------------------------------
Next ==
  \/ Connect
  \/ On
  \/ Disconnect
  \/ \E c \in Calls :
       \/ Call(c)
       \/ \E outcome \in Settled : Answer(c, outcome)
       \/ CallTimeout(c)
  \/ \E s \in Sockets :
       \/ SocketOpens(s)
       \/ CoreCloses(s)
       \/ SocketCloses(s)
  \/ TimerFires
  \/ Settle

Safe == Init /\ [][Next]_vars

(***************************************************************************)
(* Timers fire, and a closing handshake ends.  Once the network is calm a  *)
(* WebSocket that is connecting opens.                                     *)
(***************************************************************************)
Fairness ==
  /\ WF_vars(TimerFires)
  /\ \A c \in Calls : WF_vars(CallTimeout(c))
  /\ \A s \in Sockets :
       /\ WF_vars(calm /\ SocketOpens(s))
       /\ WF_vars(sock[s] = "closing" /\ SocketCloses(s))

Spec == Safe /\ Fairness

-----------------------------------------------------------------------------
(***************************************************************************)
(* Properties                                                              *)
(***************************************************************************)

\* A client that is wanted has a socket or a timer, or it says 'error'.
NeverSilentlyStranded ==
  wanted /\ ~disconnected =>
    timers > 0 \/ status = "error" \/ \E s \in Sockets : Live(s)

\* Every call settles, whatever happens to its socket and its answer, and it
\* settles once: late answers and late timeouts do not change it.
CallsSettleOnce ==
  /\ \A c \in Calls : call[c] = "pending" ~> call[c] \in Settled
  /\ [][ \A c \in Calls : call[c] \in Settled => call'[c] = call[c] ]_vars

\* The client implements the abstract link, which ends with disconnect() and
\* which recovers if the attempts are not limited.
Link ==
  IF disconnected \/ reopened THEN "stopped"
  ELSE IF \E s \in Sockets : sock[s] = "open" THEN "linked"
  ELSE IF wanted THEN "recovering" ELSE "idle"

Abstract == INSTANCE CoreLink WITH link <- Link, calm <- (calm /\ limit < 0)
ImplementsCoreLink == Abstract!Spec
=============================================================================
