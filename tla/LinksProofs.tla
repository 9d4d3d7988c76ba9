---------------------------- MODULE LinksProofs ----------------------------
(***************************************************************************)
(* Theorems about the two ends of the event stream.  The proxy client, for *)
(* every set of streams, every bound and every combination of faults: its  *)
(* streams, its recovery, and that it implements the abstract link.  The   *)
(* events route, for every number of messages: what it leaves behind, and  *)
(* that what the browser sees of it is the stream the client assumes.      *)
(***************************************************************************)
EXTENDS MCLinks, Sequences, FiniteSetTheorems, TLAPS

-----------------------------------------------------------------------------
(***************************************************************************)
(* Types, in three groups, because the provers treat streams, counters and *)
(* flags best apart.                                                       *)
(***************************************************************************)
StreamTypes ==
  /\ es \in Streams \cup {NoStream}
  /\ sse \in [Streams -> StreamState]
  /\ status \in Status

CounterTypes ==
  /\ attempts \in 0..MaxAttempts
  /\ probes \in 0..MaxProbes
  /\ healthCalls \in 0..MaxHealthCalls

FlagTypes ==
  /\ disconnected \in BOOLEAN
  /\ reconnectTimer \in BOOLEAN
  /\ backoffScheduled \in BOOLEAN
  /\ probeTimer \in BOOLEAN
  /\ proxyHealthy \in BOOLEAN
  /\ subscribed \in BOOLEAN
  /\ calm \in BOOLEAN
  /\ faults \subseteq Fault

LEMMA TypeGroups == TypeOK <=> StreamTypes /\ CounterTypes /\ FlagTypes
BY DEF TypeOK, StreamTypes, CounterTypes, FlagTypes

LEMMA StreamTypesStep == StreamTypes /\ [Next]_vars => StreamTypes'
<1> SUFFICES ASSUME StreamTypes, [Next]_vars PROVE StreamTypes'
  OBVIOUS
<1> USE DEF StreamTypes, StreamState, Status
<1>1. ASSUME ConnectSSE PROVE StreamTypes'
  BY <1>1 DEF ConnectSSE, streamVars
<1>2. ASSUME NEW new \in Status, CloseSSE(new) PROVE StreamTypes'
  BY <1>2 DEF CloseSSE, Closed
<1>3. ASSUME NEW s \in Streams, NEW listener \in Status, NEW after \in StreamState,
             OnError(s, listener, after)
      PROVE  StreamTypes'
  BY <1>3, <1>2 DEF OnError
<1>4. CASE On
  BY <1>4, <1>1 DEF On, MayConnect, streamVars
<1>5. CASE Disconnect
  BY <1>5, <1>2 DEF Disconnect
<1>6. ASSUME NEW o \in CallOutcome, CallSettles(o) PROVE StreamTypes'
  BY <1>6 DEF CallSettles
<1>7. ASSUME NEW s \in Streams, StreamOpens(s) \/ BridgeConnected(s) PROVE StreamTypes'
  BY <1>7 DEF StreamOpens, BridgeConnected
<1>8. ASSUME NEW s \in Streams, CoreOffline(s) PROVE StreamTypes'
  BY <1>8, <1>2 DEF CoreOffline
<1>9. ASSUME NEW s \in Streams, ServerError(s) \/ NetworkError(s) \/ FatalError(s)
      PROVE  StreamTypes'
  BY <1>9, <1>3 DEF ServerError, NetworkError, FatalError
<1>10. ASSUME NEW ok \in BOOLEAN, ProbeSettles(ok) PROVE StreamTypes'
  BY <1>10, <1>1 DEF ProbeSettles, MayConnect, streamVars
<1>11. ASSUME NEW o \in CallOutcome, NEW ok \in BOOLEAN, HealthCallSettles(o, ok)
       PROVE  StreamTypes'
  BY <1>11 DEF HealthCallSettles
<1>12. CASE ReconnectTimerFires \/ ProbeTimerFires \/ Settle \/ UNCHANGED vars
  BY <1>12 DEF ReconnectTimerFires, ProbeTimerFires, Settle, vars, streamVars
<1>. QED
  BY <1>4, <1>5, <1>6, <1>7, <1>8, <1>9, <1>10, <1>11, <1>12 DEF Next

LEMMA CounterTypesStep == CounterTypes /\ [Next]_vars => CounterTypes'
<1> SUFFICES ASSUME CounterTypes, [Next]_vars PROVE CounterTypes'
  OBVIOUS
<1> USE BoundsAssumption DEF CounterTypes, backoffVars, requestVars
<1>1. ASSUME ScheduleBackoff PROVE attempts' \in 0..MaxAttempts
  BY <1>1 DEF ScheduleBackoff, MoreAttempts
<1>2. ASSUME StartProbe PROVE probes' \in 0..MaxProbes
  BY <1>2 DEF StartProbe
<1>3. ASSUME NEW s \in Streams, ServerError(s) \/ NetworkError(s) \/ FatalError(s)
      PROVE  CounterTypes'
  <2>1. PICK listener \in Status, after \in StreamState : OnError(s, listener, after)
    BY <1>3 DEF ServerError, NetworkError, FatalError, StreamState, Status
  <2>2. attempts' \in 0..MaxAttempts /\ probes' \in 0..MaxProbes
    BY <2>1, <1>1, <1>2 DEF OnError
  <2>. QED
    BY <1>3, <2>2 DEF ServerError, NetworkError, FatalError
<1>4. CASE On \/ Disconnect \/ Settle \/ UNCHANGED vars
  BY <1>4 DEF On, MayConnect, Disconnect, Settle, vars
<1>5. ASSUME NEW o \in CallOutcome, CallSettles(o) PROVE CounterTypes'
  BY <1>5 DEF CallSettles
<1>6. ASSUME NEW s \in Streams, StreamOpens(s) \/ BridgeConnected(s) PROVE CounterTypes'
  BY <1>6 DEF StreamOpens, BridgeConnected
<1>7. ASSUME NEW s \in Streams, CoreOffline(s) PROVE CounterTypes'
  BY <1>7, <1>1 DEF CoreOffline
<1>8. CASE ReconnectTimerFires
  BY <1>8, <1>2 DEF ReconnectTimerFires
<1>9. ASSUME NEW ok \in BOOLEAN, ProbeSettles(ok) PROVE CounterTypes'
  BY <1>9, <1>1 DEF ProbeSettles, MayConnect
<1>10. CASE ProbeTimerFires
  BY <1>10 DEF ProbeTimerFires
<1>11. ASSUME NEW o \in CallOutcome, NEW ok \in BOOLEAN, HealthCallSettles(o, ok)
       PROVE  CounterTypes'
  BY <1>11 DEF HealthCallSettles
<1>. QED
  BY <1>3, <1>4, <1>5, <1>6, <1>7, <1>8, <1>9, <1>10, <1>11 DEF Next

LEMMA FlagTypesStep == FlagTypes /\ [Next]_vars => FlagTypes'
<1> SUFFICES ASSUME FlagTypes, [Next]_vars PROVE FlagTypes'
  OBVIOUS
<1> USE DEF FlagTypes, streamVars, backoffVars, requestVars, userVars, envVars
<1>1. ASSUME ConnectSSE PROVE probeTimer' \in BOOLEAN
  BY <1>1 DEF ConnectSSE
<1>2. ASSUME NEW s \in Streams, ServerError(s) \/ NetworkError(s) \/ FatalError(s)
      PROVE  FlagTypes'
  <2>1. PICK listener \in Status, after \in StreamState : OnError(s, listener, after)
    BY <1>2 DEF ServerError, NetworkError, FatalError, StreamState, Status
  <2>2. /\ backoffScheduled' \in BOOLEAN
        /\ reconnectTimer' \in BOOLEAN
        /\ probeTimer' \in BOOLEAN
    BY <2>1 DEF OnError, CloseSSE, Closed, ScheduleBackoff, MoreAttempts
  <2>. QED
    BY <1>2, <2>2 DEF ServerError, NetworkError, FatalError
<1>3. CASE On
  BY <1>3, <1>1 DEF On, MayConnect
<1>4. CASE Disconnect
  BY <1>4 DEF Disconnect, CloseSSE, Closed
<1>5. ASSUME NEW o \in CallOutcome, CallSettles(o) PROVE FlagTypes'
  BY <1>5 DEF CallSettles
<1>6. ASSUME NEW s \in Streams, StreamOpens(s) \/ BridgeConnected(s) PROVE FlagTypes'
  BY <1>6 DEF StreamOpens, BridgeConnected
<1>7. ASSUME NEW s \in Streams, CoreOffline(s) PROVE FlagTypes'
  BY <1>7 DEF CoreOffline, CloseSSE, Closed, ScheduleBackoff, MoreAttempts
<1>8. ASSUME NEW ok \in BOOLEAN, ProbeSettles(ok) PROVE FlagTypes'
  BY <1>8, <1>1 DEF ProbeSettles, MayConnect, ScheduleBackoff, MoreAttempts
<1>9. ASSUME NEW o \in CallOutcome, NEW ok \in BOOLEAN, HealthCallSettles(o, ok)
      PROVE  FlagTypes'
  BY <1>9 DEF HealthCallSettles
<1>10. CASE ReconnectTimerFires \/ ProbeTimerFires \/ Settle \/ UNCHANGED vars
  BY <1>10 DEF ReconnectTimerFires, ProbeTimerFires, Settle, vars
<1>. QED
  BY <1>2, <1>3, <1>4, <1>5, <1>6, <1>7, <1>8, <1>9, <1>10 DEF Next

(* Every variable of proxy-core-client.ts's state keeps its type. *)
THEOREM TypeCorrect == Spec => []TypeOK
<1>1. Init => StreamTypes
  BY DEF Init, StreamTypes, StreamState, Status
<1>2. Init => CounterTypes
  BY BoundsAssumption DEF Init, CounterTypes
<1>3. Init => FlagTypes
  BY DEF Init, FlagTypes
<1>4. TypeOK /\ [Next]_vars => TypeOK'
  BY TypeGroups, StreamTypesStep, CounterTypesStep, FlagTypesStep
  DEF TypeOK, StreamTypes, CounterTypes, FlagTypes
<1>. QED
  BY <1>1, <1>2, <1>3, <1>4, TypeGroups, PTL DEF Spec, Safe

-----------------------------------------------------------------------------
(***************************************************************************)
(* The stream invariant: at most one live stream, none after disconnect(), *)
(* and a 2 s timer only beside a stream that waits.  Inductive as it is.   *)
(***************************************************************************)
StreamInv == OneLiveStream /\ QuietAfterDisconnect /\ ProbeTimerHasStream

LEMMA ConnectKeepsInv ==
  ASSUME StreamTypes, StreamInv, ConnectSSE, ~disconnected, UNCHANGED disconnected
  PROVE  StreamInv'
BY StreamsAssumption
DEF StreamTypes, StreamInv, OneLiveStream, QuietAfterDisconnect, ProbeTimerHasStream,
    ConnectSSE, HasStream, Live, streamVars

LEMMA CloseKeepsInv ==
  ASSUME StreamTypes, OneLiveStream, NEW new, CloseSSE(new)
  PROVE  StreamInv'
BY StreamsAssumption
DEF StreamTypes, StreamInv, OneLiveStream, QuietAfterDisconnect, ProbeTimerHasStream,
    CloseSSE, Closed, HasStream, Live

LEMMA OnErrorKeepsInv ==
  ASSUME StreamTypes, StreamInv,
         NEW s \in Streams, NEW listener, NEW after,
         Live(s), OnError(s, listener, after), UNCHANGED disconnected
  PROVE  StreamInv'
<1>1. CASE backoffScheduled
  BY <1>1, StreamsAssumption
  DEF OnError, StreamTypes, StreamInv, OneLiveStream, QuietAfterDisconnect,
      ProbeTimerHasStream, HasStream, Live
<1>2. CASE ~backoffScheduled
  BY <1>2, CloseKeepsInv DEF OnError, StreamInv
<1>. QED
  BY <1>1, <1>2

LEMMA StreamInvStep == StreamTypes /\ StreamInv /\ [Next]_vars => StreamInv'
<1> SUFFICES ASSUME StreamTypes, StreamInv, [Next]_vars PROVE StreamInv'
  OBVIOUS
<1> USE DEF userVars, envVars
<1>1. ASSUME UNCHANGED <<streamVars, disconnected>> PROVE StreamInv'
  BY <1>1 DEF StreamInv, OneLiveStream, QuietAfterDisconnect, ProbeTimerHasStream,
              HasStream, Live, streamVars
<1>2. CASE On
  BY <1>2, <1>1, ConnectKeepsInv DEF On, MayConnect
<1>3. CASE Disconnect
  BY <1>3, CloseKeepsInv DEF Disconnect, StreamInv
<1>4. ASSUME NEW s \in Streams, StreamOpens(s) \/ BridgeConnected(s) PROVE StreamInv'
  BY <1>4, StreamsAssumption
  DEF StreamOpens, BridgeConnected, StreamTypes, StreamInv, OneLiveStream,
      QuietAfterDisconnect, ProbeTimerHasStream, HasStream, Live
<1>5. ASSUME NEW s \in Streams, CoreOffline(s) PROVE StreamInv'
  BY <1>5, CloseKeepsInv DEF CoreOffline, StreamInv
<1>6. ASSUME NEW s \in Streams, ServerError(s) \/ NetworkError(s) \/ FatalError(s)
      PROVE  StreamInv'
  BY <1>6, OnErrorKeepsInv DEF ServerError, NetworkError, FatalError, Live
<1>7. ASSUME NEW ok \in BOOLEAN, ProbeSettles(ok) PROVE StreamInv'
  BY <1>7, <1>1, ConnectKeepsInv DEF ProbeSettles, MayConnect
<1>8. CASE ProbeTimerFires
  BY <1>8 DEF ProbeTimerFires, StreamInv, OneLiveStream, QuietAfterDisconnect,
              ProbeTimerHasStream, HasStream, Live
<1>9. CASE \/ \E o \in CallOutcome : CallSettles(o)
           \/ \E o \in CallOutcome, ok \in BOOLEAN : HealthCallSettles(o, ok)
  BY <1>9 DEF CallSettles, HealthCallSettles, StreamInv, OneLiveStream,
              QuietAfterDisconnect, ProbeTimerHasStream, HasStream, Live
<1>10. CASE ReconnectTimerFires \/ Settle \/ UNCHANGED vars
  BY <1>10, <1>1 DEF ReconnectTimerFires, Settle, vars, streamVars
<1>. QED
  BY <1>2, <1>3, <1>4, <1>5, <1>6, <1>7, <1>8, <1>9, <1>10 DEF Next

LEMMA StreamInvCorrect == Spec => []StreamInv
<1>1. Init => StreamInv
  BY StreamsAssumption
  DEF Init, StreamInv, OneLiveStream, QuietAfterDisconnect, ProbeTimerHasStream,
      HasStream, Live
<1>2. TypeOK /\ StreamInv /\ [Next]_vars => StreamInv'
  BY StreamInvStep, TypeGroups
<1>. QED
  BY <1>1, <1>2, TypeCorrect, PTL DEF Spec, Safe

(* The client never holds two EventSources that are not closed. *)
THEOREM OneLiveStreamCorrect == Spec => []OneLiveStream
BY StreamInvCorrect, PTL DEF StreamInv

(* After disconnect() no timer and no late answer opens a stream again. *)
THEOREM QuietAfterDisconnectCorrect == Spec => []QuietAfterDisconnect
BY StreamInvCorrect, PTL DEF StreamInv

(* The 2 s timer never outlives the stream it was armed for. *)
THEOREM ProbeTimerHasStreamCorrect == Spec => []ProbeTimerHasStream
BY StreamInvCorrect, PTL DEF StreamInv

-----------------------------------------------------------------------------
(***************************************************************************)
(* Recovery.  Without fatal answers the current stream is never a closed   *)
(* one, so that a client which is not stopped has a stream or has a timer  *)
(* or a probe that leads to one.                                           *)
(***************************************************************************)
CurrentIsLive == es \in Streams => Live(es)

RecoveryInv == faults = {} => CurrentIsLive /\ NeverStranded

LEMMA FaultsFixed == [Next]_vars => UNCHANGED faults
BY DEF Next, On, Disconnect, CallSettles, StreamOpens, BridgeConnected, CoreOffline,
       ServerError, NetworkError, FatalError, ReconnectTimerFires, ProbeSettles,
       ProbeTimerFires, HealthCallSettles, Settle, envVars, vars

LEMMA ConnectRecovers ==
  ASSUME StreamTypes, CurrentIsLive, ConnectSSE, faults = {}
  PROVE  CurrentIsLive' /\ HasStream'
BY StreamsAssumption
DEF StreamTypes, StreamState, ConnectSSE, CurrentIsLive, HasStream, Live, streamVars

LEMMA OnErrorRecovers ==
  ASSUME TypeOK, StreamInv, CurrentIsLive, faults = {},
         NEW s \in Streams, NEW listener, NEW after \in {"ended", "connecting"},
         Live(s), OnError(s, listener, after), UNCHANGED <<userVars, envVars>>
  PROVE  RecoveryInv'
<1>1. s = es
  BY DEF StreamInv, OneLiveStream
<1>2. CASE backoffScheduled
  BY <1>1, <1>2 DEF OnError, RecoveryInv, CurrentIsLive, NeverStranded, HasStream, Live, TypeOK
<1>3. CASE ~backoffScheduled
  <2>1. es' = NoStream
    BY <1>3 DEF OnError, CloseSSE, Closed
  <2>2. CASE attempts > 0
    BY <1>3, <2>1, <2>2, StreamsAssumption
    DEF OnError, ScheduleBackoff, MoreAttempts, RecoveryInv, CurrentIsLive, NeverStranded
  <2>3. CASE ~(attempts > 0)
    <3>1. disconnected \/ probes' > 0
      BY <1>3, <2>3 DEF OnError, StartProbe, TypeOK
    <3>. QED
      BY <3>1, <2>1, StreamsAssumption
      DEF RecoveryInv, CurrentIsLive, NeverStranded, userVars
  <2>. QED
    BY <2>2, <2>3
<1>. QED
  BY <1>2, <1>3

LEMMA RecoveryInvStep ==
  ASSUME faults = {}, TypeOK, StreamInv, RecoveryInv, [Next]_vars
  PROVE  RecoveryInv'
<1> USE DEF userVars, envVars, backoffVars, requestVars, streamVars
<1>0. StreamTypes
  BY TypeGroups
<1>1. CASE On
  BY <1>0, <1>1, ConnectRecovers
  DEF On, MayConnect, RecoveryInv, CurrentIsLive, NeverStranded, HasStream, Live
<1>2. CASE Disconnect
  BY <1>2, StreamsAssumption DEF Disconnect, CloseSSE, Closed, RecoveryInv, CurrentIsLive, NeverStranded
<1>3. ASSUME NEW s \in Streams, StreamOpens(s) \/ BridgeConnected(s) PROVE RecoveryInv'
  BY <1>3, <1>0
  DEF StreamOpens, BridgeConnected, RecoveryInv, CurrentIsLive, NeverStranded,
      HasStream, Live, StreamTypes
<1>4. ASSUME NEW s \in Streams, CoreOffline(s) PROVE RecoveryInv'
  BY <1>4, StreamsAssumption
  DEF CoreOffline, CloseSSE, Closed, ScheduleBackoff, MoreAttempts, RecoveryInv, CurrentIsLive, NeverStranded
<1>5. ASSUME NEW s \in Streams, ServerError(s) \/ NetworkError(s) PROVE RecoveryInv'
  BY <1>5, OnErrorRecovers DEF ServerError, NetworkError, Live, RecoveryInv
<1>6. ASSUME NEW s \in Streams PROVE ~FatalError(s)
  BY DEF FatalError
<1>7. CASE ReconnectTimerFires
  <2>1. disconnected \/ HasStream \/ probes' > 0
    BY <1>7 DEF ReconnectTimerFires, StartProbe, TypeOK
  <2>. QED
    BY <1>7, <2>1
    DEF ReconnectTimerFires, RecoveryInv, CurrentIsLive, NeverStranded, HasStream, Live
<1>8. ASSUME NEW ok \in BOOLEAN, ProbeSettles(ok) PROVE RecoveryInv'
  BY <1>8, <1>0, ConnectRecovers
  DEF ProbeSettles, MayConnect, ScheduleBackoff, MoreAttempts, RecoveryInv, CurrentIsLive, NeverStranded, HasStream, Live
<1>9. CASE \/ \E o \in CallOutcome : CallSettles(o)
           \/ \E o \in CallOutcome, ok \in BOOLEAN : HealthCallSettles(o, ok)
           \/ ProbeTimerFires
           \/ Settle
           \/ UNCHANGED vars
  BY <1>9 DEF CallSettles, HealthCallSettles, ProbeTimerFires, Settle, vars,
              RecoveryInv, CurrentIsLive, NeverStranded, HasStream, Live
<1>. QED
  BY <1>1, <1>2, <1>3, <1>4, <1>5, <1>6, <1>7, <1>8, <1>9 DEF Next

(* Where the events route is always answered with 200 or not at all, a     *)
(* client somebody subscribed to is never left without a way to a stream.  *)
THEOREM NeverStrandedCorrect == Spec => []NeverStranded
<1>1. Init => RecoveryInv
  BY StreamsAssumption DEF Init, RecoveryInv, CurrentIsLive, NeverStranded
<1>2. TypeOK /\ StreamInv /\ RecoveryInv /\ [Next]_vars => RecoveryInv'
  BY RecoveryInvStep, FaultsFixed DEF RecoveryInv
<1>3. RecoveryInv => NeverStranded
  BY DEF RecoveryInv, NeverStranded
<1>. QED
  BY <1>1, <1>2, <1>3, TypeCorrect, StreamInvCorrect, PTL DEF Spec, Safe

-----------------------------------------------------------------------------
(***************************************************************************)
(* The client implements the abstract link.  Besides the stream invariant  *)
(* the mapping needs that nothing is under way before somebody subscribes. *)
(***************************************************************************)
NothingUnwanted ==
  subscribed \/ (~HasStream /\ ~reconnectTimer /\ probes = 0)

LEMMA NothingUnwantedCorrect == Spec => []NothingUnwanted
<1>1. Init => NothingUnwanted
  BY StreamsAssumption DEF Init, NothingUnwanted, HasStream
<1>2. ASSUME TypeOK, StreamInv, NothingUnwanted, [Next]_vars PROVE NothingUnwanted'
  <2> SUFFICES ASSUME ~subscribed' PROVE NothingUnwanted'
    BY DEF NothingUnwanted
  <2> USE DEF userVars, envVars
  <2>0. ~subscribed
    BY <1>2 DEF Next, On, Disconnect, CallSettles, StreamOpens, BridgeConnected, CoreOffline,
                ServerError, NetworkError, FatalError, ReconnectTimerFires, ProbeSettles, MayConnect,
                ProbeTimerFires, HealthCallSettles, Settle, vars
  <2>1. ~HasStream /\ ~reconnectTimer /\ probes = 0
    BY <1>2, <2>0 DEF NothingUnwanted
  <2>2. \A s \in Streams : ~Live(s)
    BY <1>2, <2>1 DEF StreamInv, OneLiveStream, Live, HasStream
  <2>3. \A ok \in BOOLEAN : ~ProbeSettles(ok)
    BY <2>1 DEF ProbeSettles, MayConnect
  <2>4. On => disconnected
    BY DEF On, MayConnect
  <2>5. \/ On /\ disconnected
        \/ Disconnect
        \/ \E o \in CallOutcome : CallSettles(o)
        \/ ProbeTimerFires
        \/ \E o \in CallOutcome, ok \in BOOLEAN : HealthCallSettles(o, ok)
        \/ Settle
        \/ UNCHANGED vars
    BY <1>2, <2>1, <2>2, <2>3, <2>4
    DEF Next, StreamOpens, BridgeConnected, CoreOffline, ServerError, NetworkError,
        FatalError, ReconnectTimerFires, Live
  <2>. QED
    BY <2>1, <2>5, StreamsAssumption
    DEF On, MayConnect, Disconnect, CloseSSE, Closed, CallSettles, ProbeTimerFires, HealthCallSettles, Settle,
        vars, streamVars, backoffVars, requestVars, userVars, NothingUnwanted, HasStream
<1>. QED
  BY <1>1, <1>2, TypeCorrect, StreamInvCorrect, PTL DEF Spec, Safe

LEMMA LinkStep ==
  ASSUME TypeOK, StreamInv, NothingUnwanted, [Next]_vars
  PROVE  [Abstract!Next]_(Abstract!vars)
<1> USE DEF userVars, envVars
<1>1. ASSUME UNCHANGED <<es, sse, disconnected, subscribed, calm, faults>>
      PROVE  UNCHANGED Abstract!vars
  BY <1>1 DEF Abstract!vars, Link, Bridged
<1>2. CASE On
  <2>1. Bridged' = Bridged
    BY <1>2, StreamsAssumption
    DEF On, MayConnect, ConnectSSE, Bridged, HasStream, TypeOK, StreamState, streamVars
  <2>. QED
    BY <1>2, <2>1 DEF On, MayConnect, Link, Abstract!Next, Abstract!Subscribe, Abstract!vars
<1>3. CASE Disconnect
  BY <1>3, StreamsAssumption
  DEF Disconnect, CloseSSE, Closed, Link, Bridged, Abstract!Next, Abstract!Stop
<1>4. ASSUME NEW s \in Streams, StreamOpens(s) PROVE UNCHANGED Abstract!vars
  BY <1>4 DEF StreamOpens, Abstract!vars, Link, Bridged, TypeOK
<1>5. ASSUME NEW s \in Streams, BridgeConnected(s) PROVE Abstract!Establish
  <2>1. s = es /\ ~disconnected /\ subscribed
    BY <1>5 DEF BridgeConnected, StreamInv, OneLiveStream, QuietAfterDisconnect,
                NothingUnwanted, HasStream, Live
  <2>. QED
    BY <1>5, <2>1 DEF BridgeConnected, Abstract!Establish, Link, Bridged, TypeOK
<1>6. ASSUME NEW s \in Streams, Live(s), ~Bridged', UNCHANGED <<userVars, envVars>>,
             Bridged => ~calm
      PROVE  Abstract!Lose \/ UNCHANGED Abstract!vars
  <2>1. s = es /\ ~disconnected /\ subscribed
    BY <1>6 DEF StreamInv, OneLiveStream, QuietAfterDisconnect, NothingUnwanted, HasStream, Live
  <2>. QED
    BY <1>6, <2>1 DEF Abstract!Lose, Abstract!vars, Link
<1>7. ASSUME NEW s \in Streams, CoreOffline(s) PROVE Abstract!Lose \/ UNCHANGED Abstract!vars
  <2>1. Live(s) /\ ~Bridged' /\ ~calm
    BY <1>7, StreamsAssumption DEF CoreOffline, CloseSSE, Closed, Live, Bridged
  <2>2. UNCHANGED <<userVars, envVars>>
    BY <1>7 DEF CoreOffline
  <2>. QED
    BY <1>6, <2>1, <2>2
<1>8. ASSUME NEW s \in Streams, ServerError(s) \/ NetworkError(s) \/ FatalError(s)
      PROVE  Abstract!Lose \/ UNCHANGED Abstract!vars
  <2>1. PICK listener \in Status, after \in {"ended", "connecting", "closed"} :
        OnError(s, listener, after)
    BY <1>8 DEF ServerError, NetworkError, FatalError, Status
  <2>2. Live(s) /\ UNCHANGED <<userVars, envVars>>
    BY <1>8 DEF ServerError, NetworkError, FatalError, Live
  <2>3. s = es
    BY <2>2 DEF StreamInv, OneLiveStream
  <2>4. ~Bridged'
    BY <2>1, <2>3, StreamsAssumption DEF OnError, CloseSSE, Closed, Bridged, TypeOK
  <2>5. Bridged => ~calm
    BY <1>8, <2>3 DEF ServerError, NetworkError, FatalError, Bridged
  <2>. QED
    BY <1>6, <2>2, <2>4, <2>5
<1>9. ASSUME NEW ok \in BOOLEAN, ProbeSettles(ok) PROVE UNCHANGED Abstract!vars
  <2>1. Bridged' = Bridged
    BY <1>9, StreamsAssumption
    DEF ProbeSettles, MayConnect, ConnectSSE, Bridged, HasStream, TypeOK, StreamState, streamVars
  <2>. QED
    BY <1>9, <2>1 DEF ProbeSettles, MayConnect, Abstract!vars, Link
<1>10. CASE Settle
  <2>1. Link' = Link
    BY <1>10 DEF Settle, Link, Bridged, streamVars
  <2>2. CASE faults = {}
    BY <1>10, <2>1, <2>2 DEF Settle, Abstract!Next, Abstract!Settle
  <2>3. CASE faults # {}
    BY <1>10, <2>1, <2>3 DEF Settle, Abstract!vars
  <2>. QED
    BY <2>2, <2>3
<1>11. CASE \/ \E o \in CallOutcome : CallSettles(o)
            \/ \E o \in CallOutcome, ok \in BOOLEAN : HealthCallSettles(o, ok)
            \/ ReconnectTimerFires
            \/ ProbeTimerFires
            \/ UNCHANGED vars
  BY <1>11, <1>1 DEF CallSettles, HealthCallSettles, ReconnectTimerFires, ProbeTimerFires,
                     vars, streamVars
<1>. QED
  BY <1>2, <1>3, <1>4, <1>5, <1>7, <1>8, <1>9, <1>10, <1>11 DEF Next, Abstract!Next

(* The safety part of the refinement: every step of the client is a step   *)
(* of the abstract link or leaves it unchanged.                            *)
THEOREM Implementation == Spec => ImplementsCoreLinkSafely
<1>1. Init => Abstract!Init
  BY StreamsAssumption DEF Init, Abstract!Init, Link, Bridged
<1>2. TypeOK /\ StreamInv /\ NothingUnwanted /\ [Next]_vars => [Abstract!Next]_(Abstract!vars)
  BY LinkStep
<1>. QED
  BY <1>1, <1>2, TypeCorrect, StreamInvCorrect, NothingUnwantedCorrect, PTL
  DEF Spec, Safe, ImplementsCoreLinkSafely, Abstract!Safe

-----------------------------------------------------------------------------
(* While one stream stays bridged only a 401 takes its status away.        *)
THEOREM StatusHeldCorrect == Spec => StatusHeldWhileBridged
<1>1. ASSUME TypeOK, StreamInv, [Next]_vars,
             Bridged, status = "connected", Bridged', es' = es, ~Unauthorized
      PROVE  status' = "connected"
  <2> USE <1>1
  <2>0. HasStream /\ ~disconnected /\ ~probeTimer
    BY DEF StreamInv, QuietAfterDisconnect, ProbeTimerHasStream, Bridged, HasStream
  <2>1. ASSUME UNCHANGED status PROVE status' = "connected"
    BY <2>1
  <2>2. ASSUME NEW new, CloseSSE(new) PROVE FALSE
    BY <2>2, StreamsAssumption DEF CloseSSE, Closed, Bridged
  <2>3. CASE On
    BY <2>0, <2>3 DEF On, MayConnect, streamVars
  <2>4. CASE Disconnect
    BY <2>2, <2>4 DEF Disconnect
  <2>5. ASSUME NEW o \in CallOutcome, CallSettles(o) PROVE status' = "connected"
    BY <2>5 DEF CallSettles, Unauthorized
  <2>6. ASSUME NEW s \in Streams, StreamOpens(s) \/ BridgeConnected(s)
        PROVE  status' = "connected"
    BY <2>6 DEF StreamOpens, BridgeConnected
  <2>7. ASSUME NEW s \in Streams, CoreOffline(s) PROVE FALSE
    BY <2>2, <2>7 DEF CoreOffline
  <2>8. ASSUME NEW s \in Streams, ServerError(s) \/ NetworkError(s) \/ FatalError(s)
        PROVE  FALSE
    <3>1. PICK listener \in Status, after \in {"ended", "connecting", "closed"} :
          OnError(s, listener, after)
      BY <2>8 DEF ServerError, NetworkError, FatalError, Status
    <3>2. s = es
      BY <2>8 DEF ServerError, NetworkError, FatalError, StreamInv, OneLiveStream, Live
    <3>. QED
      BY <3>1, <3>2, <2>2 DEF OnError, Bridged, TypeOK
  <2>9. ASSUME NEW ok \in BOOLEAN, ProbeSettles(ok) PROVE status' = "connected"
    BY <2>0, <2>9 DEF ProbeSettles, MayConnect, streamVars
  <2>10. ASSUME NEW o \in CallOutcome, NEW ok \in BOOLEAN, HealthCallSettles(o, ok)
         PROVE  status' = "connected"
    BY <2>10 DEF HealthCallSettles, Unauthorized
  <2>11. CASE ReconnectTimerFires \/ ProbeTimerFires \/ Settle \/ UNCHANGED vars
    BY <2>11 DEF ReconnectTimerFires, ProbeTimerFires, Settle, vars, streamVars
  <2>. QED
    BY <2>3, <2>4, <2>5, <2>6, <2>7, <2>8, <2>9, <2>10, <2>11 DEF Next
<1>2. TypeOK /\ StreamInv /\ [Next]_vars
      => [Bridged /\ status = "connected" /\ Bridged' /\ es' = es
          => status' = "connected" \/ Unauthorized]_vars
  BY <1>1
<1>. QED
  BY <1>2, TypeCorrect, StreamInvCorrect, PTL DEF Spec, Safe, StatusHeldWhileBridged

-----------------------------------------------------------------------------
(* The events route: types *)

RouteFlags ==
  /\ probing \in BOOLEAN /\ coreWs \in BOOLEAN /\ cleanup \in BOOLEAN
  /\ connectTimer \in BOOLEAN /\ heartbeat \in BOOLEAN
  /\ aborted \in BOOLEAN /\ earlyAbort \in BOOLEAN
  /\ ws \in Route!WsState /\ stream \in {"readable", "closed", "cancelled"}

RouteOut == out \in Seq(Route!Event)

LEMMA RouteStepFlags == RouteFlags /\ [Route!Next]_(Route!vars) => RouteFlags'
<1> SUFFICES ASSUME RouteFlags, [Route!Next]_(Route!vars)
             PROVE  RouteFlags'
  OBVIOUS
<1> USE DEF RouteFlags, Route!WsState, Route!requestVars
<1>1. ASSUME NEW healthy \in BOOLEAN, Route!ProbeSettles(healthy) PROVE RouteFlags'
  BY <1>1 DEF Route!ProbeSettles, Route!OpenSocket
<1>2. CASE Route!WsOpens
  BY <1>2 DEF Route!WsOpens
<1>3. CASE Route!WsMessage
  BY <1>3 DEF Route!WsMessage
<1>4. CASE Route!WsError
  BY <1>4 DEF Route!WsError, Route!TearDown
<1>5. CASE Route!WsCloses
  BY <1>5 DEF Route!WsCloses, Route!TearDown
<1>6. CASE Route!ConnectTimeout
  BY <1>6 DEF Route!ConnectTimeout, Route!Closing
<1>7. CASE Route!Abort
  BY <1>7 DEF Route!Abort, Route!Closing
<1>8. CASE Route!Cancel
  BY <1>8 DEF Route!Cancel, Route!Closing
<1> QED
  BY <1>1, <1>2, <1>3, <1>4, <1>5, <1>6, <1>7, <1>8 DEF Route!Next, Route!vars

\* Whatever a callback enqueues is one of the four events.
LEMMA RouteStepOut == RouteOut /\ [Route!Next]_(Route!vars) => RouteOut'
<1> SUFFICES ASSUME out \in Seq(Route!Event), [Route!Next]_(Route!vars)
             PROVE  out' \in Seq(Route!Event)
  BY DEF RouteOut
<1>1. \A e \in Route!Event : Append(out, e) \in Seq(Route!Event)
  OBVIOUS
<1>2. out' = out \/ \E e \in Route!Event : out' = Append(out, e)
  BY DEF Route!Next, Route!vars, Route!requestVars, Route!Event, Route!ProbeSettles, Route!WsOpens, Route!WsMessage, Route!WsError, Route!WsCloses,
         Route!ConnectTimeout, Route!Abort, Route!Cancel
<1> QED
  BY <1>1, <1>2

\* The route's variables, its socket and its stream keep their types.
THEOREM RouteTypeCorrect == Route!Spec => []Route!TypeOK
<1>1. Route!Init => RouteFlags
  BY DEF Route!Init, RouteFlags, Route!WsState
<1>2. Route!Init => RouteOut
  BY DEF Route!Init, RouteOut
<1>3. RouteFlags /\ RouteOut => Route!TypeOK
  BY DEF RouteFlags, RouteOut, Route!TypeOK
<1> QED
  BY <1>1, <1>2, <1>3, RouteStepFlags, RouteStepOut, PTL DEF Route!Spec

-----------------------------------------------------------------------------
(***************************************************************************)
(* The invariant.  While the probe is in flight only an abort cleans up;   *)
(* until the request is cleaned up, the variable coreWs holds a socket     *)
(* that is alive, so that whoever cleans up closes it.                     *)
(***************************************************************************)

Abortion == (earlyAbort => aborted) /\ (aborted => cleanup)
BeforeSocket == probing => ws = "none" /\ ~connectTimer /\ (cleanup => earlyAbort)
Held == ~cleanup /\ Route!WsLive => coreWs

BridgeInv ==
  Abortion /\ BeforeSocket /\ Held /\ Route!WritableUnlessCleanedUp /\ Route!OrphanOnlyAfterEarlyAbort

LEMMA InitBridge == Route!Init => BridgeInv
BY DEF Route!Init, BridgeInv, Abortion, BeforeSocket, Held, Route!WsLive, Route!WritableUnlessCleanedUp,
       Route!OrphanOnlyAfterEarlyAbort

LEMMA StepBridge == RouteFlags /\ BridgeInv /\ [Route!Next]_(Route!vars) => BridgeInv'
<1> SUFFICES ASSUME RouteFlags, BridgeInv, [Route!Next]_(Route!vars)
             PROVE  BridgeInv'
  OBVIOUS
<1> USE DEF RouteFlags, Route!WsState, Route!requestVars, BridgeInv, Abortion, BeforeSocket, Held, Route!WsLive,
            Route!WritableUnlessCleanedUp, Route!OrphanOnlyAfterEarlyAbort
<1>1. ASSUME NEW healthy \in BOOLEAN, Route!ProbeSettles(healthy) PROVE BridgeInv'
  BY <1>1 DEF Route!ProbeSettles, Route!OpenSocket
<1>2. CASE Route!WsOpens
  BY <1>2 DEF Route!WsOpens
<1>3. CASE Route!WsMessage
  BY <1>3 DEF Route!WsMessage
<1>4. CASE Route!WsError
  BY <1>4 DEF Route!WsError, Route!TearDown
<1>5. CASE Route!WsCloses
  BY <1>5 DEF Route!WsCloses, Route!TearDown
<1>6. CASE Route!ConnectTimeout
  BY <1>6 DEF Route!ConnectTimeout, Route!Closing
<1>7. CASE Route!Abort
  BY <1>7 DEF Route!Abort, Route!Closing
<1>8. CASE Route!Cancel
  BY <1>8 DEF Route!Cancel, Route!Closing
<1> QED
  BY <1>1, <1>2, <1>3, <1>4, <1>5, <1>6, <1>7, <1>8 DEF Route!Next, Route!vars

LEMMA BridgeCorrect == Route!Spec => [](RouteFlags /\ BridgeInv)
<1>1. Route!Init => RouteFlags
  BY DEF Route!Init, RouteFlags, Route!WsState
<1> QED
  BY <1>1, InitBridge, RouteStepFlags, StepBridge, PTL DEF Route!Spec

\* A handler that finds cleanup false may enqueue without a try block.
THEOREM WritableUnlessCleanedUpCorrect == Route!Spec => []Route!WritableUnlessCleanedUp
<1>1. BridgeInv => Route!WritableUnlessCleanedUp
  BY DEF BridgeInv
<1> QED
  BY <1>1, BridgeCorrect, PTL

\* A request that is cleaned up has closed its socket, unless it was aborted
\* during its health probe.
THEOREM OrphanOnlyAfterEarlyAbortCorrect == Route!Spec => []Route!OrphanOnlyAfterEarlyAbort
<1>1. BridgeInv => Route!OrphanOnlyAfterEarlyAbort
  BY DEF BridgeInv
<1> QED
  BY <1>1, BridgeCorrect, PTL

-----------------------------------------------------------------------------
(***************************************************************************)
(* The route implements the event stream.  What has been sent tells where  *)
(* the request stands: nothing before the socket is open, the announcement *)
(* once it is, no farewell on a stream that can still be written.          *)
(***************************************************************************)
SentInv ==
  /\ probing => out = <<>>
  /\ ~cleanup /\ ws \in {"none", "connecting"} => out = <<>>
  /\ ~cleanup => ws \in {"none", "connecting", "open"}
  /\ ~cleanup /\ ws = "open" => Route!Has("connected")
  /\ stream = "readable" => ~Route!Has("offline") /\ ~Route!Has("error")

\* What an event changes of what has been sent.
LEMMA AfterSending ==
  ASSUME out \in Seq(Route!Event), NEW e \in Route!Event, out' = Append(out, e)
  PROVE  /\ \A f \in Route!Event : Route!Has(f)' <=> (Route!Has(f) \/ f = e)
         /\ Route!Messages \in Nat
         /\ Route!Messages' = IF e = "message" THEN Route!Messages + 1 ELSE Route!Messages
<1> DEFINE sent == {i \in 1..Len(out) : out[i] = "message"}
<1>1. /\ Len(out) \in Nat /\ Len(out') = Len(out) + 1
      /\ out'[Len(out) + 1] = e /\ \A i \in 1..Len(out) : out'[i] = out[i]
  OBVIOUS
<1>2. \A f \in Route!Event : Route!Has(f)' <=> (Route!Has(f) \/ f = e)
  <2> TAKE f \in Route!Event
  <2>1. ASSUME Route!Has(f)' PROVE Route!Has(f) \/ f = e
    <3>1. PICK i \in 1..Len(out') : out'[i] = f
      BY <2>1 DEF Route!Has
    <3> QED
      BY <1>1, <3>1 DEF Route!Has
  <2>2. ASSUME Route!Has(f) PROVE Route!Has(f)'
    <3>1. PICK i \in 1..Len(out) : out[i] = f
      BY <2>2 DEF Route!Has
    <3>2. i \in 1..Len(out') /\ out'[i] = f
      BY <1>1, <3>1
    <3> QED
      BY <3>2 DEF Route!Has
  <2>3. ASSUME f = e PROVE Route!Has(f)'
    <3>1. Len(out) + 1 \in 1..Len(out')
      BY <1>1
    <3> QED
      BY <1>1, <2>3, <3>1 DEF Route!Has
  <2> QED
    BY <2>1, <2>2, <2>3
<1>3. IsFiniteSet(1..Len(out))
  BY <1>1, FS_Interval
<1>4. IsFiniteSet(sent) /\ Cardinality(sent) \in Nat
  BY <1>3, FS_Subset, FS_CardinalityType
<1>5. Route!Messages = Cardinality(sent) /\ Route!Messages' = Cardinality(sent')
  BY DEF Route!Messages, Route!Cardinality, Cardinality
<1>6. CASE e = "message"
  <2>1. sent' = sent \cup {Len(out) + 1} /\ Len(out) + 1 \notin sent
    BY <1>1, <1>6
  <2>2. Cardinality(sent') = Cardinality(sent) + 1
    BY <1>4, <2>1, FS_AddElement
  <2> QED
    BY <1>2, <1>4, <1>5, <1>6, <2>2
<1>7. CASE e # "message"
  <2>1. sent' = sent
    BY <1>1, <1>7
  <2> HIDE DEF sent
  <2> QED
    BY <1>2, <1>4, <1>5, <1>7, <2>1
<1> QED
  BY <1>6, <1>7

LEMMA NothingSent ==
  ASSUME out = <<>>
  PROVE  Route!Messages = 0 /\ \A f \in Route!Event : ~Route!Has(f)
<1>1. {i \in 1..Len(out) : out[i] = "message"} = {}
  OBVIOUS
<1>2. Route!Messages = 0
  BY <1>1, FS_EmptySet DEF Route!Messages, Route!Cardinality, Cardinality
<1> QED
  BY <1>2 DEF Route!Has

\* What no event changes.
LEMMA SilentStep ==
  ASSUME UNCHANGED out
  PROVE  Route!Messages' = Route!Messages /\ \A f : Route!Has(f)' <=> Route!Has(f)
BY DEF Route!Messages, Route!Has

LEMMA StepSent ==
  RouteFlags /\ RouteOut /\ BridgeInv /\ SentInv /\ [Route!Next]_(Route!vars) => SentInv'
<1> SUFFICES ASSUME RouteFlags, RouteOut, BridgeInv, SentInv, [Route!Next]_(Route!vars)
             PROVE  SentInv'
  OBVIOUS
<1> USE DEF RouteFlags, RouteOut, Route!WsState, Route!requestVars, SentInv
<1>0. /\ ~cleanup => stream = "readable"
      /\ probing => ws = "none" /\ ~connectTimer /\ (cleanup => earlyAbort)
      /\ aborted => cleanup
      /\ "offline" \in Route!Event /\ "error" \in Route!Event /\ "connected" \in Route!Event
      /\ "message" \in Route!Event
  BY DEF BridgeInv, Route!WritableUnlessCleanedUp, BeforeSocket, Abortion, Route!Event
<1>1. ASSUME NEW e \in Route!Event, out' = Append(out, e)
      PROVE  \A f \in Route!Event : Route!Has(f)' <=> (Route!Has(f) \/ f = e)
  BY <1>1, AfterSending
<1>2. ASSUME UNCHANGED out
      PROVE  \A f \in Route!Event : Route!Has(f)' <=> Route!Has(f)
  BY <1>2, SilentStep
<1>3. ASSUME NEW healthy \in BOOLEAN, Route!ProbeSettles(healthy) PROVE SentInv'
  BY <1>0, <1>1, <1>2, <1>3 DEF Route!ProbeSettles, Route!OpenSocket
<1>4. CASE Route!WsOpens
  BY <1>0, <1>1, <1>2, <1>4 DEF Route!WsOpens
<1>5. CASE Route!WsMessage
  BY <1>0, <1>1, <1>5 DEF Route!WsMessage
<1>6. CASE Route!WsError
  <2>1. CASE cleanup
    BY <1>0, <1>2, <1>6, <2>1 DEF Route!WsError
  <2>2. CASE ~cleanup
    <3>1. stream' = "closed" /\ cleanup' /\ UNCHANGED probing /\ Route!WsLive
      BY <1>6, <2>2 DEF Route!WsError, Route!TearDown
    <3> QED
      BY <1>0, <3>1 DEF Route!WsLive
  <2> QED
    BY <2>1, <2>2
<1>7. CASE Route!WsCloses
  BY <1>0, <1>2, <1>7 DEF Route!WsCloses, Route!TearDown
<1>8. CASE Route!ConnectTimeout
  BY <1>0, <1>1, <1>2, <1>8 DEF Route!ConnectTimeout, Route!Closing
<1>9. CASE Route!Abort
  BY <1>0, <1>2, <1>9 DEF Route!Abort, Route!Closing
<1>10. CASE Route!Cancel
  BY <1>0, <1>2, <1>10 DEF Route!Cancel, Route!Closing
<1>11. CASE UNCHANGED Route!vars
  BY <1>0, <1>2, <1>11 DEF Route!vars
<1> QED
  BY <1>3, <1>4, <1>5, <1>6, <1>7, <1>8, <1>9, <1>10, <1>11 DEF Route!Next

LEMMA SeenStep ==
  ASSUME RouteFlags, RouteOut, BridgeInv, SentInv, [Route!Next]_(Route!vars)
  PROVE  [Route!Seen!Next]_(Route!Seen!vars)
<1> USE DEF RouteFlags, RouteOut, Route!WsState, Route!requestVars
<1>0. /\ ~cleanup => stream = "readable"
      /\ probing => ws = "none" /\ ~connectTimer /\ (cleanup => earlyAbort)
      /\ aborted => cleanup
      /\ "offline" \in Route!Event /\ "error" \in Route!Event /\ "connected" \in Route!Event
      /\ "message" \in Route!Event
  BY DEF BridgeInv, Route!WritableUnlessCleanedUp, BeforeSocket, Abortion, Route!Event
<1>1. ASSUME NEW e \in Route!Event, out' = Append(out, e)
      PROVE  /\ \A f \in Route!Event : Route!Has(f)' <=> (Route!Has(f) \/ f = e)
             /\ Route!Messages' = IF e = "message" THEN Route!Messages + 1 ELSE Route!Messages
  BY <1>1, AfterSending
<1>2. ASSUME UNCHANGED out
      PROVE  /\ Route!Messages' = Route!Messages
             /\ Route!Farewell' = Route!Farewell
             /\ \A f \in Route!Event : Route!Has(f)' <=> Route!Has(f)
  BY <1>2 DEF Route!Messages, Route!Farewell, Route!Has
<1>3. out = <<>> => \A f \in Route!Event : ~Route!Has(f)
  BY NothingSent
\* A callback that sends nothing and leaves the stream alone
<1>4. ASSUME UNCHANGED <<out, stream, aborted>> PROVE UNCHANGED Route!Seen!vars
  BY <1>2, <1>4, <1>0 DEF Route!Seen!vars, Route!Phase
\* A farewell, or none
<1>5. ASSUME ~cleanup, stream' = "closed", UNCHANGED aborted,
             UNCHANGED out \/ out' = Append(out, "error")
      PROVE  Route!Seen!End
  <2>1. stream = "readable" /\ ~aborted /\ ~Route!Has("offline") /\ ~Route!Has("error")
    BY <1>0, <1>5 DEF SentInv
  <2>2. Route!Phase \in {"open", "bridged"} /\ Route!Phase' = "ended"
    BY <1>5, <2>1 DEF Route!Phase
  <2>3. Route!Messages' = Route!Messages /\ Route!Farewell' \in {"none", "error"}
    BY <1>0, <1>1, <1>2, <1>5, <2>1 DEF Route!Farewell
  <2> QED
    BY <2>2, <2>3 DEF Route!Seen!End
<1>6. ASSUME NEW healthy \in BOOLEAN, Route!ProbeSettles(healthy)
      PROVE  Route!Seen!Offline \/ UNCHANGED Route!Seen!vars
  <2>1. CASE UNCHANGED <<out, stream>>
    BY <1>4, <1>6, <2>1 DEF Route!ProbeSettles
  <2>2. CASE stream = "readable" /\ aborted /\ out' = out /\ stream' = "closed"
    BY <1>2, <1>6, <2>2 DEF Route!ProbeSettles, Route!Seen!vars, Route!Phase
  <2>3. CASE stream = "readable" /\ ~aborted /\ out' = Append(out, "offline") /\ stream' = "closed"
    <3>1. out = <<>> /\ \A f \in Route!Event : ~Route!Has(f)
      BY <1>3, <1>6 DEF Route!ProbeSettles, SentInv
    <3>2. Route!Phase = "open" /\ Route!Phase' = "ended"
      BY <1>0, <2>3, <3>1 DEF Route!Phase
    <3>3. Route!Farewell' = "offline" /\ Route!Messages' = Route!Messages
      BY <1>0, <1>1, <2>3, <3>1 DEF Route!Farewell
    <3> QED
      BY <3>2, <3>3 DEF Route!Seen!Offline
  <2> QED
    BY <1>6, <2>1, <2>2, <2>3 DEF Route!ProbeSettles
<1>7. CASE Route!WsOpens
  <2>1. CASE cleanup
    BY <1>4, <1>7, <2>1 DEF Route!WsOpens
  <2>2. CASE ~cleanup
    <3>1. /\ out' = Append(out, "connected") /\ stream = "readable" /\ ~aborted
          /\ UNCHANGED <<stream, aborted>> /\ \A f \in Route!Event : ~Route!Has(f)
      BY <1>0, <1>3, <1>7, <2>2 DEF Route!WsOpens, SentInv
    <3>2. Route!Phase = "open" /\ Route!Phase' = "bridged"
      BY <1>0, <1>1, <3>1 DEF Route!Phase
    <3>3. Route!Farewell' = Route!Farewell /\ Route!Messages' = Route!Messages
      BY <1>0, <1>1, <3>1 DEF Route!Farewell
    <3> QED
      BY <3>2, <3>3 DEF Route!Seen!Announce, Route!Seen!Next
  <2> QED
    BY <2>1, <2>2
<1>8. CASE Route!WsMessage
  <2>1. /\ out' = Append(out, "message") /\ stream = "readable" /\ ~aborted
        /\ UNCHANGED <<stream, aborted>> /\ Route!Has("connected")
    BY <1>0, <1>8 DEF Route!WsMessage, SentInv
  <2>2. Route!Phase = "bridged" /\ Route!Phase' = "bridged"
    BY <1>0, <1>1, <2>1 DEF Route!Phase
  <2>3. Route!Farewell' = Route!Farewell /\ Route!Messages' = Route!Messages + 1
    BY <1>0, <1>1, <2>1 DEF Route!Farewell
  <2> QED
    BY <2>2, <2>3 DEF Route!Seen!Deliver, Route!Seen!Next
<1>9. CASE Route!WsError
  <2>1. CASE cleanup
    BY <1>4, <1>9, <2>1 DEF Route!WsError
  <2>2. CASE ~cleanup
    <3>1. stream' = "closed" /\ UNCHANGED aborted /\ out' = Append(out, "error")
      BY <1>9, <2>2 DEF Route!WsError, Route!TearDown
    <3> QED
      BY <1>5, <2>2, <3>1 DEF Route!Seen!Next
  <2> QED
    BY <2>1, <2>2
<1>10. CASE Route!WsCloses
  BY <1>4, <1>5, <1>10 DEF Route!WsCloses, Route!TearDown, Route!Seen!Next
<1>11. CASE Route!ConnectTimeout
  BY <1>4, <1>5, <1>11 DEF Route!ConnectTimeout, Route!Seen!Next
<1>12. CASE Route!Abort
  <2>1. UNCHANGED <<out, stream>> /\ ~aborted /\ aborted'
    BY <1>12 DEF Route!Abort
  <2>2. Route!Phase' = "ended"
    BY <2>1 DEF Route!Phase
  <2>3. CASE stream = "readable"
    <3>1. Route!Phase \in {"open", "bridged"} /\ Route!Farewell = "none"
      BY <2>1, <2>3 DEF Route!Phase, Route!Farewell, SentInv
    <3> QED
      BY <1>2, <2>1, <2>2, <3>1 DEF Route!Seen!End, Route!Seen!Next
  <2>4. CASE stream # "readable"
    BY <1>2, <2>1, <2>2, <2>4 DEF Route!Phase, Route!Seen!vars
  <2> QED
    BY <2>3, <2>4
<1>13. CASE Route!Cancel
  BY <1>2, <1>13 DEF Route!Cancel, Route!Phase, Route!Seen!vars
<1>14. CASE UNCHANGED Route!vars
  BY <1>4, <1>14 DEF Route!vars
<1> QED
  BY <1>6, <1>7, <1>8, <1>9, <1>10, <1>11, <1>12, <1>13, <1>14 DEF Route!Next, Route!Seen!Next

\* What the browser sees of one request is the event stream that the proxy
\* client assumes: the route implements the whole of the abstract module.
THEOREM EventStreamImplemented == Route!Spec => ImplementsEventStream
<1>1. Route!Init => SentInv /\ Route!Seen!Init
  BY NothingSent DEF Route!Init, SentInv, Route!Has, Route!Seen!Init, Route!Phase, Route!Farewell,
                     Route!Event
<1>2. Route!Init => RouteOut
  BY DEF Route!Init, RouteOut
<1>3. RouteFlags /\ RouteOut /\ BridgeInv /\ SentInv /\ [Route!Next]_(Route!vars)
        => [Route!Seen!Next]_(Route!Seen!vars)
  BY SeenStep
<1> QED
  BY <1>1, <1>2, <1>3, RouteStepOut, StepSent, BridgeCorrect, PTL
  DEF Route!Spec, ImplementsEventStream, Route!ImplementsEventStream, Route!Seen!Spec
=============================================================================
