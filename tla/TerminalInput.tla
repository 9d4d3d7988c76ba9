---------------------------- MODULE TerminalInput ----------------------------
(***************************************************************************)
(* The keys of a terminal view on their way to the stdin of its session:   *)
(* the batching buffer (lib/terminal-input-buffer.ts) that every terminal  *)
(* of plugins/terminal/terminal-session.ts creates and disposes of, and    *)
(* the cd command that goes past it (plugins/terminal/index.tsx).          *)
(*                                                                         *)
(* A terminal is created for the session that is shown and disposed when   *)
(* another one, or none, is shown.  Writes are HTTP calls of their own,    *)
(* which overtake each other.  A piece of data that is pushed at once is   *)
(* a key; keys are numbered as they are typed.  Which session is shown is  *)
(* the subject of TerminalTabs.                                            *)
(***************************************************************************)
EXTENDS Naturals, FiniteSets, SequencesExt

CONSTANTS
  Sessions,
  NoSession,
  MaxBytes,    \* keys that force a flush (4096 bytes in the code)
  MaxKeys      \* bound: keys typed

VARIABLES
  shown,     \* coreSessionId of the view
  buffer,    \* _buffer of the current terminal
  timer,     \* its _timer is set
  typedAt,   \* the session each key was typed to (history)
  writes,    \* stream.write calls in flight
  stdin,     \* what each session has read
  lost       \* keys of writes that failed

vars == <<shown, buffer, timer, typedAt, writes, stdin, lost>>

Key == 1..MaxKeys
Write == [session: Sessions, keys: Seq(Key)]
Open == shown # NoSession

TypeOK ==
  /\ shown \in Sessions \cup {NoSession}
  /\ buffer \in Seq(Key) /\ Len(buffer) < MaxBytes
  /\ timer \in BOOLEAN
  /\ typedAt \in Seq(Sessions) /\ Len(typedAt) <= MaxKeys
  /\ writes \subseteq Write
  /\ stdin \in [Sessions -> Seq(Key)]
  /\ lost \subseteq Key

-----------------------------------------------------------------------------
Sending(s, keys) == IF keys = <<>> THEN {} ELSE {[session |-> s, keys |-> keys]}

\* flush() of the current terminal, when keys are in its buffer
Flush(keys) ==
  /\ writes' = writes \cup Sending(shown, keys)
  /\ buffer' = <<>>
  /\ timer' = FALSE

\* Mutant: the timer is armed only by the second key.
ArmedLate == buffer # <<>>

Armed == TRUE

Full(keys) == Len(keys) >= MaxBytes

\* push(): a control character or a full buffer flushes at once.
Type(control) ==
  /\ Open
  /\ Len(typedAt) < MaxKeys
  /\ typedAt' = Append(typedAt, shown)
  /\ LET keys == Append(buffer, Len(typedAt) + 1)
     IN  IF control \/ Full(keys)
         THEN Flush(keys)
         ELSE /\ buffer' = keys
              /\ timer' = (timer \/ Armed)
              /\ UNCHANGED writes
  /\ UNCHANGED <<shown, stdin, lost>>

\* sendCd, when the core is connected, writes past the buffer.
SendCd ==
  /\ Open
  /\ Len(typedAt) < MaxKeys
  /\ typedAt' = Append(typedAt, shown)
  /\ writes' = writes \cup Sending(shown, <<Len(typedAt) + 1>>)
  /\ UNCHANGED <<shown, buffer, timer, stdin, lost>>

TimerFires ==
  /\ timer
  /\ Flush(buffer)
  /\ UNCHANGED <<shown, typedAt, stdin, lost>>

WriteArrives(w) ==
  /\ w \in writes
  /\ writes' = writes \ {w}
  /\ stdin' = [stdin EXCEPT ![w.session] = @ \o w.keys]
  /\ UNCHANGED <<shown, buffer, timer, typedAt, lost>>

\* The rejection is swallowed: nothing is sent again.
WriteFails(w) ==
  /\ w \in writes
  /\ writes' = writes \ {w}
  /\ lost' = lost \cup Range(w.keys)
  /\ UNCHANGED <<shown, buffer, timer, typedAt, stdin>>

\* Mutant: the data left in the buffer goes to the session shown next.
DisposeLate(s) ==
  /\ writes' = writes \cup (IF s = NoSession THEN {} ELSE Sending(s, buffer))
  /\ buffer' = <<>>
  /\ timer' = FALSE

\* dispose() before session s is shown: the timer is cancelled and what is
\* left is written at once.
Dispose(s) ==
  /\ writes' = writes \cup (IF Open THEN Sending(shown, buffer) ELSE {})
  /\ buffer' = <<>>
  /\ timer' = FALSE

\* The view shows another session, or none.
Show(s) ==
  /\ s # shown
  /\ shown' = s
  /\ Dispose(s)
  /\ UNCHANGED <<typedAt, stdin, lost>>

-----------------------------------------------------------------------------
Init ==
  /\ shown = NoSession
  /\ buffer = <<>> /\ timer = FALSE
  /\ typedAt = <<>>
  /\ writes = {} /\ stdin = [s \in Sessions |-> <<>>] /\ lost = {}

WriteSettles == \E w \in writes : WriteArrives(w) \/ WriteFails(w)

Next ==
  \/ \E control \in BOOLEAN : Type(control)
  \/ SendCd
  \/ TimerFires
  \/ WriteSettles
  \/ \E s \in Sessions \cup {NoSession} : Show(s)

(* Timers fire and HTTP calls settle. *)
Spec == Init /\ [][Next]_vars /\ WF_vars(TimerFires) /\ WF_vars(WriteSettles)

-----------------------------------------------------------------------------
(***************************************************************************)
(* Properties                                                              *)
(***************************************************************************)

Typed == DOMAIN typedAt
Places(k) ==
  Cardinality({i \in DOMAIN buffer : buffer[i] = k})
  + Cardinality({w \in writes : k \in Range(w.keys)})
  + Cardinality({p \in Sessions \X Key : p[2] \in DOMAIN stdin[p[1]] /\ stdin[p[1]][p[2]] = k})
  + Cardinality(lost \cap {k})

\* No key is dropped and none is sent twice, however flushes, the timer,
\* dispose() and the writes of two terminals interleave.
KeysAccounted == \A k \in Typed : Places(k) = 1

\* A key never reaches another session than the one it was typed to.
KeysReachOwnSession ==
  /\ \A w \in writes : \A k \in Range(w.keys) : typedAt[k] = w.session
  /\ \A s \in Sessions : \A k \in Range(stdin[s]) : typedAt[k] = s

\* A key that is typed reaches its session unless its write fails.
KeysDelivered ==
  \A k \in Key : k \in Typed ~> k \in lost \/ \E s \in Sessions : k \in Range(stdin[s])
=============================================================================
