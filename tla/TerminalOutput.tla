---------------------------- MODULE TerminalOutput ----------------------------
(***************************************************************************)
(* What a terminal prints (plugins/terminal/terminal-session.ts): a replay *)
(* of the past of its session, and live chunks from the moment it is       *)
(* created.  The two are not matched with each other.                      *)
(*                                                                         *)
(* A terminal is created for the session that is shown and disposed when   *)
(* another one, or none, is shown; what it has started goes on, and ends   *)
(* in a subscription.  Chunks come in order over the event stream, and     *)
(* those pushed while it is down are gone.  stdout and stderr go the same  *)
(* way: one stream stands for both.  Which session is shown is the subject *)
(* of TerminalTabs.                                                        *)
(***************************************************************************)
EXTENDS Naturals, FiniteSets, SequencesExt

CONSTANTS
  Sessions,
  NoSession,
  FromSeq,     \* where the replay of a session that is not fresh starts (20)
  MaxChunks,   \* bound: chunks of a session
  MaxOutages   \* bound: losses of the event stream

VARIABLES
  shown,       \* coreSessionId of the view
  phase,       \* of the terminal: its replay is asked for, answered by Core,
               \* settled; then a frame passes and it subscribes
  from,        \* fromSeq of the terminal
  replay,      \* the answer on its way
  times,       \* how often the terminal has printed each chunk
  failed,      \* its replay has failed (history)
  held,        \* the event stream has been up since it was created (history)
  leaving,     \* sessions disposed terminals have yet to subscribe to
  subscribed,  \* sessions of the page's subscriptions in Core
  chunks,      \* how many chunks each session has produced
  pushed,      \* chunks on their way to the page
  link,        \* the event stream is up
  outages,     \* counts towards MaxOutages
  eager        \* Core pushes chunks of a session nobody has subscribed to

termVars == <<phase, from, replay, times, failed, held>>
coreVars == <<chunks, pushed, link, outages, eager>>
vars == <<shown, termVars, leaving, subscribed, coreVars>>

Chunk == 1..MaxChunks
Open == shown # NoSession
Past(s) == {n \in 1..chunks[s] : n >= from}
NoneYet == [n \in Chunk |-> 0]

TypeOK ==
  /\ shown \in Sessions \cup {NoSession}
  /\ phase \in {"asked", "answered", "settled", "subscribed"}
  /\ from \in {0, FromSeq}
  /\ replay \subseteq Chunk /\ (replay # {} => phase = "answered")
  /\ times \in [Chunk -> Nat]
  /\ failed \in BOOLEAN /\ held \in BOOLEAN
  /\ leaving \subseteq Sessions /\ subscribed \subseteq Sessions
  /\ chunks \in [Sessions -> 0..MaxChunks]
  /\ pushed \in Seq(Sessions \X Chunk)
  /\ link \in BOOLEAN /\ outages \in 0..MaxOutages /\ eager \in BOOLEAN

-----------------------------------------------------------------------------
(* Life of a terminal *)

\* The callbacks of a replay belong to one terminal.
NoAnswer == {}

\* The view shows another session, or none: the old terminal is disposed and
\* goes deaf, though its chain of calls goes on; a new one asks for a replay.
Show(s, fresh) ==
  /\ s # shown
  /\ shown' = s
  /\ leaving' = IF Open /\ phase # "subscribed" THEN leaving \cup {shown} ELSE leaving
  /\ phase' = "asked"
  /\ from' = IF fresh THEN 0 ELSE FromSeq
  /\ replay' = NoAnswer
  /\ times' = NoneYet
  /\ failed' = FALSE /\ held' = link
  /\ UNCHANGED <<subscribed, coreVars>>

\* Core answers the replay with what there is by then.
ReplayAnswered ==
  /\ Open /\ phase = "asked"
  /\ phase' = "answered"
  /\ replay' = Past(shown)
  /\ UNCHANGED <<shown, from, times, failed, held, leaving, subscribed, coreVars>>

Printed(ns) == [n \in Chunk |-> times[n] + IF n \in ns THEN 1 ELSE 0]

\* Its events are printed, whatever has been printed before.
ReplayArrives ==
  /\ Open /\ phase = "answered"
  /\ phase' = "settled"
  /\ times' = Printed(replay)
  /\ replay' = {}
  /\ UNCHANGED <<shown, from, failed, held, leaving, subscribed, coreVars>>

ReplayFails ==
  /\ Open /\ phase \in {"asked", "answered"}
  /\ phase' = "settled"
  /\ replay' = {}
  /\ failed' = TRUE
  /\ UNCHANGED <<shown, from, times, held, leaving, subscribed, coreVars>>

\* The frame after the replay
Subscribe ==
  /\ Open /\ phase = "settled"
  /\ phase' = "subscribed"
  /\ subscribed' = subscribed \cup {shown}
  /\ UNCHANGED <<shown, from, replay, times, failed, held, leaving, coreVars>>

\* The same of a terminal that has been disposed since
SubscribeLate(s) ==
  /\ s \in leaving
  /\ leaving' = leaving \ {s}
  /\ subscribed' = subscribed \cup {s}
  /\ UNCHANGED <<shown, termVars, coreVars>>

-----------------------------------------------------------------------------
(* Core and the event stream *)

\* Core pushes a chunk if the page has subscribed; it may do so before.
ChunkProduced(s) ==
  /\ chunks[s] < MaxChunks
  /\ chunks' = [chunks EXCEPT ![s] = @ + 1]
  /\ pushed' = IF link /\ (eager \/ s \in subscribed)
               THEN Append(pushed, <<s, chunks[s] + 1>>) ELSE pushed
  /\ UNCHANGED <<shown, termVars, leaving, subscribed, link, outages, eager>>

\* Mutant: the handler is registered by the subscription.
ListensLate == Open /\ phase = "subscribed"

\* chunkHandler is registered when the terminal is created.
Listens == Open

ChunkArrives ==
  /\ pushed # <<>>
  /\ pushed' = Tail(pushed)
  /\ times' = IF Listens /\ Head(pushed)[1] = shown
              THEN Printed({Head(pushed)[2]}) ELSE times
  /\ UNCHANGED <<shown, phase, from, replay, failed, held, leaving, subscribed,
                 chunks, link, outages, eager>>

LinkLost ==
  /\ link
  /\ outages < MaxOutages
  /\ outages' = outages + 1
  /\ link' = FALSE
  /\ pushed' = <<>>
  /\ held' = FALSE
  /\ UNCHANGED <<shown, phase, from, replay, times, failed, leaving, subscribed,
                 chunks, eager>>

\* The terminal does nothing when the event stream is back.
LinkBack ==
  /\ ~link
  /\ link' = TRUE
  /\ UNCHANGED <<shown, termVars, leaving, subscribed, chunks, pushed, outages, eager>>

-----------------------------------------------------------------------------
Init ==
  /\ shown = NoSession
  /\ phase = "asked" /\ from = 0 /\ replay = {} /\ times = NoneYet /\ failed = FALSE /\ held = TRUE
  /\ leaving = {} /\ subscribed = {}
  /\ chunks = [s \in Sessions |-> 0]
  /\ pushed = <<>> /\ link = TRUE /\ outages = 0
  /\ eager \in BOOLEAN

Next ==
  \/ \E s \in Sessions \cup {NoSession}, fresh \in BOOLEAN : Show(s, fresh)
  \/ ReplayAnswered
  \/ ReplayArrives
  \/ ReplayFails
  \/ Subscribe
  \/ \E s \in Sessions : SubscribeLate(s) \/ ChunkProduced(s)
  \/ ChunkArrives
  \/ LinkLost
  \/ LinkBack

Spec == Init /\ [][Next]_vars

-----------------------------------------------------------------------------
(***************************************************************************)
(* Properties                                                              *)
(***************************************************************************)

\* The replay is over, the stream is up and nothing is on its way.
UpToDate == Open /\ phase = "subscribed" /\ link /\ pushed = <<>>
Missing == {n \in Past(shown) : times[n] = 0}

\* Where Core pushes from the start, replay and live output together leave no
\* gap, whenever the replay is answered and whatever was shown before, as long
\* as the replay succeeds and the event stream holds.  (Chunks of an outage of
\* the stream stay missing: nothing replays when it is back, although
\* docs/core-v2/core-kernel/SESSION_AND_STREAM.md:1246 asks for it.)
NoGap == UpToDate /\ eager /\ held /\ ~failed => Missing = {}

=============================================================================
