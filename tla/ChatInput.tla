------------------------------ MODULE ChatInput -------------------------------
(***************************************************************************)
(* What a user types into the chat views of a page, and where it goes:     *)
(* the one input value and the phase that the page keeps                   *)
(* (app/console/hooks/use-command-handlers.ts, shell/use-tool-tracking.ts),*)
(* the input bar, the parser and the adapter of each chat view             *)
(* (plugins/claude-chat: chat-layout.tsx, chat-input.tsx,                  *)
(* use-chat-parser.ts, adapter/index.js), and sendInput and sendCommand of *)
(* lib/use-ws.ts.                                                          *)
(*                                                                         *)
(* Every chat view has an adapter of its own, and is named like its run.   *)
(* The button of the bar submits to the chat, Enter is the page's: it      *)
(* writes what was typed to the active run as it is, without a newline.    *)
(* Texts are numbered as they are typed; what is appended to a text leaves *)
(* it its number.  Core is external: it hands what is written to a run on  *)
(* in order, and may end a run it is told to interrupt.  The answer of an  *)
(* adapter is its result (ClaudeChat models the loop): every chat view     *)
(* reads every answer.                                                     *)
(***************************************************************************)
EXTENDS Naturals, Sequences

CONSTANTS
  Chats,      \* chat views and the runs of their adapters
  NoChat,     \* another run is active
  MaxTexts,   \* bound: texts typed
  MaxStops,   \* bound: interrupts and /compact clicks
  MaxBreaks   \* bound: losses of the link

VARIABLES
  input,      \* inputValue: [text, kind], the text 0 when it is empty
  suggest,    \* showFileSuggest
  phase,      \* phase of the page: "running" or not
  submitting, \* submittingRef
  active,     \* activeSessionId
  up,         \* connStatus and core.isConnected
  chat,       \* phase of each chat's parser
  turns,      \* the texts each chat shows
  wire,       \* stream.write calls on their way to each run
  partial,    \* the stdin of each adapter ends in an unfinished line
  heard,      \* the texts each adapter has understood
  working,    \* adapters that stream an answer
  gone,       \* adapters that have ended
  typed, stops, breaks,
  writes,     \* history: how often each text was written to a run
  raw,        \* history: runs that Enter or /compact wrote to
  lost,       \* history: texts written or submitted to a run that did not get them
  garbled,    \* history: texts an adapter could not parse
  entered     \* history: <<chat, text>> that Enter submitted

pageVars == <<input, suggest, phase, submitting>>
adapterVars == <<partial, heard, working, gone, garbled>>
chatInputVars == <<pageVars, active, up, chat, turns, wire, adapterVars, typed, stops, breaks,
                   writes, raw, lost, entered>>

Texts == 1..MaxTexts
Kinds == {"plain", "rewind", "query"}
Nothing == [text |-> 0, kind |-> "plain"]
Lines == [kind : {"message", "interrupt", "raw"}, text : 0..MaxTexts]

ChatInputTypeOK ==
  /\ input \in [text : 0..MaxTexts, kind : Kinds] /\ suggest \in BOOLEAN
  /\ phase \in {"idle", "running"} /\ submitting \in BOOLEAN
  /\ active \in Chats \cup {NoChat} /\ up \in BOOLEAN
  /\ chat \in [Chats -> {"idle", "running", "done", "error"}]
  /\ turns \in [Chats -> SUBSET Texts] /\ wire \in [Chats -> Seq(Lines)]
  /\ partial \subseteq Chats /\ heard \in [Chats -> SUBSET Texts]
  /\ working \subseteq Chats /\ gone \subseteq Chats
  /\ typed \in 0..MaxTexts /\ stops \in 0..MaxStops /\ breaks \in 0..MaxBreaks
  /\ writes \in [Texts -> Nat] /\ raw \subseteq Chats
  /\ lost \subseteq Texts /\ garbled \subseteq Texts /\ entered \subseteq Chats \X Texts

ChatInputInit ==
  /\ input = Nothing /\ suggest = FALSE /\ phase = "idle" /\ submitting = FALSE
  /\ active \in Chats \cup {NoChat} /\ up = TRUE
  /\ chat = [c \in Chats |-> "idle"] /\ turns = [c \in Chats |-> {}]
  /\ wire = [c \in Chats |-> <<>>] /\ partial = {} /\ heard = [c \in Chats |-> {}]
  /\ working = {} /\ gone = {} /\ typed = 0 /\ stops = 0 /\ breaks = 0
  /\ writes = [n \in Texts |-> 0] /\ raw = {} /\ lost = {} /\ garbled = {} /\ entered = {}

-----------------------------------------------------------------------------
(* Writing to a run *)

\* core.call('stream.write'): it fails without a link, and for a run that
\* has ended.
Written(c, kind, n) ==
  /\ wire' = IF up /\ c \notin gone THEN [wire EXCEPT ![c] = Append(@, [kind |-> kind, text |-> n])]
             ELSE wire
  /\ lost' = IF n # 0 /\ (~up \/ c \in gone) THEN lost \cup {n} ELSE lost
  /\ writes' = IF n = 0 THEN writes ELSE [writes EXCEPT ![n] = @ + 1]

NotWritten == UNCHANGED <<wire, lost, writes>>

\* sendInput to the run that is active
SendInput(n) ==
  IF active = NoChat THEN /\ UNCHANGED <<wire, lost, raw>>
                          /\ writes' = IF n = 0 THEN writes ELSE [writes EXCEPT ![n] = @ + 1]
  ELSE Written(active, "raw", n) /\ raw' = IF up THEN raw \cup {active} ELSE raw

\* run.stop with the signal 'interrupt', which may end the run
MayEnd(c) ==
  \/ gone' = gone
  \/ up /\ gone' = gone \cup {c}

-----------------------------------------------------------------------------
(* Typing *)

\* The bar (ChatInput): of a chat that is not the active run it is disabled,
\* while the chat waits for an answer it has STOP for its button and no field.
FieldEnabled(c) == active = c /\ chat[c] # "running"

Fresh(kind) == typed < MaxTexts /\ typed' = typed + 1 /\ input' = [text |-> typed + 1, kind |-> kind]

\* More of the same text, or a text where there was none
Appended == IF input.text = 0 THEN Fresh("plain")
            ELSE typed' = typed /\ input' = [input EXCEPT !.kind = "plain"]

RestKept == UNCHANGED <<active, up, chat, turns, adapterVars, breaks, entered>>

\* handleInputChange: "@" and a name opens the suggestions if a file has it.
Type(c, kind) ==
  /\ FieldEnabled(c) /\ Fresh(kind)
  /\ suggest' \in IF kind = "query" THEN BOOLEAN ELSE {FALSE}
  /\ NotWritten /\ RestKept /\ UNCHANGED <<phase, submitting, stops, raw>>

\* Every other change of the value leaves the suggestions as they are:
\* handleCommandClick, and "send file" of the file tree.
CommandClick(c, kind) ==
  /\ active = c /\ Fresh(kind)
  /\ NotWritten /\ RestKept /\ UNCHANGED <<suggest, phase, submitting, stops, raw>>

SendFile ==
  /\ Appended
  /\ NotWritten /\ RestKept /\ UNCHANGED <<suggest, phase, submitting, stops, raw>>

SuggestionClick(c) ==
  /\ active = c /\ suggest /\ Appended /\ suggest' = FALSE
  /\ NotWritten /\ RestKept /\ UNCHANGED <<phase, submitting, stops, raw>>

-----------------------------------------------------------------------------
(* Submitting *)

\* Mutant: the guard is left closed when there is no link.
SubmitJams ==
  IF input.text = 0 \/ phase = "running" \/ submitting
    THEN NotWritten /\ UNCHANGED <<input, phase, submitting, raw>>
  ELSE IF ~up
    THEN submitting' = TRUE /\ NotWritten /\ UNCHANGED <<input, phase, raw>>
  ELSE /\ input' = Nothing
       /\ IF input.kind = "rewind" THEN NotWritten /\ UNCHANGED <<phase, submitting, raw>>
          ELSE phase' = "running" /\ submitting' = TRUE /\ SendInput(input.text)

\* handleSubmit of the page
Submit ==
  IF input.text = 0 \/ phase = "running" \/ submitting \/ ~up
    THEN NotWritten /\ UNCHANGED <<input, phase, submitting, raw>>
  ELSE /\ input' = Nothing
       /\ IF input.kind = "rewind" THEN NotWritten /\ UNCHANGED <<phase, submitting, raw>>
          ELSE phase' = "running" /\ submitting' = TRUE /\ SendInput(input.text)

\* handleKeyDown of the page, Enter in the text field of a chat
Enter(c) ==
  /\ FieldEnabled(c)
  /\ IF suggest
       THEN /\ Appended /\ suggest' = FALSE /\ NotWritten
            /\ UNCHANGED <<phase, submitting, raw, entered>>
       ELSE /\ Submit
            /\ entered' = IF input.text # 0 /\ input' = Nothing /\ input.kind # "rewind"
                            THEN entered \cup {<<c, input.text>>} ELSE entered
            /\ UNCHANGED <<suggest, typed>>
  /\ UNCHANGED <<active, up, chat, turns, adapterVars, breaks, stops>>

\* sendMessage of the chat
SendMessage(c, n) ==
  /\ turns' = [turns EXCEPT ![c] = @ \cup {n}] /\ chat' = [chat EXCEPT ![c] = "running"]
  /\ Written(c, "message", n)

\* Mutant: the text stays in the input.
PressKeeps(c) ==
  /\ FieldEnabled(c) /\ input.text # 0
  /\ IF up THEN SendMessage(c, input.text)
     ELSE /\ lost' = lost \cup {input.text}
          /\ UNCHANGED <<wire, writes, turns, chat>>
  /\ UNCHANGED <<pageVars, active, up, adapterVars, typed, stops, breaks, raw, entered>>

\* The button of the bar: handleChatSubmit.  Without a link the text is gone.
Press(c) ==
  /\ FieldEnabled(c) /\ input.text # 0 /\ input' = Nothing
  /\ IF up THEN SendMessage(c, input.text)
     ELSE /\ lost' = lost \cup {input.text}
          /\ UNCHANGED <<wire, writes, turns, chat>>
  /\ UNCHANGED <<suggest, phase, submitting, active, up, adapterVars, typed, stops, breaks, raw,
                 entered>>

-----------------------------------------------------------------------------
(* Stopping, and the other buttons *)

Stopping == stops < MaxStops /\ stops' = stops + 1

\* interrupt of the chat: the button shown while it waits
StopChat(c) ==
  /\ active = c /\ chat[c] = "running" /\ Stopping
  /\ chat' = [chat EXCEPT ![c] = "done"]
  /\ IF up THEN Written(c, "interrupt", 0) /\ MayEnd(c) ELSE NotWritten /\ UNCHANGED gone
  /\ UNCHANGED <<pageVars, active, up, turns, partial, heard, working, garbled, typed, breaks,
                 raw, entered>>

\* What follows when the phase leaves 'running'
PageIdle == phase' = "idle" /\ submitting' = FALSE

\* handleInterrupt of the page: Escape in the text field, and the top bar
StopPage ==
  /\ phase = "running" /\ Stopping /\ PageIdle
  /\ IF active # NoChat THEN MayEnd(active) ELSE UNCHANGED gone
  /\ NotWritten
  /\ UNCHANGED <<input, suggest, active, up, chat, turns, partial, heard, working, garbled, typed,
                 breaks, raw, entered>>

\* handleNewSessionWrapper, loadSnapshotWrapper and forkFromSnapshotWrapper
NewSession ==
  /\ phase = "running" /\ PageIdle
  /\ NotWritten /\ RestKept /\ UNCHANGED <<input, suggest, typed, stops, raw>>

\* handleQuickCompact
Compact ==
  /\ Stopping
  /\ IF up THEN SendInput(0) ELSE NotWritten /\ UNCHANGED raw
  /\ RestKept /\ UNCHANGED <<pageVars, typed>>

Activate(c) ==
  /\ active # c /\ active' = c
  /\ NotWritten /\ UNCHANGED <<pageVars, up, chat, turns, adapterVars, typed, stops, breaks, raw,
                               entered>>

-----------------------------------------------------------------------------
(* The adapters *)

InFlight(c) == {wire[c][i].text : i \in DOMAIN wire[c]} \ {0}
LastTurn(c) == {n \in turns[c] : \A m \in turns[c] : m <= n}

\* A line of stdin (readline): what was written without a newline is the
\* beginning of the next line, which is no JSON then; emitError follows.
Receive(c) ==
  /\ wire[c] # <<>> /\ c \notin gone /\ wire' = [wire EXCEPT ![c] = Tail(@)]
  /\ LET line == Head(wire[c])
     IN CASE line.kind = "raw" ->
               partial' = partial \cup {c} /\ UNCHANGED <<heard, working, garbled, chat>>
          [] line.kind # "raw" /\ c \in partial ->
               /\ partial' = partial \ {c} /\ garbled' = garbled \cup ({line.text} \ {0})
               /\ chat' = [d \in Chats |-> "error"] /\ UNCHANGED <<heard, working>>
          [] line.kind = "message" /\ c \notin partial ->
               /\ heard' = [heard EXCEPT ![c] = @ \cup {line.text}]
               /\ working' = working \cup {c} /\ UNCHANGED <<partial, garbled, chat>>
          [] line.kind = "interrupt" /\ c \notin partial ->
               /\ working' = working \ {c} /\ chat' = [d \in Chats |-> "done"]
               /\ UNCHANGED <<partial, heard, garbled>>
  /\ UNCHANGED <<pageVars, active, up, turns, gone, typed, stops, breaks, writes, raw, lost, entered>>

\* The result of an answer: the handler of stream.chunk does not look whose
\* it is.  Without a link it is lost.
Answer(c, as) ==
  /\ c \in working /\ working' = working \ {c}
  /\ IF up THEN chat' = [d \in Chats |-> as] /\ lost' = lost
     ELSE chat' = chat /\ lost' = lost \cup LastTurn(c)
  /\ UNCHANGED <<pageVars, active, up, turns, wire, partial, heard, gone, garbled, typed, stops,
                 breaks, writes, raw, entered>>

\* What an ended run has not read is lost.
RunEnded(c) ==
  /\ c \in gone /\ (wire[c] # <<>> \/ c \in working)
  /\ wire' = [wire EXCEPT ![c] = <<>>] /\ lost' = lost \cup InFlight(c) \cup LastTurn(c)
  /\ working' = working \ {c}
  /\ UNCHANGED <<pageVars, active, up, chat, turns, partial, heard, gone, garbled, typed, stops,
                 breaks, writes, raw, entered>>

LinkLost ==
  /\ up /\ breaks < MaxBreaks /\ breaks' = breaks + 1 /\ up' = FALSE
  /\ wire' = [c \in Chats |-> <<>>]
  /\ lost' = lost \cup UNION {InFlight(c) : c \in Chats}
  /\ UNCHANGED <<pageVars, active, chat, turns, adapterVars, typed, stops, writes, raw, entered>>

LinkBack ==
  /\ ~up /\ up' = TRUE
  /\ NotWritten /\ UNCHANGED <<pageVars, active, chat, turns, adapterVars, typed, stops, breaks, raw,
                               entered>>

ChatInputNext ==
  \/ \E c \in Chats, kind \in {"plain", "query"} : Type(c, kind)
  \/ \E c \in Chats, kind \in {"plain", "rewind"} : CommandClick(c, kind)
  \/ \E c \in Chats : Enter(c) \/ SuggestionClick(c) \/ Press(c) \/ StopChat(c)
  \/ \E c \in Chats : Receive(c) \/ RunEnded(c)
  \/ \E c \in Chats, as \in {"done", "error"} : Answer(c, as)
  \/ \E c \in Chats \cup {NoChat} : Activate(c)
  \/ SendFile \/ StopPage \/ NewSession \/ Compact \/ LinkLost \/ LinkBack

-----------------------------------------------------------------------------
\* The page takes input again once nothing runs: no path through handleSubmit
\* leaves its guard closed (use-command-handlers.ts:30).
NeverJams == submitting => phase = "running"

\* A text goes to one run, once, by the button or by Enter
\* (use-command-handlers.ts:38, chat-layout.tsx:154).
WrittenOnce == \A n \in Texts : writes[n] <= 1

\* What a chat shows as sent was understood by its adapter, is on its way, or
\* did not get there; that an adapter cannot parse it takes input that was
\* written to its run past the chat (use-chat-parser.ts:240, adapter/index.js:456).
ShownIsSent ==
  /\ \A c \in Chats : turns[c] \subseteq heard[c] \cup InFlight(c) \cup lost \cup garbled
  /\ garbled # {} => raw # {}

\* A chat that waits is owed an answer, or what it sent is lost
\* (use-chat-parser.ts:233).
WaitIsOwed ==
  \A c \in Chats : chat[c] = "running" =>
    c \in working \/ InFlight(c) # {} \/ LastTurn(c) \cap lost # {}

ChatInputKept == NeverJams /\ WrittenOnce /\ ShownIsSent /\ WaitIsOwed

\* "Submit (Enter)" (chat-input.tsx:143): what Enter submits in a chat is a
\* message of that chat.
EnterSubmits == \A c \in Chats, n \in Texts : <<c, n>> \in entered => n \in turns[c]
=============================================================================
