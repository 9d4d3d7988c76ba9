----------------------------- MODULE ClaudeChat ------------------------------
(***************************************************************************)
(* The chat adapter process (plugins/claude-chat/adapter/index.js): it     *)
(* reads JSON messages from stdin, streams a model provider's answer, and  *)
(* writes JSON events to stdout.  callProvider() is an async loop whose    *)
(* control state is spread over three globals, running, abortController    *)
(* and pendingToolResult; between two provider events the handler of       *)
(* stdin may change all of them, or start the loop once more.              *)
(*                                                                         *)
(* Left out: texts, token counts and costs, configure (it changes only the *)
(* next call's parameters) and conversationHistory, which is only appended *)
(* to and handed to the provider.                                          *)
(*                                                                         *)
(* At its other end is a chat: the plugin's parser and reducer             *)
(* (plugins/claude-chat/hooks/use-chat-parser.ts).  Core carries the lines *)
(* between them in order; it is external.                                  *)
(*                                                                         *)
(* sendToolResult and resetSession are exported by the hook, though no     *)
(* component calls them yet.  Left out: block contents (a block never      *)
(* changes the phase or the list of messages) and partial lines.           *)
(***************************************************************************)
EXTENDS Integers, FiniteSets, Sequences

CONSTANTS
  Runs,       \* activations of callProvider; reused once they have returned
  NoRun,      \* null
  MaxSends,   \* bound: messages the user sends
  MaxOutput   \* bound: events not yet parsed when text is added or
              \* a button is clicked

InputMessage == {"user_message", "tool_result", "interrupt", "reset"}

ASSUME RunsAssumption == NoRun \notin Runs

ASSUME ChatAssumption ==
  /\ MaxSends \in Nat
  /\ MaxOutput \in Nat

VARIABLES
  running,     \* running
  controller,  \* abortController: the run that created it, or null
  pending,     \* pendingToolResult: the run whose promise it holds, or null
  phase,       \* where each activation of callProvider is
  stdout,      \* events written and not yet read by the plugin
  owed,        \* runs started minus results written, while used is empty (history)
  used,        \* what has happened beyond plain messages (history)
  stdin,       \* messages on their way to the adapter
  alive,       \* the adapter process runs
  chatPhase,   \* phase of the reducer's state
  messages     \* messages of the reducer's state

adapterVars == <<running, controller, pending, phase, stdout, owed, used>>

Output == {"text", "tool_use", "assistant", "error", "success_result", "error_result"}

TypeOK ==
  /\ running \in BOOLEAN
  /\ controller \in Runs \cup {NoRun}
  /\ pending \in Runs \cup {NoRun}
  /\ phase \in [Runs -> {"returned", "streaming", "waiting"}]
  /\ stdout \in Seq(Output)
  /\ owed \in Int
  /\ used \subseteq {"interrupt", "reset", "tool_use"}

Init ==
  /\ running = FALSE
  /\ controller = NoRun
  /\ pending = NoRun
  /\ phase = [r \in Runs |-> "returned"]
  /\ stdout = <<>>
  /\ owed = 0
  /\ used = {}

-----------------------------------------------------------------------------
IsResult(o) == o \in {"success_result", "error_result"}

Owe(n) == owed' = IF used = {} THEN owed + n ELSE 0

Write(outputs) == stdout' = stdout \o outputs

\* callProvider() when nothing is running: the loop starts at once.
Start(r, phases) ==
  /\ phases[r] = "returned"
  /\ running' = TRUE
  /\ controller' = r
  /\ phase' = [phases EXCEPT ![r] = "streaming"]

\* The way out of callProvider
Return(r) ==
  /\ phase' = [phase EXCEPT ![r] = "returned"]
  /\ running' = FALSE
  /\ controller' = NoRun

-----------------------------------------------------------------------------
(* handleMessage *)

\* A message that arrives while a run is streaming only enters the history.
UserMessage ==
  /\ IF running
     THEN UNCHANGED <<running, controller, phase, owed>>
     ELSE /\ \E r \in Runs : Start(r, phase)
          /\ Owe(1)
  /\ Write(<<>>)
  /\ UNCHANGED <<pending, used>>

\* tool_result: resolve() lets the waiting run go on (line 258, before any
\* other event), and unless something is running callProvider starts again.
ToolResult ==
  /\ Write(<<>>)
  /\ IF pending = NoRun
     THEN UNCHANGED <<running, controller, pending, phase, owed>>
     ELSE LET resumed == [phase EXCEPT ![pending] = "streaming"]
          IN /\ pending' = NoRun
             /\ IF running
                THEN /\ phase' = resumed
                     /\ UNCHANGED <<running, controller, owed>>
                ELSE /\ \E r \in Runs : Start(r, resumed)
                     /\ Owe(1)
  /\ UNCHANGED used

\* interrupt aborts the controller and drops it in one go: no run ever sees
\* signal.aborted.
Interrupt ==
  /\ controller' = NoRun
  /\ running' = FALSE
  /\ Write(<<"success_result">>)
  /\ owed' = 0
  /\ UNCHANGED <<pending, phase>>
  /\ used' = used \cup {"interrupt"}

Reset ==
  /\ running' = FALSE
  /\ controller' = NoRun
  /\ pending' = NoRun
  /\ Write(<<>>)
  /\ UNCHANGED <<phase>>
  /\ used' = used \cup {"reset"}
  /\ owed' = 0

HandleMessage(m) ==
  \/ m = "user_message" /\ UserMessage
  \/ m = "tool_result" /\ ToolResult
  \/ m = "interrupt" /\ Interrupt
  \/ m = "reset" /\ Reset

-----------------------------------------------------------------------------
(* Provider events of one run *)

\* The catch clause, or the provider's error event
Fails(r) ==
  /\ phase[r] = "streaming"
  /\ Return(r)
  /\ Write(<<"error", "error_result">>)
  /\ Owe(-1)
  /\ UNCHANGED <<pending, used>>

\* The loop head reads abortController.signal: with null it throws.
HasController == controller # NoRun

EventThrows(r) == ~HasController /\ Fails(r)

\* text, thinking, usage, need_tool_result
Delta(r) ==
  /\ phase[r] = "streaming"
  /\ HasController
  /\ Write(<<"text">>)
  /\ UNCHANGED <<running, controller, pending, phase, owed, used>>

\* tool_use: the run waits until the plugin has sent the tool's result.
ToolUse(r) ==
  /\ phase[r] = "streaming"
  /\ HasController
  /\ running' = FALSE
  /\ pending' = r
  /\ phase' = [phase EXCEPT ![r] = "waiting"]
  /\ Write(<<"tool_use", "assistant">>)
  /\ UNCHANGED <<controller>>
  /\ used' = used \cup {"tool_use"}
  /\ owed' = 0

\* Mutant: the success result is written once more.
DoneTwice(r) ==
  /\ phase[r] = "streaming"
  /\ HasController
  /\ Return(r)
  /\ Write(<<"assistant", "success_result", "success_result">>)
  /\ Owe(-2)
  /\ UNCHANGED <<pending, used>>

Done(r) ==
  /\ phase[r] = "streaming"
  /\ HasController
  /\ Return(r)
  /\ Write(<<"assistant", "success_result">>)
  /\ Owe(-1)
  /\ UNCHANGED <<pending, used>>

\* Mutant: without 'done' no result is written.
EndsSilently(r) ==
  /\ phase[r] = "streaming"
  /\ Return(r)
  /\ Write(<<>>)
  /\ UNCHANGED <<pending, owed, used>>

\* The stream ends without 'done': a result is written only if the globals
\* still say that something is running.
Ends(r) ==
  /\ phase[r] = "streaming"
  /\ IF running
     THEN /\ Return(r)
          /\ Write(<<"assistant", "success_result">>)
          /\ Owe(-1)
     ELSE /\ phase' = [phase EXCEPT ![r] = "returned"]
          /\ Write(<<>>)
          /\ UNCHANGED <<running, controller, owed>>
  /\ UNCHANGED <<pending, used>>

StreamOver(r) == Done(r) \/ Ends(r) \/ Fails(r)

-----------------------------------------------------------------------------
(***************************************************************************)
(* Properties                                                              *)
(***************************************************************************)
Active == {r \in Runs : phase[r] # "returned"}

\* Without tools, interrupts and resets every run started writes one result.
ResultsBalanced == used = {} => owed = IF running THEN 1 ELSE 0

(***************************************************************************)
(* "Resume the provider call" (line 407): the call that waited goes on,    *)
(* one activation of callProvider at a time ("if (running) return", 178).  *)
(***************************************************************************)
OneRun == Cardinality(Active) <= 1

-----------------------------------------------------------------------------
(* The chat *)

chatVars == <<stdin, alive, chatPhase, messages>>
allVars == <<adapterVars, chatVars>>

Message == [role : {"user", "assistant"}, isPending : BOOLEAN]

ChatTypeOK ==
  /\ TypeOK
  /\ stdin \in Seq(InputMessage)
  /\ alive \in BOOLEAN
  /\ chatPhase \in {"idle", "running", "done", "error"}
  /\ messages \in Seq(Message)

ChatInit ==
  /\ Init
  /\ stdin = <<>>
  /\ alive = TRUE
  /\ chatPhase = "idle"
  /\ messages = <<>>

-----------------------------------------------------------------------------
(* The reducer *)

\* USER_MSG closes an answer under way and adds the message.
WithUserMsg(msgs) ==
  LET n == Len(msgs)
      closed == IF n > 0 /\ msgs[n].role = "assistant"
                THEN [msgs EXCEPT ![n].isPending = FALSE] ELSE msgs
  IN Append(closed, [role |-> "user", isPending |-> FALSE])

\* ensureAssistant
EnsureAssistant(msgs) ==
  IF msgs # <<>> /\ msgs[Len(msgs)].role = "assistant"
  THEN msgs
  ELSE Append(msgs, [role |-> "assistant", isPending |-> TRUE])

\* ASSISTANT_DONE, SET_PHASE: no message is pending any more
AllSettled(msgs) == [i \in 1..Len(msgs) |-> [msgs[i] EXCEPT !.isPending = FALSE]]

\* Mutant: only a success ends the turn.
ParseIgnoresErrors(o) ==
  CASE o \in {"text", "tool_use"} ->
         messages' = EnsureAssistant(messages) /\ UNCHANGED chatPhase
    [] o = "success_result" ->
         messages' = AllSettled(messages) /\ chatPhase' = "done"
    [] OTHER -> UNCHANGED <<messages, chatPhase>>

\* processEvent and the actions it dispatches.  An assistant event closes
\* blocks of a message that is there already.
Parse(o) ==
  CASE o \in {"text", "tool_use"} ->
         messages' = EnsureAssistant(messages) /\ UNCHANGED chatPhase
    [] o = "assistant" -> UNCHANGED <<messages, chatPhase>>
    [] o = "success_result" ->
         messages' = AllSettled(messages) /\ chatPhase' = "done"
    [] o \in {"error", "error_result"} ->
         messages' = AllSettled(messages) /\ chatPhase' = "error"

-----------------------------------------------------------------------------
Sends == Cardinality({i \in 1..Len(messages) : messages[i].role = "user"})

RoomToClick == stdin = <<>> /\ Len(stdout) < MaxOutput

\* stream.write to a process that is gone fails silently.
ToAdapter(m) == stdin' = IF alive THEN Append(stdin, m) ELSE stdin

\* sendMessage
SendMessage ==
  /\ Sends < MaxSends
  /\ messages' = WithUserMsg(messages)
  /\ chatPhase' = "running"
  /\ ToAdapter("user_message")
  /\ UNCHANGED <<adapterVars, alive>>

\* sendToolResult
SendToolResult ==
  /\ RoomToClick
  /\ ToAdapter("tool_result")
  /\ UNCHANGED <<adapterVars, alive, chatPhase, messages>>

\* resetSession, RESET
ResetSession ==
  /\ RoomToClick
  /\ ToAdapter("reset")
  /\ messages' = <<>>
  /\ chatPhase' = "idle"
  /\ UNCHANGED <<adapterVars, alive>>

\* interrupt(): the message for the adapter, and run.stop, whose signal may
\* end the process.
ClickInterrupt ==
  /\ RoomToClick
  /\ messages' = AllSettled(messages)
  /\ chatPhase' = "done"
  /\ ToAdapter("interrupt")
  /\ alive' \in {alive, FALSE}
  /\ UNCHANGED adapterVars

AdapterReads ==
  /\ alive
  /\ stdin # <<>>
  /\ HandleMessage(Head(stdin))
  /\ stdin' = Tail(stdin)
  /\ UNCHANGED <<alive, chatPhase, messages>>

AdapterStreams ==
  /\ alive
  /\ \E r \in Runs :
       \/ Len(stdout) < MaxOutput /\ Delta(r)
       \/ ToolUse(r)
       \/ EventThrows(r)
       \/ StreamOver(r)
  /\ UNCHANGED <<stdin, alive, chatPhase, messages>>

ParserReads ==
  /\ stdout # <<>>
  /\ Parse(Head(stdout))
  /\ stdout' = Tail(stdout)
  /\ UNCHANGED <<running, controller, pending, phase, owed, used, stdin, alive>>

ChatNext ==
  \/ SendMessage
  \/ SendToolResult
  \/ ResetSession
  \/ ClickInterrupt
  \/ AdapterReads
  \/ AdapterStreams
  \/ ParserReads

\* Lines are delivered, and a provider's stream comes to an end.
ChatFairness ==
  /\ WF_allVars(AdapterReads)
  /\ WF_allVars(ParserReads)
  /\ \A r \in Runs : WF_allVars(AdapterStreams /\ StreamOver(r))

ChatSpec == ChatInit /\ [][ChatNext]_allVars /\ ChatFairness

-----------------------------------------------------------------------------
(***************************************************************************)
(* Properties                                                              *)
(***************************************************************************)
Occurs(x, seq) == \E i \in 1..Len(seq) : seq[i] = x

\* While the chat shows 'running' something is under way that will end it.
RunningIsOwed ==
  chatPhase = "running" /\ alive =>
    \/ Occurs("user_message", stdin)
    \/ running
    \/ Occurs("tool_result", stdin) \/ \E r \in Runs : phase[r] = "waiting"
    \/ \E i \in 1..Len(stdout) : IsResult(stdout[i])

\* Every turn ends, if the adapter lives and no tool is asked for.
TurnEnds ==
  chatPhase = "running" ~> chatPhase # "running" \/ ~alive \/ "tool_use" \in used
=============================================================================
