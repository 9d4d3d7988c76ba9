---------------------------- MODULE ProviderStreams ----------------------------
(***************************************************************************)
(* The two model providers of the chat adapter (providers/anthropic.js and *)
(* openai.js): each reads an answer of the network in pieces that end      *)
(* anywhere, cuts it into lines and turns the lines into the events of     *)
(* callProvider().                                                         *)
(*                                                                         *)
(* A line arrives in two halves, so that a piece can end within it.  An    *)
(* answer may be cut short between two events.  The arguments of an OpenAI *)
(* tool call are a text in two parts; only both together are JSON.  Left   *)
(* out: the request, the counts of tokens.                                 *)
(***************************************************************************)
EXTENDS Naturals, Sequences, FiniteSets, SequencesExt

CONSTANT MaxEvents  \* bound: events of an answer

VARIABLES
  answer,     \* the events the model sends
  wire,       \* halves of lines on their way
  buffer,     \* halves read that do not end a line
  eventType,  \* Anthropic: the last "event:" line
  call,       \* OpenAI: currentToolCall
  out,        \* the events handed to callProvider
  ended

streamVars == <<answer, wire, buffer, eventType, call, out, ended>>

AnthropicEvent ==
  {"content_block_start", "content_block_delta"} \X {"text", "thinking", "tool_use"}
    \cup {<<"message_delta", "tool_use">>, <<"message_delta", "end_turn">>, <<"message_stop", "">>}
Calls == 1..2
OpenAIEvent ==
  {"tool", "first", "second"} \X Calls \cup {<<"text", 0>>, <<"tool_calls", 0>>, <<"stop", 0>>}

\* The answers of each service: parts of arguments follow their call in order,
\* and a reason to finish comes last.
Answers(events) == UNION {[1..n -> events] : n \in 0..MaxEvents}
OpenAIAnswer ==
  {a \in Answers(OpenAIEvent) :
     /\ \A i \in DOMAIN a : a[i][1] \in {"tool_calls", "stop"} => i = Len(a)
     /\ \A i, j \in DOMAIN a : a[i] = a[j] /\ a[i][1] # "text" => i = j
     /\ \A i \in DOMAIN a :
          /\ a[i][1] = "first" => \E j \in 1..i - 1 : a[j] = <<"tool", a[i][2]>>
          /\ a[i][1] = "second" => \E j \in 1..i - 1 : a[j] = <<"first", a[i][2]>>}

NoCall == [id |-> 0, args |-> <<>>]

\* Anthropic names the event in a line of its own; the first line of an answer
\* tells the services apart.
Anthropic(a) == \E i \in DOMAIN a : a[i] \in AnthropicEvent
LinesOf(a) ==
  IF Anthropic(a)
  THEN [i \in 1..2 * Len(a) |-> [field |-> IF i % 2 = 1 THEN "event" ELSE "data", of |-> a[(i + 1) \div 2]]]
  ELSE [i \in DOMAIN a |-> [field |-> "data", of |-> a[i]]]
Halves(lines) == [i \in 1..2 * Len(lines) |-> [line |-> (i + 1) \div 2, end |-> i % 2 = 0]]

StreamInit ==
  /\ answer \in Answers(AnthropicEvent) \cup OpenAIAnswer
  /\ wire = Halves(LinesOf(answer)) /\ buffer = <<>> /\ eventType = "" /\ call = NoCall
  /\ out = <<>> /\ ended = FALSE

-----------------------------------------------------------------------------
\* AnthropicProvider._processEvent; the parts of a tool's input are not used.
ProcessEvent(type, what) ==
  CASE type = "content_block_start" /\ what = "text" -> << <<"text_delta">> >>
    [] type = "content_block_start" /\ what = "thinking" -> << <<"thinking_start">> >>
    [] type = "content_block_start" /\ what = "tool_use" -> << <<"tool_use">> >>
    [] type = "content_block_delta" /\ what = "text" -> << <<"text_delta">> >>
    [] type = "content_block_delta" /\ what = "thinking" -> << <<"thinking_delta">> >>
    [] type = "message_stop" -> << <<"done">> >>
    [] type = "message_delta" /\ what = "tool_use" -> << <<"need_tool_result">> >>
    [] OTHER -> <<>>

ProcessLine(s, line) ==
  IF line.field = "event" THEN [s EXCEPT !.type = line.of[1]]
  ELSE [s EXCEPT !.out = @ \o ProcessEvent(s.type, line.of[2])]

\* JSON.parse of the arguments, "{}" when there are none.
Parses(args) ==
  args = <<>> \/ \E c \in Calls : args = << <<"first", c>>, <<"second", c>> >>
ToolUse(s) == IF Parses(s.call.args) THEN << <<"tool_use", s.call.id, s.call.args>> >> ELSE <<>>

\* What a chunk of OpenAI does; a call that begins while another is current
\* takes its place and keeps its arguments.
ProcessChunk(s, line) ==
  LET what == line.of[1] IN
  CASE what = "text" -> [s EXCEPT !.out = Append(@, <<"text_delta">>)]
    [] what = "tool" -> [s EXCEPT !.call.id = line.of[2]]
    [] what \in {"first", "second"} -> [s EXCEPT !.call.args = Append(@, line.of)]
    [] what = "tool_calls" /\ s.call # NoCall ->
         [s EXCEPT !.out = @ \o ToolUse(s), !.call = IF Parses(@.args) THEN NoCall ELSE @]
    [] what = "stop" -> [s EXCEPT !.out = Append(@, <<"done">>)]
    [] OTHER -> s

Process(s, line) == IF Anthropic(answer) THEN ProcessLine(s, line) ELSE ProcessChunk(s, line)

\* A line that lost its first half cannot be parsed and is skipped.
CompleteLines(halves) ==
  LET marked == [i \in DOMAIN halves |->
                  [of |-> halves[i].line,
                   whole |-> i > 1 /\ halves[i].end /\ halves[i - 1].line = halves[i].line]]
      whole == SelectSeq(marked, LAMBDA h : h.whole)
  IN [k \in DOMAIN whole |-> LinesOf(answer)[whole[k].of]]

\* Mutant: what does not end a line is forgotten.
RestForgotten(halves) == <<>>

Rest(halves) == IF halves # <<>> /\ ~Last(halves).end THEN <<Last(halves)>> ELSE <<>>

\* reader.read gives a piece of any length.
Read(n) ==
  LET halves == buffer \o SubSeq(wire, 1, n)
      s == FoldLeft(Process, [type |-> eventType, call |-> call, out |-> out], CompleteLines(halves))
  IN /\ n \in 1..Len(wire) /\ wire' = SubSeq(wire, n + 1, Len(wire))
     /\ buffer' = Rest(halves)
     /\ eventType' = s.type /\ call' = s.call /\ out' = s.out
     /\ UNCHANGED <<answer, ended>>

\* The answer ends: a call that is still current is handed on.
Ends ==
  /\ wire = <<>> /\ ~ended /\ ended' = TRUE
  /\ out' = IF call # NoCall THEN out \o ToolUse([call |-> call]) ELSE out
  /\ UNCHANGED <<answer, wire, buffer, eventType, call>>

StreamNext == Ends \/ \E n \in 1..4 * MaxEvents : Read(n)

-----------------------------------------------------------------------------
Texts(s) == SelectSeq(s, LAMBDA e : e = <<"text_delta">>)
Begun == {c \in Calls : \E i \in DOMAIN answer : answer[i] = <<"tool", c>>}
HandedOn == SelectSeq(out, LAMBDA e : e[1] = "tool_use")

\* However an answer is cut into pieces (anthropic.js:84, openai.js:99), every
\* event of it has its effect once and in order; the one tool call of an answer
\* of OpenAI is handed on once, with all its arguments or not at all.
PiecesDoNotMatter ==
  ended =>
    IF Anthropic(answer)
    THEN out = FlattenSeq([i \in DOMAIN answer |-> ProcessEvent(answer[i][1], answer[i][2])])
    ELSE /\ Len(Texts(out)) = Cardinality({i \in DOMAIN answer : answer[i][1] = "text"})
         /\ (<<"done">> \in Range(out)) <=> (answer # <<>> /\ Last(answer)[1] = "stop")
         /\ Cardinality(Begun) = 1 =>
              LET c == CHOOSE c \in Begun : TRUE
                  sent == SelectSeq(answer, LAMBDA e : e[1] \in {"first", "second"})
              IN HandedOn = IF Parses(sent) THEN << <<"tool_use", c, sent>> >> ELSE <<>>
=============================================================================
