----------------------------- MODULE ConsoleProofs -----------------------------
(***************************************************************************)
(* Proofs about the parts of the console a user works with (MCConsole),    *)
(* for every number of tabs, runs, chats, directories and requests.  Each  *)
(* invariant holds whatever the subject, since the others stay as they are *)
(* initially.                                                              *)
(***************************************************************************)
EXTENDS MCConsole, FiniteSets, SequenceTheorems, FiniteSetTheorems, TLAPS

-----------------------------------------------------------------------------
(* The input of the chat views *)

ChatTypes ==
  /\ input \in [text : 0..MaxTexts, kind : Chat!Kinds]
  /\ activeRun \in Chats \cup {NoChat}
  /\ chat \in [Chats -> {"idle", "running", "done", "error"}]
  /\ turns \in [Chats -> SUBSET Chat!Texts]
  /\ wire \in [Chats -> Seq(Chat!Lines)]
  /\ heard \in [Chats -> SUBSET Chat!Texts]
  /\ typed \in 0..MaxTexts
  /\ writes \in [Chat!Texts -> Nat]

\* What is in the input is what was typed last, and was not written yet.
TypedLast ==
  /\ input.text # 0 => input.text = typed
  /\ \A n \in Chat!Texts : writes[n] # 0 => writes[n] = 1 /\ n <= typed /\ n # input.text

\* A line on its way to an adapter: what was written past the chat is no turn.
LineTrue(line) ==
  /\ line.kind = "interrupt" => line.text = 0
  /\ line.kind = "message" => line.text # 0
  /\ line.kind = "raw" => raw # {} /\ \A c \in Chats : line.text \notin turns[c]
  /\ line.text # 0 => line.text <= typed /\ line.text # input.text
LinesTrue == \A c \in Chats : \A i \in 1..Len(wire[c]) : LineTrue(wire[c][i])

TurnsTyped == \A c \in Chats : \A n \in turns[c] : n <= typed /\ n # input.text
TurnsSent ==
  \A c \in Chats : turns[c] \subseteq heard[c] \cup Chat!InFlight(c) \cup lost \cup garbled
RawIsKnown == partial # {} \/ garbled # {} => raw # {}

\* The message a chat waits for is on its way, not merely something.
LastOnItsWay(c) ==
  \E i \in 1..Len(wire[c]) : wire[c][i].kind = "message" /\ wire[c][i].text \in Chat!LastTurn(c)
LastOwed ==
  \A c \in Chats : chat[c] = "running" =>
    /\ Chat!LastTurn(c) # {}
    /\ c \in working \/ LastOnItsWay(c) \/ Chat!LastTurn(c) \cap lost # {}

ChatInv ==
  /\ ChatTypes /\ Chat!NeverJams /\ TypedLast /\ LinesTrue
  /\ TurnsTyped /\ TurnsSent /\ RawIsKnown /\ LastOwed

LEMMA ChatInitial == Chat!ChatInputInit => ChatInv
<1> SUFFICES ASSUME Chat!ChatInputInit
             PROVE  ChatInv
  OBVIOUS
<1> USE ConsoleBounds
<1>1. /\ input = [text |-> 0, kind |-> "plain"] /\ submitting = FALSE
      /\ activeRun \in Chats \cup {NoChat}
      /\ chat = [c \in Chats |-> "idle"] /\ turns = [c \in Chats |-> {}]
      /\ wire = [c \in Chats |-> <<>>] /\ partial = {} /\ heard = [c \in Chats |-> {}]
      /\ typed = 0 /\ writes = [n \in Chat!Texts |-> 0] /\ garbled = {}
  BY DEF Chat!ChatInputInit, Chat!Nothing
<1>2. ChatTypes
  BY <1>1 DEF ChatTypes, Chat!Kinds
<1>3. TypedLast
  BY <1>1 DEF TypedLast
<1>4. LinesTrue /\ TurnsTyped /\ TurnsSent /\ RawIsKnown /\ LastOwed /\ Chat!NeverJams
  BY <1>1 DEF LinesTrue, TurnsTyped, TurnsSent, RawIsKnown, LastOwed, Chat!NeverJams
<1> QED
  BY <1>2, <1>3, <1>4 DEF ChatInv

\* The runs, and what is on its way to them, stay as they are.
ChatRests == UNCHANGED <<activeRun, chat, turns, wire, partial, heard, working, garbled, writes, raw, lost>>

LEMMA LinesTyped ==
  ASSUME ChatTypes, NEW c \in Chats, NEW i \in 1..Len(wire[c])
  PROVE  wire[c][i] \in Chat!Lines
<1>1. wire[c] \in Seq(Chat!Lines)
  BY DEF ChatTypes
<1> QED
  BY <1>1

LEMMA RestsKeep ==
  ASSUME UNCHANGED <<turns, wire>>
  PROVE  \A c \in Chats : /\ Chat!InFlight(c)' = Chat!InFlight(c)
                          /\ Chat!LastTurn(c)' = Chat!LastTurn(c)
                          /\ LastOnItsWay(c)' <=> LastOnItsWay(c)
<1> TAKE c \in Chats
<1>1. Chat!InFlight(c)' = Chat!InFlight(c)
  BY DEF Chat!InFlight
<1>2. Chat!LastTurn(c)' = Chat!LastTurn(c)
  BY DEF Chat!LastTurn
<1>3. LastOnItsWay(c)' <=> LastOnItsWay(c)
  BY <1>2 DEF LastOnItsWay
<1> QED
  BY <1>1, <1>2, <1>3

\* What the user does to the input alone: it is emptied, kept, or a text of its own.
InputMoves ==
  /\ input' \in [text : 0..MaxTexts, kind : Chat!Kinds] /\ typed' \in 0..MaxTexts
  /\ \/ input'.text = 0 /\ typed' = typed
     \/ input'.text = input.text /\ typed' = typed
     \/ input'.text = typed' /\ typed' = typed + 1

LEMMA InputMovesTyped ==
  ASSUME ChatTypes, TypedLast, InputMoves
  PROVE  /\ input'.text # 0 => input'.text = typed'
         /\ \A n \in 1..MaxTexts : n <= typed /\ n # input.text => n <= typed' /\ n # input'.text
  BY ConsoleBounds DEF ChatTypes, TypedLast, InputMoves

LEMMA FreshMoves ==
  ASSUME ChatTypes, NEW k \in Chat!Kinds, Chat!Fresh(k)
  PROVE  InputMoves
BY ConsoleBounds DEF ChatTypes, Chat!Fresh, InputMoves

LEMMA AppendedMoves ==
  ASSUME ChatTypes, Chat!Appended
  PROVE  InputMoves
<1>1. "plain" \in Chat!Kinds
  BY DEF Chat!Kinds
<1>2. CASE input.text = 0
  BY <1>1, <1>2, FreshMoves DEF Chat!Appended
<1>3. CASE input.text # 0
  BY <1>1, <1>3 DEF Chat!Appended, ChatTypes, InputMoves
<1> QED
  BY <1>2, <1>3

LEMMA EmptiedMoves ==
  ASSUME ChatTypes, input' = Chat!Nothing \/ input' = input, typed' = typed
  PROVE  InputMoves
<1>1. Chat!Nothing \in [text : 0..MaxTexts, kind : Chat!Kinds] /\ Chat!Nothing.text = 0
  BY ConsoleBounds DEF Chat!Nothing, Chat!Kinds
<1> QED
  BY <1>1 DEF ChatTypes, InputMoves

LEMMA TypingStays ==
  ASSUME ChatInv, InputMoves, ChatRests, Chat!NeverJams'
  PROVE  ChatInv'
<1> ChatTypes /\ TypedLast /\ LinesTrue /\ TurnsTyped /\ TurnsSent /\ RawIsKnown /\ LastOwed
  BY DEF ChatInv
<1>1. UNCHANGED <<activeRun, chat, turns, wire, partial, heard, working, garbled, writes, raw, lost>>
  BY DEF ChatRests
<1>2. /\ input'.text # 0 => input'.text = typed'
      /\ \A n \in 1..MaxTexts : n <= typed /\ n # input.text => n <= typed' /\ n # input'.text
  BY InputMovesTyped
<1>3. ChatTypes'
  BY <1>1 DEF ChatTypes, InputMoves
<1>4. TypedLast'
  BY <1>1, <1>2 DEF TypedLast, Chat!Texts
<1>5. LinesTrue'
  <2> SUFFICES ASSUME NEW c \in Chats, NEW i \in 1..Len(wire[c])
               PROVE  LineTrue(wire[c][i])'
    BY <1>1 DEF LinesTrue
  <2>1. PICK line \in Chat!Lines : line = wire[c][i]
    BY LinesTyped
  <2>2. wire'[c][i] = line
    BY <1>1, <2>1
  <2>3. LineTrue(line)
    BY <2>1 DEF LinesTrue
  <2>4. line.text # 0 => line.text \in 1..MaxTexts
    BY ConsoleBounds DEF Chat!Lines
  <2>5. LineTrue(line)'
    BY <1>1, <1>2, <2>3, <2>4 DEF LineTrue
  <2> QED
    BY <2>2, <2>5 DEF LineTrue
<1>6. TurnsTyped'
  BY <1>1, <1>2 DEF TurnsTyped, ChatTypes, Chat!Texts
<1>7. TurnsSent' /\ LastOwed'
  BY <1>1, RestsKeep DEF TurnsSent, LastOwed
<1>8. RawIsKnown'
  BY <1>1 DEF RawIsKnown
<1> QED
  BY <1>3, <1>4, <1>5, <1>6, <1>7, <1>8 DEF ChatInv

LEMMA TypeStays ==
  ASSUME ChatInv, NEW c \in Chats, NEW k \in {"plain", "rewind", "query"},
         Chat!Type(c, k) \/ Chat!CommandClick(c, k)
  PROVE  ChatInv'
<1>1. ChatTypes /\ Chat!NeverJams /\ k \in Chat!Kinds
  BY DEF ChatInv, Chat!Kinds
<1>2. Chat!Fresh(k) /\ ChatRests /\ UNCHANGED <<phase, submitting>>
  BY DEF Chat!Type, Chat!CommandClick, Chat!NotWritten, Chat!RestKept, Chat!adapterVars, ChatRests
<1>3. Chat!NeverJams'
  BY <1>1, <1>2 DEF Chat!NeverJams
<1> QED
  BY <1>1, <1>2, <1>3, FreshMoves, TypingStays

LEMMA AppendStays ==
  ASSUME ChatInv, Chat!SendFile \/ \E c \in Chats : Chat!SuggestionClick(c)
  PROVE  ChatInv'
<1>1. ChatTypes /\ Chat!NeverJams
  BY DEF ChatInv
<1>2. Chat!Appended /\ ChatRests /\ UNCHANGED <<phase, submitting>>
  BY DEF Chat!SendFile, Chat!SuggestionClick, Chat!NotWritten, Chat!RestKept, Chat!adapterVars, ChatRests
<1>3. Chat!NeverJams'
  BY <1>1, <1>2 DEF Chat!NeverJams
<1> QED
  BY <1>1, <1>2, <1>3, AppendedMoves, TypingStays

LEMMA NewSessionStays ==
  ASSUME ChatInv, Chat!NewSession
  PROVE  ChatInv'
<1>1. ChatTypes
  BY DEF ChatInv
<1>2. UNCHANGED <<input, typed>> /\ ChatRests /\ submitting' = FALSE
  BY DEF Chat!NewSession, Chat!PageIdle, Chat!NotWritten, Chat!RestKept, Chat!adapterVars, ChatRests
<1>3. Chat!NeverJams' /\ InputMoves
  BY <1>1, <1>2, EmptiedMoves DEF Chat!NeverJams
<1> QED
  BY <1>2, <1>3, TypingStays

\* What a step may do to the lines on their way: each line there is was there,
\* or is a new one that is true.
LinesFollow ==
  /\ wire' \in [Chats -> Seq(Chat!Lines)]
  /\ \A c \in Chats : \A i \in 1..Len(wire'[c]) :
       \/ LineTrue(wire[c][i])'
       \/ \E j \in 1..Len(wire[c]) : wire'[c][i] = wire[c][j]

\* A line stays true while its text is no new turn and not in the input.
LEMMA LinesStay ==
  ASSUME ChatInv, InputMoves, LinesFollow, raw \subseteq raw',
         \A c \in Chats : \A n \in turns'[c] : n \in turns[c] \/ (n # 0 /\ n = input.text)
  PROVE  LinesTrue'
<1> ChatTypes /\ TypedLast /\ LinesTrue /\ TurnsTyped
  BY DEF ChatInv
<1>1. /\ input'.text # 0 => input'.text = typed'
      /\ \A n \in 1..MaxTexts : n <= typed /\ n # input.text => n <= typed' /\ n # input'.text
  BY InputMovesTyped
<1> SUFFICES ASSUME NEW c \in Chats, NEW i \in 1..Len(wire'[c])
             PROVE  LineTrue(wire[c][i])'
  BY DEF LinesTrue
<1>2. CASE \E j \in 1..Len(wire[c]) : wire'[c][i] = wire[c][j]
  <2>1. PICK j \in 1..Len(wire[c]) : wire'[c][i] = wire[c][j]
    BY <1>2
  <2>2. PICK line \in Chat!Lines : line = wire[c][j]
    BY <2>1, LinesTyped
  <2>3. LineTrue(line)
    BY <2>1, <2>2 DEF LinesTrue
  <2>4. line.text # 0 => line.text \in 1..MaxTexts
    BY ConsoleBounds DEF Chat!Lines
  <2>5. line.text # 0 => line.text <= typed' /\ line.text # input'.text
    BY <1>1, <2>3, <2>4 DEF LineTrue
  <2>6. line.kind = "raw" => raw' # {} /\ \A d \in Chats : line.text \notin turns'[d]
    <3> SUFFICES ASSUME line.kind = "raw", NEW d \in Chats
                 PROVE  raw' # {} /\ line.text \notin turns'[d]
      OBVIOUS
    <3>1. raw # {} /\ line.text \notin turns[d]
      BY <2>3 DEF LineTrue
    <3>2. line.text # 0 => line.text # input.text
      BY <2>3 DEF LineTrue
    <3>3. raw' # {}
      BY <3>1
    <3> QED
      BY <3>1, <3>2, <3>3
  <2>7. LineTrue(line)'
    BY <2>3, <2>5, <2>6 DEF LineTrue
  <2> QED
    BY <2>1, <2>2, <2>7 DEF LineTrue
<1>3. CASE LineTrue(wire[c][i])'
  BY <1>3
<1> QED
  BY <1>2, <1>3 DEF LinesFollow

\* No line is taken from what is on its way.
LinesKept ==
  \A c \in Chats : \A i \in 1..Len(wire[c]) : i \in 1..Len(wire'[c]) /\ wire'[c][i] = wire[c][i]

LEMMA UpdateTyped ==
  ASSUME NEW D, NEW S, NEW f \in [D -> S], NEW d \in D, NEW v \in S
  PROVE  [f EXCEPT ![d] = v] \in [D -> S]
OBVIOUS

LEMMA WrittenIs ==
  ASSUME ChatTypes, NEW c \in Chats, NEW k \in {"message", "interrupt", "raw"}, NEW n \in 0..MaxTexts,
         Chat!Written(c, k, n),
         NEW line, line = [kind |-> k, text |-> n]
  PROVE  /\ wire' \in [Chats -> Seq(Chat!Lines)] /\ lost \subseteq lost' /\ LinesKept
         /\ \A d \in Chats : \A i \in 1..Len(wire'[d]) :
              \/ \E j \in 1..Len(wire[d]) : wire'[d][i] = wire[d][j]
              \/ up /\ wire'[d][i] = line
         /\ n # 0 => n \in lost' \/ \E i \in 1..Len(wire'[c]) : wire'[c][i] = line
         /\ writes' = IF n = 0 THEN writes ELSE [writes EXCEPT ![n] = @ + 1]
<1>1. line \in Chat!Lines
  BY DEF Chat!Lines
<1>2. /\ writes' = IF n = 0 THEN writes ELSE [writes EXCEPT ![n] = @ + 1]
      /\ lost \subseteq lost'
  BY DEF Chat!Written
<1>3. CASE up /\ c \notin gone
  <2>1. wire' = [wire EXCEPT ![c] = Append(@, line)]
    BY <1>3 DEF Chat!Written
  <2>2. /\ wire[c] \in Seq(Chat!Lines) /\ wire'[c] = Append(wire[c], line)
        /\ \A d \in Chats : d # c => wire'[d] = wire[d]
    BY <2>1 DEF ChatTypes
  <2>3. /\ Len(wire[c]) \in Nat /\ Len(wire'[c]) = Len(wire[c]) + 1
        /\ \A i \in 1..Len(wire[c]) : wire'[c][i] = wire[c][i]
        /\ wire'[c][Len(wire[c]) + 1] = line
    BY <1>1, <2>2
  <2>4. wire' \in [Chats -> Seq(Chat!Lines)]
    <3>1. Append(wire[c], line) \in Seq(Chat!Lines)
      BY <1>1, <2>2
    <3>2. wire' = [wire EXCEPT ![c] = Append(wire[c], line)]
      BY <2>1
    <3> QED
      BY <3>1, <3>2, UpdateTyped DEF ChatTypes
  <2>5. LinesKept
    BY <2>2, <2>3 DEF LinesKept
  <2>6. ASSUME NEW d \in Chats, NEW i \in 1..Len(wire'[d])
        PROVE  \/ \E j \in 1..Len(wire[d]) : wire'[d][i] = wire[d][j]
               \/ up /\ wire'[d][i] = line
    <3>1. CASE d # c
      BY <2>2, <3>1
    <3>2. CASE d = c
      <4>1. i \in 1..Len(wire[c]) \/ i = Len(wire[c]) + 1
        BY <2>3, <3>2
      <4> QED
        BY <1>3, <2>3, <3>2, <4>1
    <3> QED
      BY <3>1, <3>2
  <2>7. \E i \in 1..Len(wire'[c]) : wire'[c][i] = line
    BY <2>3
  <2> QED
    BY <1>2, <2>4, <2>5, <2>6, <2>7
<1>4. CASE ~(up /\ c \notin gone)
  <2>1. wire' = wire /\ (n # 0 => n \in lost')
    BY <1>4 DEF Chat!Written
  <2>2. LinesKept
    BY <2>1 DEF LinesKept
  <2>3. \A d \in Chats : \A i \in 1..Len(wire'[d]) : \E j \in 1..Len(wire[d]) : wire'[d][i] = wire[d][j]
    BY <2>1
  <2> QED
    BY <1>2, <2>1, <2>2, <2>3 DEF ChatTypes
<1> QED
  BY <1>3, <1>4

LEMMA KeptInFlight ==
  ASSUME ChatTypes, LinesKept, NEW c \in Chats
  PROVE  /\ Chat!InFlight(c) \subseteq Chat!InFlight(c)'
         /\ turns'[c] = turns[c] => Chat!LastTurn(c)' = Chat!LastTurn(c)
         /\ turns'[c] = turns[c] /\ LastOnItsWay(c) => LastOnItsWay(c)'
<1>1. Chat!InFlight(c) \subseteq Chat!InFlight(c)'
  <2> SUFFICES ASSUME NEW n \in Chat!InFlight(c)
               PROVE  n \in Chat!InFlight(c)'
    OBVIOUS
  <2>1. PICK i \in DOMAIN wire[c] : n = wire[c][i].text
    BY DEF Chat!InFlight
  <2>2. DOMAIN wire[c] = 1..Len(wire[c])
    BY DEF ChatTypes
  <2>3. i \in 1..Len(wire'[c]) /\ wire'[c][i] = wire[c][i]
    BY <2>1, <2>2 DEF LinesKept
  <2>4. i \in DOMAIN wire'[c] /\ n = wire'[c][i].text /\ n # 0
    <3>1. n # 0
      BY DEF Chat!InFlight
    <3> QED
      BY <2>1, <2>3, <3>1
  <2> QED
    BY <2>4 DEF Chat!InFlight
<1>2. turns'[c] = turns[c] => Chat!LastTurn(c)' = Chat!LastTurn(c)
  BY DEF Chat!LastTurn
<1>3. turns'[c] = turns[c] /\ LastOnItsWay(c) => LastOnItsWay(c)'
  BY <1>2 DEF LastOnItsWay, LinesKept
<1> QED
  BY <1>1, <1>2, <1>3

\* A text is counted as written when it leaves the input.
LEMMA WritesCount ==
  ASSUME ChatTypes, TypedLast, InputMoves, NEW n \in 0..MaxTexts,
         n # 0 => n = input.text /\ input'.text = 0,
         writes' = IF n = 0 THEN writes ELSE [writes EXCEPT ![n] = @ + 1]
  PROVE  TypedLast' /\ writes' \in [Chat!Texts -> Nat]
<1> USE ConsoleBounds
<1>1. /\ input'.text # 0 => input'.text = typed'
      /\ \A m \in 1..MaxTexts : m <= typed /\ m # input.text => m <= typed' /\ m # input'.text
  BY InputMovesTyped
<1>2. CASE n = 0
  BY <1>1, <1>2 DEF TypedLast, ChatTypes, Chat!Texts
<1>3. CASE n # 0
  <2>1. n \in Chat!Texts /\ n = input.text /\ n = typed /\ writes[n] = 0 /\ input'.text = 0
    BY <1>3 DEF Chat!Texts, TypedLast, ChatTypes
  <2>2. /\ writes' \in [Chat!Texts -> Nat] /\ writes'[n] = 1
        /\ \A m \in Chat!Texts : m # n => writes'[m] = writes[m]
    BY <1>3, <2>1 DEF ChatTypes
  <2>3. n <= typed'
    BY <2>1 DEF InputMoves, ChatTypes
  <2>4. ASSUME NEW m \in Chat!Texts, writes'[m] # 0
        PROVE  writes'[m] = 1 /\ m <= typed' /\ m # input'.text
    <3>1. CASE m = n
      BY <1>3, <2>1, <2>2, <2>3, <3>1
    <3>2. CASE m # n
      <4>1. writes[m] = 1 /\ m <= typed /\ m # input.text
        BY <2>2, <2>4, <3>2 DEF TypedLast
      <4> QED
        BY <1>1, <2>2, <3>2, <4>1 DEF Chat!Texts
    <3> QED
      BY <3>1, <3>2
  <2> QED
    BY <1>1, <2>2, <2>4 DEF TypedLast
<1> QED
  BY <1>2, <1>3

\* Something is written to a run, and the chats show nothing new.
LEMMA WriteStays ==
  ASSUME ChatInv, InputMoves, Chat!NeverJams', raw \subseteq raw',
         NEW c \in Chats, NEW k \in {"interrupt", "raw"}, NEW n \in 0..MaxTexts, Chat!Written(c, k, n),
         n # 0 => n = input.text /\ input'.text = 0,
         k = "interrupt" => n = 0,
         k = "raw" /\ up => raw' # {},
         UNCHANGED <<activeRun, turns, partial, heard, working, garbled>>,
         chat' \in [Chats -> {"idle", "running", "done", "error"}],
         \A d \in Chats : chat'[d] = "running" => chat[d] = "running"
  PROVE  ChatInv'
<1> ChatTypes /\ TypedLast /\ LinesTrue /\ TurnsTyped /\ TurnsSent /\ RawIsKnown /\ LastOwed
  BY DEF ChatInv
<1>1. PICK line : line = [kind |-> k, text |-> n]
  OBVIOUS
<1>2. /\ wire' \in [Chats -> Seq(Chat!Lines)] /\ lost \subseteq lost' /\ LinesKept
      /\ \A d \in Chats : \A i \in 1..Len(wire'[d]) :
           \/ \E j \in 1..Len(wire[d]) : wire'[d][i] = wire[d][j]
           \/ up /\ wire'[d][i] = line
      /\ writes' = IF n = 0 THEN writes ELSE [writes EXCEPT ![n] = @ + 1]
  BY <1>1, WrittenIs
<1>3. TypedLast' /\ writes' \in [Chat!Texts -> Nat]
  BY <1>2, WritesCount
<1>4. ChatTypes'
  BY <1>2, <1>3 DEF ChatTypes, InputMoves
<1>5. up => LineTrue(line)'
  <2>1. n # 0 => n = typed /\ typed' = typed /\ input'.text # n
    BY ConsoleBounds DEF TypedLast, InputMoves, ChatTypes
  <2>2. \A d \in Chats : n \notin turns[d]
    BY ConsoleBounds DEF TurnsTyped, ChatTypes, Chat!Texts
  <2>3. n # 0 => n <= typed'
    BY <2>1, ConsoleBounds
  <2> QED
    BY <1>1, <2>1, <2>2, <2>3 DEF LineTrue
<1>6. LinesFollow
  <2> SUFFICES ASSUME NEW d \in Chats, NEW i \in 1..Len(wire'[d])
               PROVE  \/ LineTrue(wire[d][i])'
                      \/ \E j \in 1..Len(wire[d]) : wire'[d][i] = wire[d][j]
    BY <1>2 DEF LinesFollow
  <2>1. CASE up /\ wire'[d][i] = line
    BY <1>5, <2>1 DEF LineTrue
  <2> QED
    BY <1>2, <2>1
<1>7. \A d \in Chats : \A m \in turns'[d] : m \in turns[d] \/ (m # 0 /\ m = input.text)
  OBVIOUS
<1>8. LinesTrue'
  BY <1>6, <1>7, LinesStay
<1>9. /\ input'.text # 0 => input'.text = typed'
      /\ \A m \in 1..MaxTexts : m <= typed /\ m # input.text => m <= typed' /\ m # input'.text
  BY InputMovesTyped
<1>10. TurnsTyped'
  BY <1>9 DEF TurnsTyped, ChatTypes, Chat!Texts
<1>11. TurnsSent'
  <2> SUFFICES ASSUME NEW d \in Chats
               PROVE  turns[d] \subseteq heard[d] \cup Chat!InFlight(d)' \cup lost' \cup garbled
    BY DEF TurnsSent
  <2>1. turns[d] \subseteq heard[d] \cup Chat!InFlight(d) \cup lost \cup garbled
    BY DEF TurnsSent
  <2>2. Chat!InFlight(d) \subseteq Chat!InFlight(d)'
    BY <1>2, KeptInFlight
  <2> QED
    BY <1>2, <2>1, <2>2
<1>12. RawIsKnown'
  BY DEF RawIsKnown
<1>13. LastOwed'
  <2> SUFFICES ASSUME NEW d \in Chats, chat'[d] = "running"
               PROVE  /\ Chat!LastTurn(d)' # {}
                      /\ d \in working \/ LastOnItsWay(d)' \/ Chat!LastTurn(d)' \cap lost' # {}
    BY DEF LastOwed
  <2>1. /\ Chat!LastTurn(d) # {}
        /\ d \in working \/ LastOnItsWay(d) \/ Chat!LastTurn(d) \cap lost # {}
    BY DEF LastOwed
  <2>2. Chat!LastTurn(d)' = Chat!LastTurn(d) /\ (LastOnItsWay(d) => LastOnItsWay(d)')
    BY <1>2, KeptInFlight
  <2> QED
    BY <1>2, <2>1, <2>2
<1> QED
  BY <1>3, <1>4, <1>8, <1>10, <1>11, <1>12, <1>13 DEF ChatInv

\* What was typed goes to the active run, or to nobody.
LEMMA SendInputStays ==
  ASSUME ChatInv, InputMoves, Chat!NeverJams', NEW n \in 0..MaxTexts, Chat!SendInput(n), up,
         n # 0 => n = input.text /\ input'.text = 0,
         UNCHANGED <<activeRun, chat, turns, partial, heard, working, garbled>>
  PROVE  ChatInv'
<1> ChatTypes /\ TypedLast /\ LinesTrue /\ TurnsTyped /\ TurnsSent /\ RawIsKnown /\ LastOwed
  BY DEF ChatInv
<1>1. CASE activeRun = NoChat
  <2>1. /\ UNCHANGED <<wire, lost, raw>>
        /\ writes' = IF n = 0 THEN writes ELSE [writes EXCEPT ![n] = @ + 1]
    BY <1>1 DEF Chat!SendInput
  <2>2. TypedLast' /\ writes' \in [Chat!Texts -> Nat]
    BY <2>1, WritesCount
  <2>3. ChatTypes'
    BY <2>1, <2>2 DEF ChatTypes, InputMoves
  <2>4. LinesTrue'
    <3>1. LinesFollow
      BY <2>1 DEF LinesFollow, ChatTypes
    <3>2. raw \subseteq raw'
      BY <2>1
    <3>3. \A d \in Chats : \A m \in turns'[d] : m \in turns[d] \/ (m # 0 /\ m = input.text)
      OBVIOUS
    <3> QED
      BY <3>1, <3>2, <3>3, LinesStay
  <2>5. TurnsTyped'
    BY InputMovesTyped DEF TurnsTyped, ChatTypes, Chat!Texts
  <2>6. TurnsSent' /\ LastOwed'
    BY <2>1, RestsKeep DEF TurnsSent, LastOwed
  <2>7. RawIsKnown'
    BY <2>1 DEF RawIsKnown
  <2> QED
    BY <2>2, <2>3, <2>4, <2>5, <2>6, <2>7 DEF ChatInv
<1>2. CASE activeRun # NoChat
  <2>1. PICK c \in Chats : c = activeRun
    BY <1>2 DEF ChatTypes
  <2>2. Chat!Written(c, "raw", n) /\ raw' = raw \cup {c}
    BY <1>2, <2>1 DEF Chat!SendInput
  <2>3. raw \subseteq raw' /\ raw' # {}
    BY <2>2
  <2>4. /\ chat' \in [Chats -> {"idle", "running", "done", "error"}]
        /\ \A d \in Chats : chat'[d] = "running" => chat[d] = "running"
    BY DEF ChatTypes
  <2> QED
    BY <2>2, <2>3, <2>4, WriteStays
<1> QED
  BY <1>1, <1>2

LEMMA EnterStays ==
  ASSUME ChatInv, NEW c \in Chats, Chat!Enter(c)
  PROVE  ChatInv'
<1> ChatTypes /\ Chat!NeverJams
  BY DEF ChatInv
<1>1. UNCHANGED <<activeRun, up, chat, turns, partial, heard, working, garbled>>
  BY DEF Chat!Enter, Chat!adapterVars
<1>2. CASE suggest
  <2>1. Chat!Appended /\ UNCHANGED <<phase, submitting>> /\ ChatRests
    BY <1>1, <1>2 DEF Chat!Enter, Chat!NotWritten, ChatRests
  <2>2. Chat!NeverJams'
    BY <2>1 DEF Chat!NeverJams
  <2> QED
    BY <2>1, <2>2, AppendedMoves, TypingStays
<1>3. CASE ~suggest
  <2>1. Chat!Submit /\ typed' = typed
    BY <1>3 DEF Chat!Enter
  <2> DEFINE refused == input.text = 0 \/ phase = "running" \/ submitting \/ ~up
  <2>2. CASE refused
    <3>1. UNCHANGED <<input, phase, submitting>> /\ ChatRests
      BY <1>1, <2>1, <2>2 DEF Chat!Submit, Chat!NotWritten, ChatRests
    <3>2. Chat!NeverJams'
      BY <3>1 DEF Chat!NeverJams
    <3> QED
      BY <2>1, <3>1, <3>2, EmptiedMoves, TypingStays
  <2>3. CASE ~refused /\ input.kind = "rewind"
    <3>1. UNCHANGED <<phase, submitting>> /\ ChatRests /\ input' = Chat!Nothing
      BY <1>1, <2>1, <2>3 DEF Chat!Submit, Chat!NotWritten, ChatRests
    <3>2. Chat!NeverJams'
      BY <3>1 DEF Chat!NeverJams
    <3> QED
      BY <2>1, <3>1, <3>2, EmptiedMoves, TypingStays
  <2>4. CASE ~refused /\ input.kind # "rewind"
    <3>1. /\ input' = Chat!Nothing /\ phase' = "running" /\ Chat!SendInput(input.text) /\ up
      BY <2>1, <2>4 DEF Chat!Submit
    <3>2. Chat!NeverJams' /\ input'.text = 0
      BY <3>1 DEF Chat!NeverJams, Chat!Nothing
    <3>3. InputMoves
      BY <2>1, <3>1, EmptiedMoves
    <3>4. PICK n \in 0..MaxTexts : n = input.text
      BY DEF ChatTypes
    <3>5. Chat!SendInput(n)
      BY <3>1, <3>4
    <3> QED
      BY <1>1, <3>1, <3>2, <3>3, <3>4, <3>5, SendInputStays
  <2> QED
    BY <2>2, <2>3, <2>4
<1> QED
  BY <1>2, <1>3

LEMMA CompactStays ==
  ASSUME ChatInv, Chat!Compact
  PROVE  ChatInv'
<1> ChatTypes /\ Chat!NeverJams
  BY DEF ChatInv
<1>1. UNCHANGED <<activeRun, up, chat, turns, partial, heard, working, garbled, input, phase, submitting, typed>>
  BY DEF Chat!Compact, Chat!RestKept, Chat!adapterVars, Chat!pageVars
<1>2. InputMoves /\ Chat!NeverJams'
  BY <1>1, EmptiedMoves DEF Chat!NeverJams
<1>3. CASE up
  <2>1. Chat!SendInput(0) /\ 0 \in 0..MaxTexts
    BY <1>3, ConsoleBounds DEF Chat!Compact
  <2> QED
    BY <1>1, <1>2, <1>3, <2>1, SendInputStays
<1>4. CASE ~up
  <2>1. ChatRests
    BY <1>1, <1>4 DEF Chat!Compact, Chat!NotWritten, ChatRests
  <2> QED
    BY <1>2, <2>1, TypingStays
<1> QED
  BY <1>3, <1>4

LEMMA StopChatStays ==
  ASSUME ChatInv, NEW c \in Chats, Chat!StopChat(c)
  PROVE  ChatInv'
<1> ChatTypes /\ Chat!NeverJams
  BY DEF ChatInv
<1>1. /\ UNCHANGED <<activeRun, up, turns, partial, heard, working, garbled, input, phase, submitting, typed, raw>>
      /\ chat' = [chat EXCEPT ![c] = "done"]
  BY DEF Chat!StopChat, Chat!pageVars
<1>2. InputMoves /\ Chat!NeverJams'
  BY <1>1, EmptiedMoves DEF Chat!NeverJams
<1>3. /\ chat' \in [Chats -> {"idle", "running", "done", "error"}]
      /\ \A d \in Chats : chat'[d] = "running" => chat[d] = "running"
  BY <1>1 DEF ChatTypes
<1>4. CASE up
  <2>1. Chat!Written(c, "interrupt", 0) /\ 0 \in 0..MaxTexts
    BY <1>4, ConsoleBounds DEF Chat!StopChat
  <2>2. raw \subseteq raw'
    BY <1>1
  <2> QED
    BY <1>1, <1>2, <1>3, <2>1, <2>2, WriteStays
<1>5. CASE ~up
  <2>1. UNCHANGED <<wire, lost, writes>>
    BY <1>5 DEF Chat!StopChat, Chat!NotWritten
  <2>2. ChatTypes'
    BY <1>1, <1>3, <2>1 DEF ChatTypes
  <2>3. TypedLast' /\ RawIsKnown' /\ TurnsTyped'
    BY <1>1, <2>1 DEF ChatInv, TypedLast, RawIsKnown, TurnsTyped
  <2>4. LinesTrue'
    BY <1>1, <2>1 DEF ChatInv, LinesTrue, LineTrue
  <2>5. TurnsSent' /\ LastOwed'
    BY <1>1, <1>3, <2>1, RestsKeep DEF ChatInv, TurnsSent, LastOwed
  <2> QED
    BY <1>2, <2>2, <2>3, <2>4, <2>5 DEF ChatInv
<1> QED
  BY <1>4, <1>5

\* Another run becomes active; the page gives up; the link is back.
LEMMA PageStays ==
  ASSUME ChatInv, Chat!StopPage \/ Chat!LinkBack \/ \E c \in Chats \cup {NoChat} : Chat!Activate(c)
  PROVE  ChatInv'
<1> ChatTypes /\ TypedLast /\ LinesTrue /\ TurnsTyped /\ TurnsSent /\ RawIsKnown /\ LastOwed
  BY DEF ChatInv
<1>1. /\ UNCHANGED <<input, typed, chat, turns, wire, partial, heard, working, garbled, writes, raw, lost>>
      /\ UNCHANGED <<phase, submitting>> \/ submitting' = FALSE
      /\ activeRun' \in Chats \cup {NoChat}
  BY DEF Chat!StopPage, Chat!LinkBack, Chat!Activate, Chat!NotWritten, Chat!PageIdle, Chat!pageVars,
         Chat!adapterVars, ChatTypes
<1>2. ChatTypes'
  BY <1>1 DEF ChatTypes
<1>3. Chat!NeverJams' /\ TypedLast' /\ RawIsKnown' /\ TurnsTyped'
  BY <1>1 DEF ChatInv, Chat!NeverJams, TypedLast, RawIsKnown, TurnsTyped
<1>4. LinesTrue'
  BY <1>1 DEF LinesTrue, LineTrue
<1>5. TurnsSent' /\ LastOwed'
  BY <1>1, RestsKeep DEF TurnsSent, LastOwed
<1> QED
  BY <1>2, <1>3, <1>4, <1>5 DEF ChatInv

\* What was typed becomes the last turn of a chat, and it goes to its adapter.
LEMMA SendMessageStays ==
  ASSUME ChatInv, NEW c \in Chats, Chat!Press(c), up
  PROVE  ChatInv'
<1> ChatTypes /\ Chat!NeverJams /\ TypedLast /\ LinesTrue /\ TurnsTyped /\ TurnsSent /\ RawIsKnown /\ LastOwed
  BY DEF ChatInv
<1>1. /\ UNCHANGED <<activeRun, phase, submitting, partial, heard, working, garbled, typed, raw>>
      /\ input.text # 0 /\ input' = Chat!Nothing /\ Chat!SendMessage(c, input.text)
  BY DEF Chat!Press, Chat!adapterVars
<1>2. PICK n \in 0..MaxTexts : n = input.text
  BY DEF ChatTypes
<1>3. /\ turns' = [turns EXCEPT ![c] = @ \cup {n}] /\ chat' = [chat EXCEPT ![c] = "running"]
      /\ Chat!Written(c, "message", n)
  BY <1>1, <1>2 DEF Chat!SendMessage
<1>4. n # 0 /\ n = typed /\ n \in Chat!Texts /\ input'.text = 0 /\ InputMoves
  BY <1>1, <1>2, EmptiedMoves, ConsoleBounds DEF TypedLast, Chat!Nothing, Chat!Texts
<1>5. PICK line : line = [kind |-> "message", text |-> n]
  OBVIOUS
<1>6. /\ wire' \in [Chats -> Seq(Chat!Lines)] /\ lost \subseteq lost' /\ LinesKept
      /\ \A d \in Chats : \A i \in 1..Len(wire'[d]) :
           \/ \E j \in 1..Len(wire[d]) : wire'[d][i] = wire[d][j]
           \/ up /\ wire'[d][i] = line
      /\ n # 0 => n \in lost' \/ \E i \in 1..Len(wire'[c]) : wire'[c][i] = line
      /\ writes' = IF n = 0 THEN writes ELSE [writes EXCEPT ![n] = @ + 1]
  BY <1>3, <1>5, WrittenIs
<1>7. TypedLast' /\ writes' \in [Chat!Texts -> Nat]
  <2>1. n # 0 => n = input.text /\ input'.text = 0
    BY <1>2, <1>4
  <2> QED
    BY <1>4, <1>6, <2>1, WritesCount
<1>8. /\ turns' \in [Chats -> SUBSET Chat!Texts] /\ turns'[c] = turns[c] \cup {n}
      /\ \A d \in Chats : d # c => turns'[d] = turns[d]
      /\ chat' \in [Chats -> {"idle", "running", "done", "error"}]
      /\ \A d \in Chats : d # c => chat'[d] = chat[d]
  BY <1>3, <1>4 DEF ChatTypes
<1>9. ChatTypes'
  BY <1>1, <1>4, <1>6, <1>7, <1>8 DEF ChatTypes, InputMoves
<1>10. Chat!NeverJams' /\ RawIsKnown'
  BY <1>1 DEF Chat!NeverJams, RawIsKnown
<1>11. LinesTrue'
  <2>1. LineTrue(line)'
    BY <1>1, <1>4, <1>5 DEF LineTrue, ChatTypes
  <2>2. LinesFollow
    <3> SUFFICES ASSUME NEW d \in Chats, NEW i \in 1..Len(wire'[d])
                 PROVE  \/ LineTrue(wire[d][i])'
                        \/ \E j \in 1..Len(wire[d]) : wire'[d][i] = wire[d][j]
      BY <1>6 DEF LinesFollow
    <3>1. CASE wire'[d][i] = line
      BY <2>1, <3>1 DEF LineTrue
    <3> QED
      BY <1>6, <3>1
  <2>3. \A d \in Chats : \A m \in turns'[d] : m \in turns[d] \/ (m # 0 /\ m = input.text)
    BY <1>2, <1>4, <1>8
  <2>4. raw \subseteq raw'
    BY <1>1
  <2> QED
    BY <1>4, <2>2, <2>3, <2>4, LinesStay
<1>12. TurnsTyped'
  <2> SUFFICES ASSUME NEW d \in Chats, NEW m \in turns'[d]
               PROVE  m <= typed' /\ m # input'.text
    BY DEF TurnsTyped
  <2>1. m \in turns[d] \/ m = n
    BY <1>8
  <2>2. m \in Chat!Texts
    BY <1>8
  <2>3. n <= typed /\ (m \in turns[d] => m <= typed)
    BY <1>4, ConsoleBounds DEF TurnsTyped, ChatTypes, Chat!Texts
  <2> QED
    BY <1>1, <1>4, <2>1, <2>2, <2>3 DEF Chat!Texts
<1>13. n \in lost' \/ \E i \in 1..Len(wire'[c]) : wire'[c][i].kind = "message" /\ wire'[c][i].text = n
  BY <1>4, <1>5, <1>6
<1>14. TurnsSent'
  <2> SUFFICES ASSUME NEW d \in Chats
               PROVE  turns'[d] \subseteq heard[d] \cup Chat!InFlight(d)' \cup lost' \cup garbled
    BY <1>1 DEF TurnsSent
  <2>1. turns[d] \subseteq heard[d] \cup Chat!InFlight(d) \cup lost \cup garbled
    BY DEF TurnsSent
  <2>2. Chat!InFlight(d) \subseteq Chat!InFlight(d)'
    BY <1>6, KeptInFlight
  <2>3. n \in lost' \/ n \in Chat!InFlight(c)'
    <3>1. DOMAIN wire'[c] = 1..Len(wire'[c])
      BY <1>6
    <3> QED
      BY <1>4, <1>13, <3>1 DEF Chat!InFlight
  <2> QED
    BY <1>6, <1>8, <2>1, <2>2, <2>3
<1>15. LastOwed'
  <2> SUFFICES ASSUME NEW d \in Chats, chat'[d] = "running"
               PROVE  /\ Chat!LastTurn(d)' # {}
                      /\ d \in working \/ LastOnItsWay(d)' \/ Chat!LastTurn(d)' \cap lost' # {}
    BY <1>1 DEF LastOwed
  <2>1. CASE d # c
    <3>1. /\ Chat!LastTurn(d) # {}
          /\ d \in working \/ LastOnItsWay(d) \/ Chat!LastTurn(d) \cap lost # {}
      BY <1>8, <2>1 DEF LastOwed
    <3>2. Chat!LastTurn(d)' = Chat!LastTurn(d) /\ (LastOnItsWay(d) => LastOnItsWay(d)')
      BY <1>6, <1>8, <2>1, KeptInFlight
    <3> QED
      BY <1>6, <3>1, <3>2
  <2>2. CASE d = c
    <3>1. n \in Chat!LastTurn(c)'
      BY <1>4, <1>8 DEF TurnsTyped, ChatTypes, Chat!LastTurn
    <3>2. n \in lost' \/ LastOnItsWay(c)'
      BY <1>13, <3>1 DEF LastOnItsWay
    <3> QED
      BY <2>2, <3>1, <3>2
  <2> QED
    BY <2>1, <2>2
<1> QED
  BY <1>7, <1>9, <1>10, <1>11, <1>12, <1>14, <1>15 DEF ChatInv

\* What is lost with the link or the run: nothing of it is forgotten.
LEMMA LossStays ==
  ASSUME ChatInv, InputMoves, Chat!NeverJams',
         UNCHANGED <<activeRun, turns, partial, heard, garbled, writes, raw>>,
         wire' \in [Chats -> Seq(Chat!Lines)], lost \subseteq lost',
         chat' \in [Chats -> {"idle", "running", "done", "error"}],
         \A d \in Chats :
           /\ wire'[d] = wire[d] \/ (wire'[d] = <<>> /\ Chat!InFlight(d) \subseteq lost')
           /\ chat'[d] = "running" => chat[d] = "running"
           /\ chat'[d] = "running" /\ d \in working =>
                d \in working' \/ Chat!LastTurn(d) \subseteq lost'
  PROVE  ChatInv'
<1> ChatTypes /\ TypedLast /\ LinesTrue /\ TurnsTyped /\ TurnsSent /\ RawIsKnown /\ LastOwed
  BY DEF ChatInv
<1>1. /\ input'.text # 0 => input'.text = typed'
      /\ \A m \in 1..MaxTexts : m <= typed /\ m # input.text => m <= typed' /\ m # input'.text
  BY InputMovesTyped
<1>2. ChatTypes'
  BY DEF ChatTypes, InputMoves
<1>3. TypedLast' /\ TurnsTyped' /\ RawIsKnown'
  BY <1>1 DEF TypedLast, TurnsTyped, RawIsKnown, ChatTypes, Chat!Texts
<1>4. LinesTrue'
  <2>1. LinesFollow
    <3> SUFFICES ASSUME NEW d \in Chats, NEW i \in 1..Len(wire'[d])
                 PROVE  \E j \in 1..Len(wire[d]) : wire'[d][i] = wire[d][j]
      BY DEF LinesFollow
    <3>1. wire'[d] # <<>>
      OBVIOUS
    <3> QED
      BY <3>1
  <2>2. \A d \in Chats : \A m \in turns'[d] : m \in turns[d] \/ (m # 0 /\ m = input.text)
    OBVIOUS
  <2>3. raw \subseteq raw'
    OBVIOUS
  <2> QED
    BY <2>1, <2>2, <2>3, LinesStay
<1>5. \A d \in Chats :
        /\ Chat!InFlight(d) \subseteq Chat!InFlight(d)' \cup lost'
        /\ Chat!LastTurn(d)' = Chat!LastTurn(d)
        /\ LastOnItsWay(d) => LastOnItsWay(d)' \/ Chat!LastTurn(d) \cap lost' # {}
  <2> TAKE d \in Chats
  <2>1. Chat!LastTurn(d)' = Chat!LastTurn(d)
    BY DEF Chat!LastTurn
  <2>2. CASE wire'[d] = wire[d]
    <3>1. Chat!InFlight(d)' = Chat!InFlight(d)
      BY <2>2 DEF Chat!InFlight
    <3>2. LastOnItsWay(d) => LastOnItsWay(d)'
      BY <2>1, <2>2 DEF LastOnItsWay
    <3> QED
      BY <2>1, <3>1, <3>2
  <2>3. CASE Chat!InFlight(d) \subseteq lost'
    <3> SUFFICES ASSUME LastOnItsWay(d)
                 PROVE  Chat!LastTurn(d) \cap lost' # {}
      BY <2>1, <2>3
    <3>1. PICK i \in 1..Len(wire[d]) : wire[d][i].kind = "message" /\ wire[d][i].text \in Chat!LastTurn(d)
      BY DEF LastOnItsWay
    <3>2. DOMAIN wire[d] = 1..Len(wire[d]) /\ 0 \notin Chat!LastTurn(d)
      BY DEF ChatTypes, Chat!LastTurn, Chat!Texts
    <3>3. wire[d][i].text \in Chat!InFlight(d)
      BY <3>1, <3>2 DEF Chat!InFlight
    <3> QED
      BY <2>3, <3>1, <3>3
  <2> QED
    BY <2>2, <2>3
<1>6. TurnsSent'
  BY <1>5 DEF TurnsSent
<1>7. LastOwed'
  <2> SUFFICES ASSUME NEW d \in Chats, chat'[d] = "running"
               PROVE  /\ Chat!LastTurn(d)' # {}
                      /\ d \in working' \/ LastOnItsWay(d)' \/ Chat!LastTurn(d)' \cap lost' # {}
    BY DEF LastOwed
  <2>1. /\ Chat!LastTurn(d) # {}
        /\ d \in working \/ LastOnItsWay(d) \/ Chat!LastTurn(d) \cap lost # {}
    BY DEF LastOwed
  <2> QED
    BY <1>5, <2>1
<1> QED
  BY <1>2, <1>3, <1>4, <1>6, <1>7 DEF ChatInv

LEMMA PressStays ==
  ASSUME ChatInv, NEW c \in Chats, Chat!Press(c)
  PROVE  ChatInv'
<1> ChatTypes /\ Chat!NeverJams
  BY DEF ChatInv
<1>1. CASE up
  BY <1>1, SendMessageStays
<1>2. CASE ~up
  <2>1. /\ UNCHANGED <<activeRun, phase, submitting, partial, heard, working, garbled, typed, raw>>
        /\ UNCHANGED <<wire, writes, turns, chat>>
        /\ input' = Chat!Nothing /\ lost' = lost \cup {input.text}
    BY <1>2 DEF Chat!Press, Chat!adapterVars
  <2>2. InputMoves /\ Chat!NeverJams'
    BY <2>1, EmptiedMoves DEF Chat!NeverJams
  <2>3. /\ wire' \in [Chats -> Seq(Chat!Lines)] /\ lost \subseteq lost'
        /\ chat' \in [Chats -> {"idle", "running", "done", "error"}]
    BY <2>1 DEF ChatTypes
  <2>4. \A d \in Chats :
          /\ wire'[d] = wire[d] \/ (wire'[d] = <<>> /\ Chat!InFlight(d) \subseteq lost')
          /\ chat'[d] = "running" => chat[d] = "running"
          /\ chat'[d] = "running" /\ d \in working =>
               d \in working' \/ Chat!LastTurn(d) \subseteq lost'
    BY <2>1
  <2> QED
    BY <2>1, <2>2, <2>3, <2>4, LossStays
<1> QED
  BY <1>1, <1>2

LEMMA LinkLostStays ==
  ASSUME ChatInv, Chat!LinkLost
  PROVE  ChatInv'
<1> ChatTypes /\ Chat!NeverJams
  BY DEF ChatInv
<1>1. /\ UNCHANGED <<input, activeRun, phase, submitting, chat, turns, partial, heard, working, garbled, typed,
                     writes, raw>>
      /\ wire' = [c \in Chats |-> <<>>]
      /\ lost' = lost \cup UNION {Chat!InFlight(c) : c \in Chats}
  BY DEF Chat!LinkLost, Chat!pageVars, Chat!adapterVars
<1>2. InputMoves /\ Chat!NeverJams'
  BY <1>1, EmptiedMoves DEF Chat!NeverJams
<1>3. /\ wire' \in [Chats -> Seq(Chat!Lines)] /\ lost \subseteq lost'
      /\ chat' \in [Chats -> {"idle", "running", "done", "error"}]
  BY <1>1 DEF ChatTypes
<1>4. \A d \in Chats :
        /\ wire'[d] = wire[d] \/ (wire'[d] = <<>> /\ Chat!InFlight(d) \subseteq lost')
        /\ chat'[d] = "running" => chat[d] = "running"
        /\ chat'[d] = "running" /\ d \in working =>
             d \in working' \/ Chat!LastTurn(d) \subseteq lost'
  BY <1>1
<1> QED
  BY <1>1, <1>2, <1>3, <1>4, LossStays

LEMMA RunEndedStays ==
  ASSUME ChatInv, NEW c \in Chats, Chat!RunEnded(c)
  PROVE  ChatInv'
<1> ChatTypes /\ Chat!NeverJams
  BY DEF ChatInv
<1>1. /\ UNCHANGED <<input, activeRun, phase, submitting, chat, turns, partial, heard, garbled, typed,
                     writes, raw>>
      /\ wire' = [wire EXCEPT ![c] = <<>>] /\ working' = working \ {c}
      /\ lost' = lost \cup Chat!InFlight(c) \cup Chat!LastTurn(c)
  BY DEF Chat!RunEnded, Chat!pageVars
<1>2. InputMoves /\ Chat!NeverJams'
  BY <1>1, EmptiedMoves DEF Chat!NeverJams
<1>3. /\ wire' \in [Chats -> Seq(Chat!Lines)] /\ lost \subseteq lost'
      /\ chat' \in [Chats -> {"idle", "running", "done", "error"}]
  <2>1. <<>> \in Seq(Chat!Lines)
    OBVIOUS
  <2>2. wire' \in [Chats -> Seq(Chat!Lines)]
    BY <1>1, <2>1, UpdateTyped DEF ChatTypes
  <2> QED
    BY <1>1, <2>2 DEF ChatTypes
<1>4. \A d \in Chats :
        /\ wire'[d] = wire[d] \/ (wire'[d] = <<>> /\ Chat!InFlight(d) \subseteq lost')
        /\ chat'[d] = "running" => chat[d] = "running"
        /\ chat'[d] = "running" /\ d \in working =>
             d \in working' \/ Chat!LastTurn(d) \subseteq lost'
  BY <1>1 DEF ChatTypes
<1> QED
  BY <1>1, <1>2, <1>3, <1>4, LossStays

LEMMA AnswerStays ==
  ASSUME ChatInv, NEW c \in Chats, NEW as \in {"done", "error"}, Chat!Answer(c, as)
  PROVE  ChatInv'
<1> ChatTypes /\ Chat!NeverJams
  BY DEF ChatInv
<1>1. /\ UNCHANGED <<input, activeRun, phase, submitting, turns, wire, partial, heard, garbled, typed,
                     writes, raw>>
      /\ working' = working \ {c}
      /\ \/ chat' = [d \in Chats |-> as] /\ lost' = lost
         \/ chat' = chat /\ lost' = lost \cup Chat!LastTurn(c)
  BY DEF Chat!Answer, Chat!pageVars
<1>2. InputMoves /\ Chat!NeverJams'
  BY <1>1, EmptiedMoves DEF Chat!NeverJams
<1>3. /\ wire' \in [Chats -> Seq(Chat!Lines)] /\ lost \subseteq lost'
      /\ chat' \in [Chats -> {"idle", "running", "done", "error"}]
  BY <1>1 DEF ChatTypes
<1>4. \A d \in Chats :
        /\ wire'[d] = wire[d] \/ (wire'[d] = <<>> /\ Chat!InFlight(d) \subseteq lost')
        /\ chat'[d] = "running" => chat[d] = "running"
        /\ chat'[d] = "running" /\ d \in working =>
             d \in working' \/ Chat!LastTurn(d) \subseteq lost'
  BY <1>1
<1> QED
  BY <1>1, <1>2, <1>3, <1>4, LossStays

\* An adapter takes the first line: a text leaves what is on its way only to be
\* heard or found garbled, unless it was no turn of the chat.
LEMMA ReceiveStays ==
  ASSUME ChatInv, NEW c \in Chats, Chat!Receive(c)
  PROVE  ChatInv'
<1> ChatTypes /\ Chat!NeverJams /\ TypedLast /\ LinesTrue /\ TurnsTyped /\ TurnsSent /\ RawIsKnown /\ LastOwed
  BY DEF ChatInv
<1>1. /\ UNCHANGED <<input, activeRun, phase, submitting, turns, typed, writes, raw, lost>>
      /\ wire[c] # <<>> /\ wire' = [wire EXCEPT ![c] = Tail(@)]
  BY DEF Chat!Receive, Chat!pageVars
<1>2. /\ wire[c] \in Seq(Chat!Lines) /\ wire'[c] = Tail(wire[c])
      /\ \A d \in Chats : d # c => wire'[d] = wire[d]
      /\ Tail(wire[c]) \in Seq(Chat!Lines)
  BY <1>1 DEF ChatTypes
<1>3. PICK line \in Chat!Lines : line = Head(wire[c])
  BY <1>1, <1>2
<1>4. /\ Len(wire[c]) \in Nat /\ Len(wire[c]) >= 1 /\ Len(wire'[c]) = Len(wire[c]) - 1
      /\ \A i \in 1..Len(wire'[c]) : wire'[c][i] = wire[c][i + 1]
      /\ wire[c][1] = line
  <2>1. PICK s \in Seq(Chat!Lines) : s = wire[c]
    BY <1>2
  <2>2. /\ Len(s) \in Nat /\ Len(s) >= 1 /\ Len(Tail(s)) = Len(s) - 1
        /\ \A i \in 1..Len(Tail(s)) : Tail(s)[i] = s[i + 1]
        /\ Head(s) = s[1]
    BY <1>1, <2>1
  <2> QED
    BY <1>2, <1>3, <2>1, <2>2
<1>5. LineTrue(line)
  <2>1. 1 \in 1..Len(wire[c]) /\ wire[c][1] = line
    BY <1>4
  <2> QED
    BY <2>1 DEF LinesTrue
<1>6. wire' \in [Chats -> Seq(Chat!Lines)]
  <2>1. wire' = [wire EXCEPT ![c] = Tail(wire[c])]
    BY <1>1
  <2> QED
    BY <1>2, <2>1, UpdateTyped DEF ChatTypes
<1>7. InputMoves /\ Chat!NeverJams'
  BY <1>1, EmptiedMoves DEF Chat!NeverJams
<1>8. LinesTrue'
  <2>1. ASSUME NEW d \in Chats, NEW i \in 1..Len(wire'[d])
        PROVE  \E j \in 1..Len(wire[d]) : wire'[d][i] = wire[d][j]
    <3>1. CASE d = c
      <4>1. i + 1 \in 1..Len(wire[c]) /\ wire'[c][i] = wire[c][i + 1]
        BY <1>4, <3>1
      <4> QED
        BY <3>1, <4>1
    <3>2. CASE d # c
      BY <1>2, <3>2
    <3> QED
      BY <3>1, <3>2
  <2>2. LinesFollow
    BY <1>6, <2>1 DEF LinesFollow
  <2>3. \A d \in Chats : \A m \in turns'[d] : m \in turns[d] \/ (m # 0 /\ m = input.text)
    BY <1>1
  <2>4. raw \subseteq raw'
    BY <1>1
  <2> QED
    BY <1>7, <2>2, <2>3, <2>4, LinesStay
<1>9. \A d \in Chats :
        /\ Chat!InFlight(d) \subseteq Chat!InFlight(d)' \cup {n \in {line.text} : d = c}
        /\ Chat!LastTurn(d)' = Chat!LastTurn(d)
        /\ LastOnItsWay(d) => LastOnItsWay(d)' \/ (d = c /\ line.kind = "message")
  <2> TAKE d \in Chats
  <2>1. Chat!LastTurn(d)' = Chat!LastTurn(d)
    BY <1>1 DEF Chat!LastTurn
  <2>2. CASE d # c
    <3>1. Chat!InFlight(d)' = Chat!InFlight(d)
      BY <1>2, <2>2 DEF Chat!InFlight
    <3>2. LastOnItsWay(d) => LastOnItsWay(d)'
      BY <1>2, <2>1, <2>2 DEF LastOnItsWay
    <3> QED
      BY <2>1, <3>1, <3>2
  <2>3. CASE d = c
    <3>1. ASSUME NEW i \in 1..Len(wire[c])
          PROVE  wire[c][i] = line \/ \E j \in 1..Len(wire'[c]) : wire'[c][j] = wire[c][i]
      <4>1. i = 1 \/ (i - 1 \in 1..Len(wire'[c]) /\ wire'[c][i - 1] = wire[c][i])
        BY <1>4
      <4> QED
        BY <1>4, <4>1
    <3>2. DOMAIN wire[c] = 1..Len(wire[c]) /\ DOMAIN wire'[c] = 1..Len(wire'[c])
      BY <1>2
    <3>3. Chat!InFlight(c) \subseteq Chat!InFlight(c)' \cup {line.text}
      <4> SUFFICES ASSUME NEW n \in Chat!InFlight(c), n # line.text
                   PROVE  n \in Chat!InFlight(c)'
        OBVIOUS
      <4>1. n # 0 /\ \E i \in 1..Len(wire[c]) : wire[c][i].text = n
        BY <3>2 DEF Chat!InFlight
      <4>2. PICK i \in 1..Len(wire[c]) : wire[c][i].text = n
        BY <4>1
      <4>3. PICK j \in 1..Len(wire'[c]) : wire'[c][j] = wire[c][i]
        BY <3>1, <4>2
      <4>4. j \in DOMAIN wire'[c] /\ wire'[c][j].text = n
        BY <3>2, <4>2, <4>3
      <4> QED
        BY <4>1, <4>4 DEF Chat!InFlight
    <3>4. LastOnItsWay(c) => LastOnItsWay(c)' \/ line.kind = "message"
      BY <2>1, <2>3, <3>1 DEF LastOnItsWay
    <3> QED
      BY <2>1, <2>3, <3>3, <3>4
  <2> QED
    BY <2>2, <2>3
<1>10. TypedLast' /\ TurnsTyped'
  BY <1>1 DEF TypedLast, TurnsTyped
<1>11. CASE line.kind = "raw"
  <2>1. partial' = partial \cup {c} /\ UNCHANGED <<heard, working, garbled, chat>>
    BY <1>3, <1>11 DEF Chat!Receive
  <2>2. raw # {} /\ \A d \in Chats : line.text \notin turns[d]
    BY <1>5, <1>11 DEF LineTrue
  <2>3. ChatTypes' /\ RawIsKnown'
    BY <1>1, <1>6, <2>1, <2>2 DEF ChatTypes, RawIsKnown
  <2>4. TurnsSent'
    BY <1>1, <1>9, <2>1, <2>2 DEF TurnsSent
  <2>5. LastOwed'
    BY <1>1, <1>9, <1>11, <2>1 DEF LastOwed
  <2> QED
    BY <1>7, <1>8, <1>10, <2>3, <2>4, <2>5 DEF ChatInv
<1>12. CASE line.kind # "raw" /\ c \in partial
  <2>1. /\ partial' = partial \ {c} /\ garbled' = garbled \cup ({line.text} \ {0})
        /\ chat' = [d \in Chats |-> "error"] /\ UNCHANGED <<heard, working>>
    BY <1>3, <1>12 DEF Chat!Receive
  <2>2. ChatTypes' /\ RawIsKnown'
    BY <1>1, <1>6, <1>12, <2>1 DEF ChatTypes, RawIsKnown
  <2>3. TurnsSent'
    <3>1. \A d \in Chats : 0 \notin turns[d]
      BY DEF ChatTypes, Chat!Texts
    <3> QED
      BY <1>1, <1>9, <2>1, <3>1 DEF TurnsSent
  <2>4. LastOwed'
    BY <2>1 DEF LastOwed
  <2> QED
    BY <1>7, <1>8, <1>10, <2>2, <2>3, <2>4 DEF ChatInv
<1>13. CASE line.kind = "message" /\ c \notin partial
  <2>1. /\ heard' = [heard EXCEPT ![c] = @ \cup {line.text}] /\ working' = working \cup {c}
        /\ UNCHANGED <<partial, garbled, chat>>
    BY <1>3, <1>13 DEF Chat!Receive
  <2>2. line.text \in Chat!Texts /\ heard' \in [Chats -> SUBSET Chat!Texts]
    <3>1. line.text \in Chat!Texts
      BY <1>5, <1>13 DEF LineTrue, Chat!Lines, Chat!Texts
    <3> QED
      BY <2>1, <3>1 DEF ChatTypes
  <2>3. ChatTypes' /\ RawIsKnown'
    BY <1>1, <1>6, <2>1, <2>2 DEF ChatTypes, RawIsKnown
  <2>4. TurnsSent'
    <3>1. line.text \in heard'[c] /\ \A d \in Chats : heard[d] \subseteq heard'[d]
      BY <2>1 DEF ChatTypes
    <3> QED
      BY <1>1, <1>9, <2>1, <3>1 DEF TurnsSent
  <2>5. LastOwed'
    BY <1>1, <1>9, <2>1 DEF LastOwed
  <2> QED
    BY <1>7, <1>8, <1>10, <2>3, <2>4, <2>5 DEF ChatInv
<1>14. CASE line.kind = "interrupt" /\ c \notin partial
  <2>1. /\ working' = working \ {c} /\ chat' = [d \in Chats |-> "done"]
        /\ UNCHANGED <<partial, heard, garbled>>
    BY <1>3, <1>14 DEF Chat!Receive
  <2>2. ChatTypes' /\ RawIsKnown'
    BY <1>1, <1>6, <2>1 DEF ChatTypes, RawIsKnown
  <2>3. TurnsSent'
    <3>1. line.text = 0 /\ \A d \in Chats : 0 \notin turns[d]
      BY <1>5, <1>14 DEF LineTrue, ChatTypes, Chat!Texts
    <3> QED
      BY <1>1, <1>9, <2>1, <3>1 DEF TurnsSent
  <2>4. LastOwed'
    BY <2>1 DEF LastOwed
  <2> QED
    BY <1>7, <1>8, <1>10, <2>2, <2>3, <2>4 DEF ChatInv
<1> QED
  BY <1>3, <1>11, <1>12, <1>13, <1>14 DEF Chat!Lines

LEMMA ChatStays ==
  ASSUME ChatInv, Chat!ChatInputNext
  PROVE  ChatInv'
BY TypeStays, AppendStays, NewSessionStays, EnterStays, CompactStays, StopChatStays, PageStays, PressStays,
   LinkLostStays, RunEndedStays, AnswerStays, ReceiveStays
   DEF Chat!ChatInputNext

LEMMA ChatUnchanged == ChatInv /\ UNCHANGED chatVars => ChatInv'
<1> SUFFICES ASSUME ChatInv, UNCHANGED chatVars
             PROVE  ChatInv'
  OBVIOUS
<1> ChatTypes /\ Chat!NeverJams
  BY DEF ChatInv
<1>1. ChatRests /\ UNCHANGED <<input, typed, phase, submitting>>
  BY DEF chatVars, ChatRests
<1>2. InputMoves /\ Chat!NeverJams'
  BY <1>1, EmptiedMoves DEF Chat!NeverJams
<1> QED
  BY <1>1, <1>2, TypingStays

LEMMA ChatIsKept == ChatInv => Chat!ChatInputKept
<1> SUFFICES ASSUME ChatInv
             PROVE  Chat!NeverJams /\ Chat!WrittenOnce /\ Chat!ShownIsSent /\ Chat!WaitIsOwed
  BY DEF Chat!ChatInputKept
<1>1. Chat!NeverJams
  BY DEF ChatInv
<1>2. Chat!WrittenOnce
  <2> SUFFICES ASSUME NEW n \in Chat!Texts
               PROVE  writes[n] <= 1
    BY DEF Chat!WrittenOnce
  <2>1. writes[n] = 0 \/ writes[n] = 1
    BY DEF ChatInv, ChatTypes, TypedLast
  <2> QED
    BY <2>1
<1>3. Chat!ShownIsSent
  BY DEF ChatInv, TurnsSent, RawIsKnown, Chat!ShownIsSent
<1>4. Chat!WaitIsOwed
  <2> SUFFICES ASSUME NEW c \in Chats, LastOnItsWay(c)
               PROVE  Chat!InFlight(c) # {}
    BY DEF ChatInv, LastOwed, Chat!WaitIsOwed
  <2>1. PICK i \in 1..Len(wire[c]) : wire[c][i].text \in Chat!LastTurn(c)
    BY DEF LastOnItsWay
  <2>2. DOMAIN wire[c] = 1..Len(wire[c]) /\ 0 \notin Chat!LastTurn(c)
    BY DEF ChatInv, ChatTypes, Chat!LastTurn, Chat!Texts
  <2> QED
    BY <2>1, <2>2 DEF Chat!InFlight
<1> QED
  BY <1>1, <1>2, <1>3, <1>4

-----------------------------------------------------------------------------
(* The approval center *)

CenterTypes ==
  /\ waiting \in [Asked -> {"unasked", "pending", "resolved"}]
  /\ told \in Seq([type : {"request", "result"}, of : Asked])
  /\ lists \in Seq([made : BOOLEAN, found : SUBSET Asked])
  /\ approvals \subseteq Asked

ToldOf(t, r) == \E i \in 1..Len(told) : told[i] = [type |-> t, of |-> r]
Found(r) == \E i \in 1..Len(lists) : r \in lists[i].found

\* What the page was told of, found or shows was asked; a result comes after it.
KnownWasAsked ==
  \A r \in Asked :
    /\ r \in approvals \/ ToldOf("request", r) \/ Found(r) => waiting[r] # "unasked"
    /\ ToldOf("result", r) => waiting[r] = "resolved"
RequestsFirst ==
  \A r \in Asked : \A i, j \in 1..Len(told) :
    told[i] = [type |-> "request", of |-> r] /\ told[j] = [type |-> "result", of |-> r] => i < j

\* A request that waits is shown, or an event or a list will show it.
WaitingIsComing ==
  coreLinked /\ ~unlisted =>
    \A r \in Center!Pending :
      r \in approvals \/ ToldOf("request", r) \/ \E i \in 1..Len(lists) : ~lists[i].made \/ r \in lists[i].found

\* One that is resolved is no more found, and its result is still to come if it
\* is shown.
ResolvedIsComing ==
  \A r \in Asked \ unaware : waiting[r] = "resolved" =>
    /\ ~Found(r)
    /\ ToldOf("result", r) \/ (r \notin approvals /\ ~ToldOf("request", r))

TakenIsResolved == \A c \in respond : c.made => waiting[c.of] = "resolved"

CenterInv ==
  /\ CenterTypes /\ KnownWasAsked /\ RequestsFirst /\ WaitingIsComing /\ ResolvedIsComing
  /\ TakenIsResolved /\ Center!ActingIsInFlight

LEMMA SeqIsTyped ==
  ASSUME NEW S, NEW s \in Seq(S)
  PROVE  DOMAIN s = 1..Len(s) /\ Len(s) \in Nat /\ \A i \in 1..Len(s) : s[i] \in S
OBVIOUS

LEMMA HeadIsTyped ==
  ASSUME NEW S, NEW s \in Seq(S), s # <<>>
  PROVE  /\ Head(s) \in S /\ Head(s) = s[1] /\ Tail(s) \in Seq(S)
         /\ Len(s) \in Nat /\ Len(s) >= 1 /\ Len(Tail(s)) = Len(s) - 1
         /\ \A i \in 1..Len(Tail(s)) : Tail(s)[i] = s[i + 1]
OBVIOUS

\* The lists in flight, each by its index.
LEMMA ListIsTyped ==
  ASSUME CenterTypes
  PROVE  /\ DOMAIN lists = 1..Len(lists) /\ Len(lists) \in Nat
         /\ \A i \in 1..Len(lists) : lists[i] \in [made : BOOLEAN, found : SUBSET Asked]
<1> lists \in Seq([made : BOOLEAN, found : SUBSET Asked])
  BY DEF CenterTypes
<1> QED
  BY SeqIsTyped

LEMMA CenterInitial == Center!ApprovalsInit => CenterInv
<1> SUFFICES ASSUME Center!ApprovalsInit
             PROVE  CenterInv
  OBVIOUS
<1>1. /\ waiting = [r \in Asked |-> "unasked"] /\ told = <<>>
      /\ lists = <<[made |-> FALSE, found |-> {}]>>
      /\ approvals = {} /\ acting = NoRequest /\ respond = {}
  BY DEF Center!ApprovalsInit, Center!NewList
<1>2. CenterTypes
  BY <1>1 DEF CenterTypes
<1>3. /\ Len(lists) = 1 /\ lists[1].found = {} /\ Len(told) = 0
      /\ \A r \in Asked : waiting[r] = "unasked"
  BY <1>1
<1>4. \A r \in Asked : ~Found(r) /\ ~ToldOf("request", r) /\ ~ToldOf("result", r)
  BY <1>3 DEF Found, ToldOf
<1>5. KnownWasAsked /\ RequestsFirst /\ WaitingIsComing /\ ResolvedIsComing
  BY <1>1, <1>3, <1>4 DEF KnownWasAsked, RequestsFirst, WaitingIsComing, ResolvedIsComing, Center!Pending
<1>6. TakenIsResolved /\ Center!ActingIsInFlight
  BY <1>1 DEF TakenIsResolved, Center!ActingIsInFlight
<1> QED
  BY <1>2, <1>5, <1>6 DEF CenterInv

LEMMA SameIsTold ==
  ASSUME told' = told, NEW r, NEW t
  PROVE  ToldOf(t, r)' <=> ToldOf(t, r)
BY DEF ToldOf

LEMMA SameIsFound ==
  ASSUME lists' = lists, NEW r
  PROVE  Found(r)' <=> Found(r)
BY DEF Found

\* An event is told, if the link is there.
LEMMA TellIs ==
  ASSUME CenterTypes, NEW t \in {"request", "result"}, NEW r \in Asked, Center!Tell(t, r)
  PROVE  /\ told' \in Seq([type : {"request", "result"}, of : Asked])
         /\ \A u, q : ToldOf(u, q)' <=> ToldOf(u, q) \/ (coreLinked /\ u = t /\ q = r)
         /\ \A i \in 1..Len(told') :
              \/ i \in 1..Len(told) /\ told'[i] = told[i]
              \/ coreLinked /\ i = Len(told) + 1 /\ told'[i] = [type |-> t, of |-> r]
<1> PICK e \in [type : {"request", "result"}, of : Asked] : e = [type |-> t, of |-> r]
  OBVIOUS
<1>1. CASE coreLinked
  <2>1. told' = Append(told, e)
    BY <1>1 DEF Center!Tell
  <2>2. /\ told' \in Seq([type : {"request", "result"}, of : Asked])
        /\ Len(told) \in Nat /\ Len(told') = Len(told) + 1
        /\ \A i \in 1..Len(told) : told'[i] = told[i]
        /\ told'[Len(told) + 1] = e
    BY <2>1 DEF CenterTypes
  <2>3. \A i \in 1..Len(told') : i \in 1..Len(told) \/ i = Len(told) + 1
    BY <2>2
  <2>4. ASSUME NEW u, NEW q
        PROVE  ToldOf(u, q)' <=> ToldOf(u, q) \/ (u = t /\ q = r)
    <3>1. ASSUME ToldOf(u, q)
          PROVE  ToldOf(u, q)'
      <4>1. PICK i \in 1..Len(told) : told[i] = [type |-> u, of |-> q]
        BY <3>1 DEF ToldOf
      <4>2. i \in 1..Len(told') /\ told'[i] = [type |-> u, of |-> q]
        BY <2>2, <4>1
      <4> QED
        BY <4>2 DEF ToldOf
    <3>2. ASSUME u = t, q = r
          PROVE  ToldOf(u, q)'
      <4>1. Len(told) + 1 \in 1..Len(told') /\ told'[Len(told) + 1] = [type |-> u, of |-> q]
        BY <2>2, <3>2
      <4> QED
        BY <4>1 DEF ToldOf
    <3>3. ASSUME ToldOf(u, q)'
          PROVE  ToldOf(u, q) \/ (u = t /\ q = r)
      <4>1. PICK i \in 1..Len(told') : told'[i] = [type |-> u, of |-> q]
        BY <3>3 DEF ToldOf
      <4>2. CASE i \in 1..Len(told)
        BY <2>2, <4>1, <4>2 DEF ToldOf
      <4>3. CASE i = Len(told) + 1
        BY <2>2, <4>1, <4>3
      <4> QED
        BY <2>3, <4>2, <4>3
    <3> QED
      BY <3>1, <3>2, <3>3
  <2> QED
    BY <1>1, <2>2, <2>3, <2>4
<1>2. CASE ~coreLinked
  <2>1. told' = told
    BY <1>2 DEF Center!Tell
  <2>2. \A u, q : ToldOf(u, q)' <=> ToldOf(u, q)
    BY <2>1 DEF ToldOf
  <2> QED
    BY <1>2, <2>1, <2>2 DEF CenterTypes
<1> QED
  BY <1>1, <1>2

LEMMA AskStays ==
  ASSUME CenterInv, NEW r \in Asked, Center!Ask(r)
  PROVE  CenterInv'
<1> CenterTypes /\ KnownWasAsked /\ RequestsFirst /\ WaitingIsComing /\ ResolvedIsComing /\ TakenIsResolved
  BY DEF CenterInv
<1>1. /\ waiting[r] = "unasked" /\ waiting' = [waiting EXCEPT ![r] = "pending"] /\ Center!Tell("request", r)
      /\ UNCHANGED <<coreLinked, lists, approvals, acting, respond, unlisted, unaware>>
  BY DEF Center!Ask
<1>2. /\ told' \in Seq([type : {"request", "result"}, of : Asked])
      /\ \A u, q : ToldOf(u, q)' <=> ToldOf(u, q) \/ (coreLinked /\ u = "request" /\ q = r)
      /\ \A i \in 1..Len(told') :
           \/ i \in 1..Len(told) /\ told'[i] = told[i]
           \/ coreLinked /\ i = Len(told) + 1 /\ told'[i] = [type |-> "request", of |-> r]
  BY <1>1, TellIs
<1>3. /\ waiting' \in [Asked -> {"unasked", "pending", "resolved"}] /\ waiting'[r] = "pending"
      /\ \A q \in Asked : q # r => waiting'[q] = waiting[q]
  BY <1>1 DEF CenterTypes
<1>4. \A q \in Asked : Found(q)' <=> Found(q)
  BY <1>1, SameIsFound
<1>5. CenterTypes'
  BY <1>1, <1>2, <1>3 DEF CenterTypes
<1>6. KnownWasAsked'
  <2> SUFFICES ASSUME NEW q \in Asked
               PROVE  /\ q \in approvals \/ ToldOf("request", q)' \/ Found(q) => waiting'[q] # "unasked"
                      /\ ToldOf("result", q)' => waiting'[q] = "resolved"
    BY <1>1, <1>4 DEF KnownWasAsked
  <2>1. ToldOf("result", q)' <=> ToldOf("result", q)
    BY <1>2
  <2>2. CASE q = r
    <3>1. ~ToldOf("result", r)
      BY <1>1 DEF KnownWasAsked
    <3> QED
      BY <1>3, <2>1, <2>2, <3>1
  <2>3. CASE q # r
    <3>1. ToldOf("request", q)' <=> ToldOf("request", q)
      BY <1>2, <2>3
    <3> QED
      BY <1>3, <2>1, <2>3, <3>1 DEF KnownWasAsked
  <2> QED
    BY <2>2, <2>3
<1>7. RequestsFirst'
  <2> SUFFICES ASSUME NEW q \in Asked, NEW i \in 1..Len(told'), NEW j \in 1..Len(told'),
                      told'[i] = [type |-> "request", of |-> q], told'[j] = [type |-> "result", of |-> q]
               PROVE  i < j
    BY DEF RequestsFirst
  <2>1. j \in 1..Len(told) /\ told[j] = [type |-> "result", of |-> q]
    BY <1>2
  <2>2. ToldOf("result", q)
    BY <2>1 DEF ToldOf
  <2>3. q # r
    BY <1>1, <2>2 DEF KnownWasAsked
  <2>4. i \in 1..Len(told) /\ told[i] = [type |-> "request", of |-> q]
    BY <1>2, <2>3
  <2> QED
    BY <2>1, <2>4 DEF RequestsFirst
<1>8. WaitingIsComing'
  <2> SUFFICES ASSUME coreLinked, ~unlisted, NEW q \in Asked, waiting'[q] = "pending"
               PROVE  \/ q \in approvals \/ ToldOf("request", q)'
                      \/ \E i \in 1..Len(lists) : ~lists[i].made \/ q \in lists[i].found
    BY <1>1 DEF WaitingIsComing, Center!Pending
  <2>1. CASE q = r
    BY <1>2, <2>1
  <2>2. CASE q # r
    BY <1>2, <1>3, <2>2 DEF WaitingIsComing, Center!Pending
  <2> QED
    BY <2>1, <2>2
<1>9. ResolvedIsComing'
  <2> SUFFICES ASSUME NEW q \in Asked \ unaware, waiting'[q] = "resolved"
               PROVE  /\ ~Found(q)
                      /\ ToldOf("result", q)' \/ (q \notin approvals /\ ~ToldOf("request", q)')
    BY <1>1, <1>4 DEF ResolvedIsComing
  <2>1. q # r /\ waiting[q] = "resolved"
    BY <1>3
  <2>2. /\ ToldOf("result", q)' <=> ToldOf("result", q)
        /\ ToldOf("request", q)' <=> ToldOf("request", q)
    BY <1>2, <2>1
  <2> QED
    BY <2>1, <2>2 DEF ResolvedIsComing
<1>10. TakenIsResolved'
  BY <1>1, <1>3 DEF TakenIsResolved
<1>11. Center!ActingIsInFlight'
  BY <1>1 DEF CenterInv, Center!ActingIsInFlight
<1> QED
  BY <1>5, <1>6, <1>7, <1>8, <1>9, <1>10, <1>11 DEF CenterInv

\* A request that waits is resolved, here or elsewhere.
LEMMA ResolvedStays ==
  ASSUME CenterInv, NEW r \in Center!Pending, Center!Resolved(r),
         UNCHANGED <<coreLinked, lists, approvals, unlisted>>
  PROVE  /\ CenterTypes' /\ KnownWasAsked' /\ RequestsFirst' /\ WaitingIsComing' /\ ResolvedIsComing'
         /\ \A q \in Asked : waiting[q] = "resolved" => waiting'[q] = "resolved"
         /\ waiting'[r] = "resolved"
<1> CenterTypes /\ KnownWasAsked /\ RequestsFirst /\ WaitingIsComing /\ ResolvedIsComing
  BY DEF CenterInv
<1>1. /\ r \in Asked /\ waiting[r] = "pending" /\ waiting' = [waiting EXCEPT ![r] = "resolved"]
      /\ Center!Tell("result", r)
      /\ unaware' = IF ~coreLinked \/ \E i \in DOMAIN lists : r \in lists[i].found
                    THEN unaware \cup {r} ELSE unaware
  BY DEF Center!Resolved, Center!Pending
<1>2. /\ told' \in Seq([type : {"request", "result"}, of : Asked])
      /\ \A u, q : ToldOf(u, q)' <=> ToldOf(u, q) \/ (coreLinked /\ u = "result" /\ q = r)
      /\ \A i \in 1..Len(told') :
           \/ i \in 1..Len(told) /\ told'[i] = told[i]
           \/ coreLinked /\ i = Len(told) + 1 /\ told'[i] = [type |-> "result", of |-> r]
  BY <1>1, TellIs
<1>3. /\ waiting' \in [Asked -> {"unasked", "pending", "resolved"}] /\ waiting'[r] = "resolved"
      /\ \A q \in Asked : q # r => waiting'[q] = waiting[q]
  BY <1>1 DEF CenterTypes
<1>4. \A q \in Asked : Found(q)' <=> Found(q)
  BY SameIsFound
<1>5. CenterTypes'
  BY <1>2, <1>3 DEF CenterTypes
<1>6. \A q \in Asked : ToldOf("request", q)' <=> ToldOf("request", q)
  BY <1>2
<1>7. KnownWasAsked'
  <2> SUFFICES ASSUME NEW q \in Asked
               PROVE  /\ q \in approvals \/ ToldOf("request", q) \/ Found(q) => waiting'[q] # "unasked"
                      /\ ToldOf("result", q)' => waiting'[q] = "resolved"
    BY <1>4, <1>6 DEF KnownWasAsked
  <2>1. CASE q = r
    BY <1>3, <2>1
  <2>2. CASE q # r
    <3>1. ToldOf("result", q)' <=> ToldOf("result", q)
      BY <1>2, <2>2
    <3> QED
      BY <1>3, <2>2, <3>1 DEF KnownWasAsked
  <2> QED
    BY <2>1, <2>2
<1>8. RequestsFirst'
  <2> SUFFICES ASSUME NEW q \in Asked, NEW i \in 1..Len(told'), NEW j \in 1..Len(told'),
                      told'[i] = [type |-> "request", of |-> q], told'[j] = [type |-> "result", of |-> q]
               PROVE  i < j
    BY DEF RequestsFirst
  <2>1. i \in 1..Len(told) /\ told[i] = [type |-> "request", of |-> q] /\ Len(told) \in Nat
    BY <1>2 DEF CenterTypes
  <2>2. CASE j \in 1..Len(told) /\ told'[j] = told[j]
    BY <2>1, <2>2 DEF RequestsFirst
  <2>3. CASE j = Len(told) + 1
    BY <2>1, <2>3
  <2> QED
    BY <1>2, <2>2, <2>3
<1>9. WaitingIsComing'
  <2> SUFFICES ASSUME coreLinked, ~unlisted, NEW q \in Asked, waiting'[q] = "pending"
               PROVE  \/ q \in approvals \/ ToldOf("request", q)
                      \/ \E i \in 1..Len(lists) : ~lists[i].made \/ q \in lists[i].found
    BY <1>6 DEF WaitingIsComing, Center!Pending
  <2> QED
    BY <1>3 DEF WaitingIsComing, Center!Pending
<1>10. ResolvedIsComing'
  <2> SUFFICES ASSUME NEW q \in Asked \ unaware', waiting'[q] = "resolved"
               PROVE  /\ ~Found(q)
                      /\ ToldOf("result", q)' \/ (q \notin approvals /\ ~ToldOf("request", q))
    BY <1>4, <1>6 DEF ResolvedIsComing
  <2>1. q \notin unaware
    BY <1>1
  <2>2. CASE q = r
    <3>1. coreLinked /\ ~\E i \in DOMAIN lists : r \in lists[i].found
      BY <1>1, <2>2
    <3>2. DOMAIN lists = 1..Len(lists)
      BY DEF CenterTypes
    <3>3. ~Found(r) /\ ToldOf("result", r)'
      BY <1>2, <3>1, <3>2 DEF Found
    <3> QED
      BY <2>2, <3>3
  <2>3. CASE q # r
    <3>1. waiting[q] = "resolved" /\ (ToldOf("result", q)' <=> ToldOf("result", q))
      BY <1>2, <1>3, <2>3
    <3> QED
      BY <2>1, <3>1 DEF ResolvedIsComing
  <2> QED
    BY <2>2, <2>3
<1> QED
  BY <1>1, <1>3, <1>5, <1>7, <1>8, <1>9, <1>10

LEMMA ResolveElsewhereStays ==
  ASSUME CenterInv, NEW r \in Asked, Center!ResolveElsewhere(r)
  PROVE  CenterInv'
<1>1. /\ r \in Center!Pending /\ Center!Resolved(r)
      /\ UNCHANGED <<coreLinked, lists, approvals, acting, respond, unlisted>>
  BY DEF Center!ResolveElsewhere
<1>2. /\ CenterTypes' /\ KnownWasAsked' /\ RequestsFirst' /\ WaitingIsComing' /\ ResolvedIsComing'
      /\ \A q \in Asked : waiting[q] = "resolved" => waiting'[q] = "resolved"
      /\ waiting' = [waiting EXCEPT ![r] = "resolved"]
  BY <1>1, ResolvedStays DEF Center!Resolved
<1>3. TakenIsResolved'
  BY <1>1, <1>2 DEF CenterInv, CenterTypes, TakenIsResolved
<1>4. Center!ActingIsInFlight'
  BY <1>1 DEF CenterInv, Center!ActingIsInFlight
<1> QED
  BY <1>2, <1>3, <1>4 DEF CenterInv

LEMMA RespondStays ==
  ASSUME CenterInv, NEW c \in respond, Center!Respond(c)
  PROVE  CenterInv'
<1>1. PICK r \in Center!Pending : r = c.of
  BY DEF Center!Respond
<1>2. /\ Center!Resolved(r) /\ respond' = (respond \ {c}) \cup {[c EXCEPT !.made = TRUE]}
      /\ UNCHANGED <<coreLinked, lists, approvals, acting, unlisted>>
  BY <1>1 DEF Center!Respond
<1>3. /\ CenterTypes' /\ KnownWasAsked' /\ RequestsFirst' /\ WaitingIsComing' /\ ResolvedIsComing'
      /\ waiting'[r] = "resolved"
      /\ waiting' = [waiting EXCEPT ![r] = "resolved"]
  BY <1>2, ResolvedStays DEF Center!Resolved
<1>4. PICK d \in respond' : d = [c EXCEPT !.made = TRUE]
  BY <1>2
<1>5. d.of = r
  BY <1>1, <1>4
<1>6. TakenIsResolved'
  <2> SUFFICES ASSUME NEW e \in respond', e.made
               PROVE  waiting'[e.of] = "resolved"
    BY DEF TakenIsResolved
  <2>1. CASE e = d
    BY <1>3, <1>5, <2>1
  <2>2. CASE e # d
    <3>1. e \in respond
      BY <1>2, <1>4, <2>2
    <3>2. waiting[e.of] = "resolved"
      BY <3>1 DEF CenterInv, TakenIsResolved
    <3> QED
      BY <1>3, <3>2 DEF CenterInv, CenterTypes
  <2> QED
    BY <2>1, <2>2
<1>7. Center!ActingIsInFlight'
  <2> SUFFICES ASSUME acting # NoRequest
               PROVE  \E e \in respond' : e.of = acting
    BY <1>2 DEF Center!ActingIsInFlight
  <2>1. PICK e \in respond : e.of = acting
    BY DEF CenterInv, Center!ActingIsInFlight
  <2>2. CASE e = c
    BY <1>1, <1>4, <1>5, <2>1, <2>2
  <2>3. CASE e # c
    BY <1>2, <2>1, <2>3
  <2> QED
    BY <2>2, <2>3
<1> QED
  BY <1>3, <1>6, <1>7 DEF CenterInv

\* Core makes a list of what waits.
LEMMA MakeListStays ==
  ASSUME CenterInv, NEW k \in DOMAIN lists, Center!MakeList(k)
  PROVE  CenterInv'
<1> CenterTypes /\ KnownWasAsked /\ RequestsFirst /\ WaitingIsComing /\ ResolvedIsComing /\ TakenIsResolved
  BY DEF CenterInv
<1>1. /\ lists' = [lists EXCEPT ![k] = [made |-> TRUE, found |-> Center!Pending]]
      /\ UNCHANGED <<waiting, coreLinked, told, approvals, acting, respond, unlisted, unaware>>
  BY DEF Center!MakeList
<1>2. Center!Pending \subseteq Asked /\ DOMAIN lists = 1..Len(lists)
  BY DEF Center!Pending, CenterTypes
<1>3. PICK l \in [made : BOOLEAN, found : SUBSET Asked] : l = [made |-> TRUE, found |-> Center!Pending]
  BY <1>2
<1>4. /\ lists' \in Seq([made : BOOLEAN, found : SUBSET Asked]) /\ Len(lists') = Len(lists)
      /\ lists'[k] = l /\ \A j \in 1..Len(lists) : j # k => lists'[j] = lists[j]
  BY <1>1, <1>2, <1>3 DEF CenterTypes
<1>5. CenterTypes'
  BY <1>1, <1>4 DEF CenterTypes
<1>6. \A r \in Asked : /\ Found(r)' => Found(r) \/ r \in Center!Pending
                       /\ ToldOf("request", r)' <=> ToldOf("request", r)
                       /\ ToldOf("result", r)' <=> ToldOf("result", r)
  BY <1>1, <1>3, <1>4, SameIsTold DEF Found
<1>7. KnownWasAsked' /\ ResolvedIsComing'
  BY <1>1, <1>6 DEF KnownWasAsked, ResolvedIsComing, Center!Pending
<1>8. RequestsFirst' /\ TakenIsResolved'
  BY <1>1 DEF RequestsFirst, TakenIsResolved
<1>9. WaitingIsComing'
  <2> SUFFICES ASSUME NEW r \in Center!Pending
               PROVE  \E i \in 1..Len(lists') : ~lists'[i].made \/ r \in lists'[i].found
    BY <1>1 DEF WaitingIsComing, Center!Pending
  <2>1. k \in 1..Len(lists') /\ r \in lists'[k].found
    BY <1>2, <1>3, <1>4
  <2> QED
    BY <2>1
<1>10. Center!ActingIsInFlight'
  BY <1>1 DEF CenterInv, Center!ActingIsInFlight
<1> QED
  BY <1>5, <1>7, <1>8, <1>9, <1>10 DEF CenterInv

LEMMA FunctionIsSeq ==
  ASSUME NEW S, NEW n \in Nat, NEW f \in [1..n -> S]
  PROVE  f \in Seq(S) /\ Len(f) = n
OBVIOUS

\* One list is gone, the others stay.
LEMMA GoneIs ==
  ASSUME CenterTypes, NEW k \in DOMAIN lists, Center!Gone(k)
  PROVE  /\ lists' \in Seq([made : BOOLEAN, found : SUBSET Asked])
         /\ \A i \in 1..Len(lists') : \E j \in 1..Len(lists) : lists'[i] = lists[j]
         /\ \A j \in 1..Len(lists) : j = k \/ \E i \in 1..Len(lists') : lists'[i] = lists[j]
<1> DEFINE n == Len(lists) - 1
<1>1. /\ DOMAIN lists = 1..Len(lists) /\ Len(lists) \in Nat /\ k \in 1..Len(lists) /\ n \in Nat
      /\ \A i \in 1..Len(lists) : lists[i] \in [made : BOOLEAN, found : SUBSET Asked]
  <2>1. DOMAIN lists = 1..Len(lists) /\ Len(lists) \in Nat
    BY ListIsTyped
  <2>2. k \in 1..Len(lists) /\ n \in Nat
    BY <2>1
  <2>3. \A i \in 1..Len(lists) : lists[i] \in [made : BOOLEAN, found : SUBSET Asked]
    BY ListIsTyped
  <2> QED
    BY <2>1, <2>2, <2>3
<1>2. lists' = [j \in 1..n |-> IF j < k THEN lists[j] ELSE lists[j + 1]]
  BY DEF Center!Gone
<1> HIDE DEF n
<1>3. \A j \in 1..n : j \in 1..Len(lists) /\ j + 1 \in 1..Len(lists)
  BY <1>1 DEF n
<1>4. \A j \in 1..n : /\ lists'[j] = IF j < k THEN lists[j] ELSE lists[j + 1]
                      /\ lists'[j] \in [made : BOOLEAN, found : SUBSET Asked]
  BY <1>1, <1>2, <1>3
<1>5. lists' \in Seq([made : BOOLEAN, found : SUBSET Asked]) /\ Len(lists') = n
  <2>1. lists' \in [1..n -> [made : BOOLEAN, found : SUBSET Asked]]
    BY <1>2, <1>4
  <2> QED
    BY <1>1, <2>1, FunctionIsSeq
<1>6. \A i \in 1..Len(lists') : \E j \in 1..Len(lists) : lists'[i] = lists[j]
  BY <1>3, <1>4, <1>5
<1>7. ASSUME NEW j \in 1..Len(lists), j # k
      PROVE  \E i \in 1..Len(lists') : lists'[i] = lists[j]
  <2>1. CASE j < k
    <3>1. j \in 1..n
      BY <1>1, <2>1 DEF n
    <3> QED
      BY <1>4, <1>5, <2>1, <3>1
  <2>2. CASE ~(j < k)
    <3>1. j - 1 \in 1..n /\ ~(j - 1 < k) /\ (j - 1) + 1 = j
      BY <1>1, <1>7, <2>2 DEF n
    <3>2. lists'[j - 1] = lists[j]
      BY <1>4, <3>1
    <3> QED
      BY <1>5, <3>1, <3>2
  <2> QED
    BY <2>1, <2>2
<1> QED
  BY <1>5, <1>6, <1>7

LEMMA ListArrivesStays ==
  ASSUME CenterInv, NEW k \in DOMAIN lists, Center!ListArrives(k)
  PROVE  CenterInv'
<1> CenterTypes /\ KnownWasAsked /\ RequestsFirst /\ WaitingIsComing /\ ResolvedIsComing /\ TakenIsResolved
  BY DEF CenterInv
<1>1. /\ lists[k].made /\ Center!Gone(k) /\ approvals' = approvals \cup lists[k].found
      /\ UNCHANGED <<waiting, coreLinked, told, acting, respond, unlisted, unaware>>
  BY DEF Center!ListArrives, Center!Hydrated
<1>2. /\ lists' \in Seq([made : BOOLEAN, found : SUBSET Asked])
      /\ \A i \in 1..Len(lists') : \E j \in 1..Len(lists) : lists'[i] = lists[j]
      /\ \A j \in 1..Len(lists) : j = k \/ \E i \in 1..Len(lists') : lists'[i] = lists[j]
  BY <1>1, GoneIs
<1>3. k \in 1..Len(lists) /\ lists[k].found \subseteq Asked
  BY ListIsTyped
<1>4. CenterTypes'
  BY <1>1, <1>2, <1>3 DEF CenterTypes
<1>5. \A r \in Asked : /\ Found(r)' => Found(r)
                       /\ r \in lists[k].found => Found(r)
                       /\ ToldOf("request", r)' <=> ToldOf("request", r)
                       /\ ToldOf("result", r)' <=> ToldOf("result", r)
  BY <1>1, <1>2, <1>3, SameIsTold DEF Found
<1>6. KnownWasAsked'
  BY <1>1, <1>5 DEF KnownWasAsked
<1>7. ResolvedIsComing'
  BY <1>1, <1>5 DEF ResolvedIsComing
<1>8. RequestsFirst' /\ TakenIsResolved'
  BY <1>1 DEF RequestsFirst, TakenIsResolved
<1>9. WaitingIsComing'
  <2> SUFFICES ASSUME coreLinked, ~unlisted, NEW r \in Center!Pending
               PROVE  \/ r \in approvals' \/ ToldOf("request", r)'
                      \/ \E i \in 1..Len(lists') : ~lists'[i].made \/ r \in lists'[i].found
    BY <1>1 DEF WaitingIsComing, Center!Pending
  <2>1. \/ r \in approvals \/ ToldOf("request", r)
        \/ \E i \in 1..Len(lists) : ~lists[i].made \/ r \in lists[i].found
    BY DEF WaitingIsComing
  <2>2. r \in Asked
    BY DEF Center!Pending
  <2>3. CASE \E i \in 1..Len(lists) : ~lists[i].made \/ r \in lists[i].found
    <3>1. PICK i \in 1..Len(lists) : ~lists[i].made \/ r \in lists[i].found
      BY <2>3
    <3>2. CASE i = k
      BY <1>1, <3>1, <3>2
    <3>3. CASE i # k
      BY <1>2, <3>1, <3>3
    <3> QED
      BY <3>2, <3>3
  <2> QED
    BY <1>1, <1>5, <2>1, <2>2, <2>3
<1>10. Center!ActingIsInFlight'
  BY <1>1 DEF CenterInv, Center!ActingIsInFlight
<1> QED
  BY <1>4, <1>6, <1>7, <1>8, <1>9, <1>10 DEF CenterInv

LEMMA ListFailsStays ==
  ASSUME CenterInv, NEW k \in DOMAIN lists, Center!ListFails(k)
  PROVE  CenterInv'
<1> CenterTypes /\ KnownWasAsked /\ RequestsFirst /\ WaitingIsComing /\ ResolvedIsComing /\ TakenIsResolved
  BY DEF CenterInv
<1>1. /\ Center!Gone(k) /\ unlisted' = (unlisted \/ coreLinked)
      /\ UNCHANGED <<waiting, coreLinked, told, approvals, acting, respond, unaware>>
  BY DEF Center!ListFails
<1>2. /\ lists' \in Seq([made : BOOLEAN, found : SUBSET Asked])
      /\ \A i \in 1..Len(lists') : \E j \in 1..Len(lists) : lists'[i] = lists[j]
  BY <1>1, GoneIs
<1>4. CenterTypes'
  BY <1>1, <1>2 DEF CenterTypes
<1>5. \A r \in Asked : /\ Found(r)' => Found(r)
                       /\ ToldOf("request", r)' <=> ToldOf("request", r)
                       /\ ToldOf("result", r)' <=> ToldOf("result", r)
  BY <1>1, <1>2, SameIsTold DEF Found
<1>6. KnownWasAsked'
  BY <1>1, <1>5 DEF KnownWasAsked
<1>7. ResolvedIsComing'
  BY <1>1, <1>5 DEF ResolvedIsComing
<1>8. RequestsFirst' /\ TakenIsResolved'
  BY <1>1 DEF RequestsFirst, TakenIsResolved
<1>9. WaitingIsComing'
  BY <1>1 DEF WaitingIsComing
<1>10. Center!ActingIsInFlight'
  BY <1>1 DEF CenterInv, Center!ActingIsInFlight
<1> QED
  BY <1>4, <1>6, <1>7, <1>8, <1>9, <1>10 DEF CenterInv

\* The first event is handled; the others move up.
LEMMA HandleEventStays ==
  ASSUME CenterInv, Center!HandleEvent
  PROVE  CenterInv'
<1> CenterTypes /\ KnownWasAsked /\ RequestsFirst /\ WaitingIsComing /\ ResolvedIsComing /\ TakenIsResolved
  BY DEF CenterInv
<1>1. /\ told # <<>> /\ told' = Tail(told)
      /\ UNCHANGED <<waiting, coreLinked, lists, acting, respond, unlisted, unaware>>
  BY DEF Center!HandleEvent
<1>2. PICK s \in Seq([type : {"request", "result"}, of : Asked]) : s = told
  BY DEF CenterTypes
<1>3. PICK e \in [type : {"request", "result"}, of : Asked] : e = Head(s)
  BY <1>1, <1>2, HeadIsTyped
<1>4. approvals' = IF e.type = "request" THEN approvals \cup {e.of} ELSE approvals \ {e.of}
  BY <1>2, <1>3 DEF Center!HandleEvent
<1>5. /\ told' \in Seq([type : {"request", "result"}, of : Asked])
      /\ Len(told) \in Nat /\ Len(told) >= 1 /\ Len(told') = Len(told) - 1
      /\ \A i \in 1..Len(told') : told'[i] = told[i + 1]
      /\ told[1] = e
  BY <1>1, <1>2, <1>3, HeadIsTyped
<1>6. \A t, r : /\ ToldOf(t, r)' => ToldOf(t, r)
                /\ ToldOf(t, r) => ToldOf(t, r)' \/ e = [type |-> t, of |-> r]
  <2> TAKE t, r
  <2>1. ASSUME ToldOf(t, r)'
        PROVE  ToldOf(t, r)
    <3>1. PICK i \in 1..Len(told') : told'[i] = [type |-> t, of |-> r]
      BY <2>1 DEF ToldOf
    <3>2. i + 1 \in 1..Len(told) /\ told[i + 1] = [type |-> t, of |-> r]
      BY <1>5, <3>1
    <3> QED
      BY <3>2 DEF ToldOf
  <2>2. ASSUME ToldOf(t, r), e # [type |-> t, of |-> r]
        PROVE  ToldOf(t, r)'
    <3>1. PICK i \in 1..Len(told) : told[i] = [type |-> t, of |-> r]
      BY <2>2 DEF ToldOf
    <3>2. i # 1
      BY <1>5, <2>2, <3>1
    <3>3. i - 1 \in 1..Len(told') /\ (i - 1) + 1 = i
      BY <1>5, <3>2
    <3>4. told'[i - 1] = [type |-> t, of |-> r]
      BY <1>5, <3>1, <3>3
    <3> QED
      BY <3>3, <3>4 DEF ToldOf
  <2> QED
    BY <2>1, <2>2
<1>7. ToldOf(e.type, e.of) /\ e.of \in Asked /\ e.type \in {"request", "result"}
  <2>1. 1 \in 1..Len(told) /\ told[1] = [type |-> e.type, of |-> e.of]
    BY <1>5
  <2> QED
    BY <2>1 DEF ToldOf
<1>8. \A r \in Asked : Found(r)' <=> Found(r)
  BY <1>1, SameIsFound
<1>9. CenterTypes'
  BY <1>1, <1>4, <1>5, <1>7 DEF CenterTypes
<1>10. KnownWasAsked'
  <2> SUFFICES ASSUME NEW r \in Asked
               PROVE  /\ r \in approvals' \/ ToldOf("request", r)' \/ Found(r) => waiting[r] # "unasked"
                      /\ ToldOf("result", r)' => waiting[r] = "resolved"
    BY <1>1, <1>8 DEF KnownWasAsked
  <2>1. r \in approvals' => r \in approvals \/ ToldOf("request", r)
    BY <1>4, <1>7
  <2> QED
    BY <1>6, <2>1 DEF KnownWasAsked
<1>11. RequestsFirst'
  <2> SUFFICES ASSUME NEW r \in Asked, NEW i \in 1..Len(told'), NEW j \in 1..Len(told'),
                      told'[i] = [type |-> "request", of |-> r], told'[j] = [type |-> "result", of |-> r]
               PROVE  i < j
    BY DEF RequestsFirst
  <2>1. /\ i + 1 \in 1..Len(told) /\ j + 1 \in 1..Len(told)
        /\ told[i + 1] = [type |-> "request", of |-> r] /\ told[j + 1] = [type |-> "result", of |-> r]
    BY <1>5
  <2>2. i + 1 < j + 1
    BY <2>1 DEF RequestsFirst
  <2> QED
    BY <1>5, <2>2
<1>12. WaitingIsComing'
  <2> SUFFICES ASSUME coreLinked, ~unlisted, NEW r \in Center!Pending
               PROVE  \/ r \in approvals' \/ ToldOf("request", r)'
                      \/ \E i \in 1..Len(lists) : ~lists[i].made \/ r \in lists[i].found
    BY <1>1 DEF WaitingIsComing, Center!Pending
  <2>1. r \in Asked /\ waiting[r] = "pending"
    BY DEF Center!Pending
  <2>2. ~ToldOf("result", r)
    BY <2>1 DEF KnownWasAsked
  <2>3. r \in approvals => r \in approvals'
    BY <1>4, <1>7, <2>2
  <2>4. ToldOf("request", r) => ToldOf("request", r)' \/ r \in approvals'
    BY <1>4, <1>6
  <2> QED
    BY <2>3, <2>4 DEF WaitingIsComing
<1>13. ResolvedIsComing'
  <2> SUFFICES ASSUME NEW r \in Asked \ unaware, waiting[r] = "resolved"
               PROVE  /\ ~Found(r)
                      /\ ToldOf("result", r)' \/ (r \notin approvals' /\ ~ToldOf("request", r)')
    BY <1>1, <1>8 DEF ResolvedIsComing
  <2>1. ~Found(r) /\ (ToldOf("result", r) \/ (r \notin approvals /\ ~ToldOf("request", r)))
    BY DEF ResolvedIsComing
  <2>2. CASE e = [type |-> "result", of |-> r]
    <3>1. ~ToldOf("request", r)'
      <4> SUFFICES ASSUME NEW i \in 1..Len(told'), told'[i] = [type |-> "request", of |-> r]
                   PROVE  FALSE
        BY DEF ToldOf
      <4>1. i + 1 \in 1..Len(told) /\ told[i + 1] = [type |-> "request", of |-> r] /\ 1 \in 1..Len(told)
        BY <1>5
      <4>2. i + 1 < 1
        BY <1>5, <2>2, <4>1 DEF RequestsFirst
      <4> QED
        BY <1>5, <4>2
    <3>2. r \notin approvals'
      BY <1>4, <2>2
    <3> QED
      BY <2>1, <3>1, <3>2
  <2>3. CASE e # [type |-> "result", of |-> r]
    <3>1. CASE ToldOf("result", r)
      BY <1>6, <2>1, <2>3, <3>1
    <3>2. CASE r \notin approvals /\ ~ToldOf("request", r)
      <4>1. r \notin approvals' /\ ~ToldOf("request", r)'
        BY <1>4, <1>6, <1>7, <3>2
      <4> QED
        BY <2>1, <4>1
    <3> QED
      BY <2>1, <3>1, <3>2
  <2> QED
    BY <2>2, <2>3
<1>14. TakenIsResolved' /\ Center!ActingIsInFlight'
  BY <1>1 DEF CenterInv, TakenIsResolved, Center!ActingIsInFlight
<1> QED
  BY <1>9, <1>10, <1>11, <1>12, <1>13, <1>14 DEF CenterInv

\* What the buttons do to the page
LEMMA ButtonsStay ==
  ASSUME CenterInv,
         \/ \E r \in Asked : Center!HandleAction(r)
         \/ \E c \in respond : Center!Responded(c) \/ Center!RespondFails(c)
  PROVE  CenterInv'
<1> CenterTypes /\ KnownWasAsked /\ RequestsFirst /\ WaitingIsComing /\ ResolvedIsComing /\ TakenIsResolved
  BY DEF CenterInv
<1>1. /\ UNCHANGED <<waiting, coreLinked, told, lists, unlisted, unaware>>
      /\ approvals' \subseteq approvals
  BY DEF Center!HandleAction, Center!Responded, Center!RespondFails
<1>2. \A r \in Center!Pending : r \in approvals => r \in approvals'
  BY DEF Center!Pending, TakenIsResolved, Center!HandleAction, Center!Responded, Center!RespondFails
<1>3. \A r \in Asked : /\ Found(r)' <=> Found(r)
                       /\ ToldOf("request", r)' <=> ToldOf("request", r)
                       /\ ToldOf("result", r)' <=> ToldOf("result", r)
  BY <1>1, SameIsTold, SameIsFound
<1>4. CenterTypes' /\ RequestsFirst'
  BY <1>1 DEF CenterTypes, RequestsFirst
<1>5. KnownWasAsked' /\ ResolvedIsComing'
  BY <1>1, <1>3 DEF KnownWasAsked, ResolvedIsComing
<1>6. WaitingIsComing'
  BY <1>1, <1>2, <1>3 DEF WaitingIsComing, Center!Pending
<1>7. TakenIsResolved'
  <2> SUFFICES ASSUME NEW c \in respond', c.made
               PROVE  waiting[c.of] = "resolved"
    BY <1>1 DEF TakenIsResolved
  <2>1. c \in respond
    BY DEF Center!HandleAction, Center!Responded, Center!RespondFails
  <2> QED
    BY <2>1 DEF TakenIsResolved
<1>8. Center!ActingIsInFlight'
  <2>1. CASE \E r \in Asked : Center!HandleAction(r)
    <3>1. PICK r \in Asked : Center!HandleAction(r)
      BY <2>1
    <3>2. PICK c : c = [of |-> r, made |-> FALSE, id |-> responses]
      OBVIOUS
    <3>3. c \in respond' /\ c.of = r /\ acting' = r
      BY <3>1, <3>2 DEF Center!HandleAction
    <3> QED
      BY <3>3 DEF Center!ActingIsInFlight
  <2>2. CASE acting' = NoRequest
    BY <2>2 DEF Center!ActingIsInFlight
  <2> QED
    BY <2>1, <2>2 DEF Center!Responded, Center!RespondFails
<1> QED
  BY <1>4, <1>5, <1>6, <1>7, <1>8 DEF CenterInv

LEMMA BreakStays ==
  ASSUME CenterInv, Center!Break
  PROVE  CenterInv'
<1> CenterTypes /\ KnownWasAsked /\ RequestsFirst /\ WaitingIsComing /\ ResolvedIsComing /\ TakenIsResolved
  BY DEF CenterInv
<1>1. /\ coreLinked' = FALSE /\ told' = <<>>
      /\ unaware' = unaware \cup {told[i].of : i \in {j \in DOMAIN told : told[j].type = "result"}}
      /\ UNCHANGED <<waiting, lists, approvals, acting, respond, unlisted>>
  BY DEF Center!Break
<1>2. \A r \in Asked : /\ Found(r)' <=> Found(r)
                       /\ ~ToldOf("request", r)' /\ ~ToldOf("result", r)'
  BY <1>1, SameIsFound DEF ToldOf
<1>3. CenterTypes' /\ RequestsFirst' /\ WaitingIsComing'
  BY <1>1 DEF CenterTypes, RequestsFirst, WaitingIsComing
<1>4. KnownWasAsked'
  BY <1>1, <1>2 DEF KnownWasAsked
<1>5. ResolvedIsComing'
  <2> SUFFICES ASSUME NEW r \in Asked \ unaware', waiting[r] = "resolved"
               PROVE  ~Found(r) /\ r \notin approvals
    BY <1>1, <1>2 DEF ResolvedIsComing
  <2>1. ~ToldOf("result", r)
    <3> SUFFICES ASSUME NEW i \in 1..Len(told), told[i] = [type |-> "result", of |-> r]
                 PROVE  FALSE
      BY DEF ToldOf
    <3>1. i \in DOMAIN told /\ told[i].type = "result" /\ told[i].of = r
      BY DEF CenterTypes
    <3> QED
      BY <1>1, <3>1
  <2> QED
    BY <1>1, <2>1 DEF ResolvedIsComing
<1>6. TakenIsResolved' /\ Center!ActingIsInFlight'
  BY <1>1 DEF CenterInv, TakenIsResolved, Center!ActingIsInFlight
<1> QED
  BY <1>3, <1>4, <1>5, <1>6 DEF CenterInv

LEMMA RelinkStays ==
  ASSUME CenterInv, Center!Relink
  PROVE  CenterInv'
<1> CenterTypes /\ KnownWasAsked /\ RequestsFirst /\ WaitingIsComing /\ ResolvedIsComing /\ TakenIsResolved
  BY DEF CenterInv
<1>1. /\ lists' = Append(lists, Center!NewList)
      /\ UNCHANGED <<waiting, told, approvals, acting, respond, unlisted, unaware>>
  BY DEF Center!Relink
<1>2. PICK l \in [made : BOOLEAN, found : SUBSET Asked] : l = Center!NewList /\ ~l.made /\ l.found = {}
  <2>1. Center!NewList = [made |-> FALSE, found |-> {}]
    BY DEF Center!NewList
  <2>2. Center!NewList \in [made : BOOLEAN, found : SUBSET Asked]
    BY <2>1
  <2>3. ~Center!NewList.made /\ Center!NewList.found = {}
    BY <2>1
  <2> QED
    BY <2>2, <2>3
<1>3. /\ lists' \in Seq([made : BOOLEAN, found : SUBSET Asked]) /\ Len(lists) \in Nat
      /\ Len(lists') = Len(lists) + 1 /\ lists'[Len(lists) + 1] = l
      /\ \A i \in 1..Len(lists) : lists'[i] = lists[i]
  BY <1>1, <1>2 DEF CenterTypes
<1>4. \A r \in Asked : Found(r)' => Found(r)
  <2> SUFFICES ASSUME NEW r \in Asked, NEW i \in 1..Len(lists'), r \in lists'[i].found
               PROVE  Found(r)
    BY DEF Found
  <2>1. i \in 1..Len(lists) \/ i = Len(lists) + 1
    BY <1>3
  <2>2. i \in 1..Len(lists) /\ r \in lists[i].found
    BY <1>2, <1>3, <2>1
  <2> QED
    BY <2>2 DEF Found
<1>5. \A r \in Asked : /\ ToldOf("request", r)' <=> ToldOf("request", r)
                       /\ ToldOf("result", r)' <=> ToldOf("result", r)
  BY <1>1, SameIsTold
<1>6. CenterTypes' /\ RequestsFirst' /\ TakenIsResolved' /\ Center!ActingIsInFlight'
  BY <1>1, <1>3 DEF CenterInv, CenterTypes, RequestsFirst, TakenIsResolved, Center!ActingIsInFlight
<1>7. KnownWasAsked' /\ ResolvedIsComing'
  BY <1>1, <1>4, <1>5 DEF KnownWasAsked, ResolvedIsComing
<1>8. WaitingIsComing'
  <2>1. Len(lists) + 1 \in 1..Len(lists') /\ ~lists'[Len(lists) + 1].made
    BY <1>2, <1>3
  <2> QED
    BY <2>1 DEF WaitingIsComing
<1> QED
  BY <1>6, <1>7, <1>8 DEF CenterInv

LEMMA CenterStays ==
  ASSUME CenterInv, Center!ApprovalsNext
  PROVE  CenterInv'
BY AskStays, ResolveElsewhereStays, RespondStays, MakeListStays, ListArrivesStays, ListFailsStays,
   HandleEventStays, ButtonsStay, BreakStays, RelinkStays DEF Center!ApprovalsNext

LEMMA CenterUnchanged == CenterInv /\ UNCHANGED approvalsVars => CenterInv'
<1> SUFFICES ASSUME CenterInv, UNCHANGED approvalsVars
             PROVE  CenterInv'
  OBVIOUS
<1>1. UNCHANGED <<waiting, coreLinked, told, lists, approvals, acting, respond, unlisted, unaware>>
  BY DEF approvalsVars
<1>2. \A r \in Asked : /\ Found(r)' <=> Found(r)
                       /\ ToldOf("request", r)' <=> ToldOf("request", r)
                       /\ ToldOf("result", r)' <=> ToldOf("result", r)
  BY <1>1, SameIsTold, SameIsFound
<1>3. CenterTypes' /\ RequestsFirst' /\ TakenIsResolved' /\ Center!ActingIsInFlight'
  BY <1>1 DEF CenterInv, CenterTypes, RequestsFirst, TakenIsResolved, Center!ActingIsInFlight
<1>4. KnownWasAsked' /\ ResolvedIsComing' /\ WaitingIsComing'
  BY <1>1, <1>2 DEF CenterInv, KnownWasAsked, ResolvedIsComing, WaitingIsComing, Center!Pending
<1> QED
  BY <1>3, <1>4 DEF CenterInv

LEMMA CenterIsKept == CenterInv => Center!WaitingIsShown /\ Center!ActingIsInFlight
<1> SUFFICES ASSUME CenterInv, Center!Quiet
             PROVE  /\ ~unlisted => Center!Pending \subseteq approvals
                    /\ approvals \ unaware \subseteq Center!Pending
  BY DEF CenterInv, Center!WaitingIsShown
<1>1. coreLinked /\ Len(told) = 0 /\ Len(lists) = 0
  BY DEF Center!Quiet
<1>2. \A t, r : ~ToldOf(t, r)
  BY <1>1 DEF ToldOf
<1>3. ~unlisted => Center!Pending \subseteq approvals
  BY <1>1, <1>2 DEF CenterInv, WaitingIsComing
<1>4. ASSUME NEW r \in approvals \ unaware
      PROVE  r \in Center!Pending
  <2>1. r \in Asked /\ waiting[r] # "unasked"
    BY DEF CenterInv, CenterTypes, KnownWasAsked
  <2>2. waiting[r] # "resolved"
    BY <1>2, <2>1 DEF CenterInv, ResolvedIsComing
  <2> QED
    BY <2>1, <2>2 DEF CenterInv, CenterTypes, Center!Pending
<1> QED
  BY <1>3, <1>4

-----------------------------------------------------------------------------
(* The directory picker *)

DirState ==
  [tree : [Files!Dirs -> {"unloaded", "listed", "error"}], fetching : [Files!Dirs -> Nat]]

Loaded(s, d) == s.tree[d] # "unloaded" \/ s.fetching[d] > 0

\* What is selected or expanded is loaded or being fetched, in the view or not.
PickerInv ==
  /\ Files!Known \in DirState
  /\ pickerCwd \in Files!Dirs
  /\ selected \in Files!Dirs \cup {Files!NoDir}
  /\ open => selected \in Files!Dirs /\ pickerExpanded \subseteq Files!Dirs
  /\ open => Loaded(Files!Known, selected) /\ \A d \in pickerExpanded : Loaded(Files!Known, d)

LEMMA DirChanged ==
  ASSUME NEW S, NEW T, NEW f \in [S -> T], NEW d \in S, NEW v \in T
  PROVE  /\ [f EXCEPT ![d] = v] \in [S -> T] /\ [f EXCEPT ![d] = v][d] = v
         /\ \A e \in S : e # d => [f EXCEPT ![d] = v][e] = f[e]
OBVIOUS

\* A fetch loads its directory, and unloads none.
LEMMA FetchLoads ==
  ASSUME NEW s \in DirState, NEW d \in Files!Dirs
  PROVE  /\ Files!Fetch(s, d) \in DirState
         /\ Loaded(Files!Fetch(s, d), d)
         /\ \A e \in Files!Dirs : Loaded(s, e) => Loaded(Files!Fetch(s, d), e)
<1>1. s.tree \in [Files!Dirs -> {"unloaded", "listed", "error"}] /\ s.fetching \in [Files!Dirs -> Nat]
  BY DEF DirState
<1>2. CASE pickerLinked
  <2> DEFINE g == [s.fetching EXCEPT ![d] = s.fetching[d] + 1]
  <2>1. g \in [Files!Dirs -> Nat] /\ g[d] = s.fetching[d] + 1 /\ \A e \in Files!Dirs : e # d => g[e] = s.fetching[e]
    BY <1>1
  <2>2. Files!Fetch(s, d) = [tree |-> s.tree, fetching |-> g]
    BY <1>2 DEF Files!Fetch, DirState
  <2> HIDE DEF g
  <2>3. Files!Fetch(s, d) \in DirState
    BY <1>1, <2>1, <2>2 DEF DirState
  <2>4. Files!Fetch(s, d).tree = s.tree /\ Files!Fetch(s, d).fetching = g
    BY <2>2
  <2>5. \A e \in Files!Dirs : s.fetching[e] \in Nat
    BY <1>1
  <2> QED
    BY <2>1, <2>3, <2>4, <2>5 DEF Loaded
<1>3. CASE ~pickerLinked
  <2> DEFINE g == [s.tree EXCEPT ![d] = "error"]
  <2>1. /\ g \in [Files!Dirs -> {"unloaded", "listed", "error"}] /\ g[d] = "error"
        /\ \A e \in Files!Dirs : e # d => g[e] = s.tree[e]
    BY <1>1
  <2>2. Files!Fetch(s, d) = [tree |-> g, fetching |-> s.fetching]
    BY <1>3 DEF Files!Fetch, DirState
  <2> HIDE DEF g
  <2>3. Files!Fetch(s, d) \in DirState
    BY <1>1, <2>1, <2>2 DEF DirState
  <2>4. Files!Fetch(s, d).tree = g /\ Files!Fetch(s, d).fetching = s.fetching
    BY <2>2
  <2> QED
    BY <2>1, <2>3, <2>4 DEF Loaded
<1> QED
  BY <1>2, <1>3

LEMMA AutoFetchLoads ==
  ASSUME NEW s \in DirState, NEW d \in Files!Dirs
  PROVE  /\ Files!AutoFetch(s, d) \in DirState
         /\ Loaded(Files!AutoFetch(s, d), d)
         /\ \A e \in Files!Dirs : Loaded(s, e) => Loaded(Files!AutoFetch(s, d), e)
<1>1. CASE d # Files!NoDir /\ s.tree[d] = "unloaded"
  BY <1>1, FetchLoads DEF Files!AutoFetch
<1>2. CASE ~(d # Files!NoDir /\ s.tree[d] = "unloaded")
  <2>1. d # Files!NoDir
    BY ConsoleBounds DEF Files!Dirs, Files!NoDir
  <2>2. Loaded(s, d)
    BY <1>2, <2>1 DEF Loaded
  <2>3. Files!AutoFetch(s, d) = s
    BY <1>2 DEF Files!AutoFetch
  <2> QED
    BY <2>2, <2>3
<1> QED
  BY <1>1, <1>2

LEMMA BecomeIs ==
  ASSUME NEW s \in DirState, Files!Become(s)
  PROVE  Files!Known' = s
BY DEF Files!Become, Files!Known, DirState

LEMMA PickerInitial ==
  ASSUME Files!PickerInit
  PROVE  PickerInv
<1>1. Files!Unloaded \in [Files!Dirs -> {"unloaded", "listed", "error"}]
  BY DEF Files!Unloaded
<1>2. Files!Known = [tree |-> Files!Unloaded, fetching |-> [d \in Files!Dirs |-> 0]]
  BY DEF Files!PickerInit, Files!Known
<1>3. Files!Known \in DirState
  BY <1>1, <1>2 DEF DirState
<1>4. pickerCwd \in Files!Dirs
  BY ConsoleBounds DEF Files!PickerInit, Files!Dirs
<1> QED
  BY <1>3, <1>4 DEF PickerInv, Files!PickerInit

\* The picker opens on a directory, or goes to it.
LEMMA OpenedStays ==
  ASSUME PickerInv, NEW d \in Files!Dirs, Files!Opened(d)
  PROVE  /\ Files!Known' \in DirState /\ selected' = d /\ pickerExpanded' = {d}
         /\ Loaded(Files!Known', d)
<1> DEFINE s == [Files!Known EXCEPT !.tree = Files!Unloaded]
<1>1. s \in DirState
  BY DEF PickerInv, DirState, Files!Unloaded
<1>2. selected' = d /\ pickerExpanded' = {d} /\ Files!Become(Files!AutoFetch(Files!Fetch(s, d), d))
  BY DEF Files!Opened
<1> HIDE DEF s
<1>3. Files!AutoFetch(Files!Fetch(s, d), d) \in DirState /\ Loaded(Files!AutoFetch(Files!Fetch(s, d), d), d)
  BY <1>1, FetchLoads, AutoFetchLoads
<1> QED
  BY <1>2, <1>3, BecomeIs

LEMMA OpenPickerStays ==
  ASSUME PickerInv, Files!OpenPicker \/ \E d \in Files!Dirs : Files!NavigateTo(d)
  PROVE  PickerInv'
<1>1. PICK d \in Files!Dirs : Files!Opened(d) /\ pickerCwd' = pickerCwd
  BY DEF Files!OpenPicker, Files!NavigateTo, PickerInv
<1>2. /\ Files!Known' \in DirState /\ selected' = d /\ pickerExpanded' = {d}
      /\ Loaded(Files!Known', d)
  BY <1>1, OpenedStays
<1> QED
  BY <1>1, <1>2 DEF PickerInv

LEMMA CloseStays ==
  ASSUME PickerInv, Files!Close
  PROVE  PickerInv'
<1>1. /\ open /\ ~open' /\ pickerCwd' \in {pickerCwd, selected} /\ Files!Known' = Files!Known
      /\ selected' = selected
  BY DEF Files!Close, Files!Known
<1> QED
  BY <1>1 DEF PickerInv

LEMMA SelectStays ==
  ASSUME PickerInv, NEW d \in Files!Dirs, Files!Select(d)
  PROVE  PickerInv'
<1>1. /\ open /\ open' = open /\ selected' = d /\ Files!Become(Files!AutoFetch(Files!Known, d))
      /\ pickerCwd' = pickerCwd /\ pickerExpanded' = pickerExpanded
  BY DEF Files!Select
<1>2. Files!Known' = Files!AutoFetch(Files!Known, d)
  BY <1>1, AutoFetchLoads, BecomeIs DEF PickerInv
<1>3. /\ Files!Known' \in DirState /\ Loaded(Files!Known', d)
      /\ \A e \in Files!Dirs : Loaded(Files!Known, e) => Loaded(Files!Known', e)
  BY <1>2, AutoFetchLoads DEF PickerInv
<1> QED
  BY <1>1, <1>3 DEF PickerInv

LEMMA PickerToggleStays ==
  ASSUME PickerInv, NEW d \in Files!Dirs, Files!PickerToggle(d)
  PROVE  PickerInv'
<1> DEFINE s == Files!AutoFetch(Files!Known, d)
<1>1. /\ open /\ open' = open /\ selected' = selected /\ Files!Become(Files!AutoFetch(s, selected))
      /\ pickerCwd' = pickerCwd
      /\ pickerExpanded' \subseteq pickerExpanded \cup {d}
  BY DEF Files!PickerToggle
<1>2. /\ s \in DirState /\ Loaded(s, d)
      /\ \A e \in Files!Dirs : Loaded(Files!Known, e) => Loaded(s, e)
  BY AutoFetchLoads DEF PickerInv
<1> HIDE DEF s
<1>3. selected \in Files!Dirs
  BY <1>1 DEF PickerInv
<1>4. /\ Files!AutoFetch(s, selected) \in DirState /\ Loaded(Files!AutoFetch(s, selected), selected)
      /\ \A e \in Files!Dirs : Loaded(s, e) => Loaded(Files!AutoFetch(s, selected), e)
  BY <1>2, <1>3, AutoFetchLoads
<1>5. Files!Known' = Files!AutoFetch(s, selected)
  BY <1>1, <1>4, BecomeIs
<1>6. \A e \in pickerExpanded' : e \in Files!Dirs /\ Loaded(Files!Known', e)
  BY <1>1, <1>2, <1>4, <1>5 DEF PickerInv
<1> QED
  BY <1>1, <1>3, <1>4, <1>5, <1>6 DEF PickerInv

LEMMA SettlesInTurn ==
  ASSUME NEW s, NEW d, NEW how
  PROVE  [s EXCEPT !.tree[d] = how, !.fetching[d] = @ - 1]
           = [[s EXCEPT !.tree[d] = how] EXCEPT !.fetching[d] = @ - 1]
OBVIOUS

\* A call that settles loads its directory, and unloads none.
Settled(s, d, how) == [s EXCEPT !.tree[d] = how, !.fetching[d] = @ - 1]

LEMMA SettlesLoads ==
  ASSUME NEW s \in DirState, NEW d \in Files!Dirs, NEW how \in {"listed", "error"}, s.fetching[d] > 0
  PROVE  /\ Settled(s, d, how) \in DirState
         /\ \A e \in Files!Dirs : Loaded(s, e) => Loaded(Settled(s, d, how), e)
<1> DEFINE f == [s.tree EXCEPT ![d] = how]
           g == [s.fetching EXCEPT ![d] = s.fetching[d] - 1]
           r == [s EXCEPT !.tree[d] = how]
<1>1. s.tree \in [Files!Dirs -> {"unloaded", "listed", "error"}] /\ s.fetching \in [Files!Dirs -> Nat]
  BY DEF DirState
<1>2. /\ f \in [Files!Dirs -> {"unloaded", "listed", "error"}] /\ f[d] = how
      /\ \A e \in Files!Dirs : e # d => f[e] = s.tree[e]
  BY <1>1
<1>3. g \in [Files!Dirs -> Nat] /\ \A e \in Files!Dirs : e # d => g[e] = s.fetching[e]
  BY <1>1
<1>4. r = [tree |-> f, fetching |-> s.fetching]
  BY DEF DirState
<1> HIDE DEF f
<1>5. r \in DirState /\ r.fetching = s.fetching
  BY <1>1, <1>2, <1>4 DEF DirState
<1>6. r.tree = f
  BY <1>4
<1> HIDE DEF r
<1>7. [r EXCEPT !.fetching[d] = @ - 1] = [tree |-> f, fetching |-> g]
  BY <1>5, <1>6 DEF DirState
<1> DEFINE q == [s EXCEPT !.tree[d] = how, !.fetching[d] = @ - 1]
<1>8. q = [tree |-> f, fetching |-> g]
  BY <1>7, SettlesInTurn DEF r
<1> HIDE DEF g, q
<1>9. q \in DirState /\ q.tree = f /\ q.fetching = g
  BY <1>2, <1>3, <1>8 DEF DirState
<1>10. \A e \in Files!Dirs : Loaded(s, e) => Loaded(q, e)
  BY <1>2, <1>3, <1>9 DEF Loaded
<1> QED
  BY <1>9, <1>10 DEF q, Settled

LEMMA ListingSettlesStays ==
  ASSUME PickerInv, NEW d \in Files!Dirs, NEW how \in {"listed", "error"}, Files!ListingSettles(d, how)
  PROVE  PickerInv'
<1> DEFINE s == Settled(Files!Known, d, how)
<1>1. /\ open' = open /\ selected' = selected /\ pickerCwd' = pickerCwd /\ pickerExpanded' = pickerExpanded
      /\ pickerFetching[d] > 0
      /\ Files!Become(Files!AutoFetch(s, selected))
  BY DEF Files!ListingSettles, Settled
<1>2. Files!Known \in DirState /\ Files!Known.fetching = pickerFetching
  BY DEF PickerInv, Files!Known
<1>3. s \in DirState /\ \A e \in Files!Dirs : Loaded(Files!Known, e) => Loaded(s, e)
  BY <1>1, <1>2, SettlesLoads
<1> HIDE DEF s
<1>4. CASE selected \in Files!Dirs
  <2>1. /\ Files!AutoFetch(s, selected) \in DirState
        /\ \A e \in Files!Dirs : Loaded(s, e) => Loaded(Files!AutoFetch(s, selected), e)
    BY <1>3, <1>4, AutoFetchLoads
  <2>2. Files!Known' = Files!AutoFetch(s, selected)
    BY <1>1, <2>1, BecomeIs
  <2> QED
    BY <1>1, <1>3, <2>1, <2>2 DEF PickerInv
<1>5. CASE selected \notin Files!Dirs
  <2>1. ~open /\ selected = Files!NoDir
    BY <1>5 DEF PickerInv
  <2>2. Files!AutoFetch(s, selected) = s
    BY <2>1 DEF Files!AutoFetch
  <2>3. Files!Known' = s
    BY <1>1, <1>3, <2>2, BecomeIs
  <2> QED
    BY <1>1, <1>3, <2>1, <2>3 DEF PickerInv
<1> QED
  BY <1>4, <1>5

LEMMA PickerUnchanged ==
  UNCHANGED <<open, pickerCwd, pickerTree, pickerExpanded, selected, pickerFetching>> /\ PickerInv => PickerInv'
BY DEF PickerInv, Files!Known, Loaded

LEMMA PickerStays ==
  ASSUME PickerInv, Files!PickerNext
  PROVE  PickerInv'
<1>1. CASE Files!PickerLinkChanges
  BY <1>1, PickerUnchanged DEF Files!PickerLinkChanges
<1> QED
  BY <1>1, OpenPickerStays, CloseStays, SelectStays, PickerToggleStays, ListingSettlesStays DEF Files!PickerNext

LEMMA PickerIsKept == PickerInv => Files!NeverLoadingForEver
BY DEF PickerInv, Loaded, Files!Known, Files!NeverLoadingForEver

-----------------------------------------------------------------------------
(* The file tree *)

TreeTypes ==
  /\ home \in [Nodes -> Folders] /\ target \in Nodes
  /\ cwd \in Folders \cup {NoFolder}
  /\ tree \in [Folders -> Nodes \cup {"unloaded", "error"}]
  /\ expanded \subseteq Folders \cup {NoFolder}
  /\ \A f \in fetching : f.of \in Folders /\ f.node \in Nodes
  /\ \A i \in info : i.node \in Nodes

Listed(d) == tree[d] # "unloaded" \/ \E f \in fetching : f.of = d

\* The working directory was fetched when it became so, or could not be.
TreeInv ==
  /\ TreeTypes
  /\ Files!ExpandedIsFetched
  /\ \A d \in Folders : d = cwd /\ d \notin unfetched => Listed(d)

LEMMA TreeInitial ==
  ASSUME Files!TreeInit
  PROVE  TreeInv
<1>1. /\ home \in [Nodes -> Folders] /\ target = (CHOOSE n \in Nodes : TRUE) /\ linked = FALSE
      /\ cwd = NoFolder /\ tree = [d \in Folders |-> "unloaded"] /\ expanded = {NoFolder}
      /\ fetching = {} /\ info = {}
  BY DEF Files!TreeInit
<1>2. target \in Nodes
  BY <1>1, ConsoleNames
<1>3. Files!Expanded = {NoFolder}
  BY <1>1 DEF Files!Expanded
<1> QED
  BY <1>1, <1>2, <1>3, ConsoleNames DEF TreeInv, TreeTypes, Files!ExpandedIsFetched

\* What is expanded now was expanded before or is fetched, and nothing is unloaded.
LEMMA TreeStaysIf ==
  ASSUME TreeInv, TreeTypes',
         \A d \in Folders : Listed(d) => Listed(d)',
         \A d \in Folders : d \in Files!Expanded' \cup {cwd'} /\ d \notin unfetched' =>
           \/ d \in Files!Expanded \cup {cwd} /\ d \notin unfetched
           \/ Listed(d)',
         linked' /\ cwd' # NoFolder /\ cwd' \notin toggled' => cwd' \in Files!Expanded'
  PROVE  TreeInv'
<1>1. ASSUME NEW d \in Folders, d \in Files!Expanded' \cup {cwd'}, d \notin unfetched'
      PROVE  Listed(d)'
  <2>1. CASE d \in Files!Expanded \ unfetched
    <3>1. d # NoFolder
      BY ConsoleNames
    <3> QED
      BY <2>1, <3>1 DEF TreeInv, Files!ExpandedIsFetched, Listed
  <2>2. CASE d = cwd /\ d \notin unfetched
    BY <2>2 DEF TreeInv
  <2> QED
    BY <1>1, <2>1, <2>2
<1>2. Files!Expanded' \subseteq Folders \cup {NoFolder}
  BY DEF TreeTypes, Files!Expanded
<1>3. Files!ExpandedIsFetched'
  BY <1>1, <1>2 DEF Files!ExpandedIsFetched, Listed
<1> QED
  BY <1>1, <1>3 DEF TreeInv

LEMMA ListedStays ==
  ASSUME tree' = tree, fetching \subseteq fetching', NEW d
  PROVE  Listed(d) => Listed(d)'
BY DEF Listed

LEMMA LinkStays ==
  ASSUME TreeInv, Files!Link
  PROVE  TreeInv'
<1> TreeTypes
  BY DEF TreeInv
<1>1. /\ linked' = TRUE /\ info' = {[node |-> target]} /\ UNCHANGED <<home, target, cwd, tree, toggled>>
      /\ unfetched' = unfetched \ {cwd}
  BY DEF Files!Link
<1>2. CASE cwd = NoFolder
  <2>1. fetching' = fetching /\ expanded' = expanded
    BY <1>2 DEF Files!Link
  <2>2. TreeTypes'
    BY <1>1, <2>1 DEF TreeTypes
  <2>3. Files!Expanded' = Files!Expanded /\ \A d \in Folders : d # cwd
    BY <1>1, <1>2, <2>1, ConsoleNames DEF Files!Expanded
  <2> QED
    BY <1>1, <1>2, <2>1, <2>2, <2>3, ListedStays, TreeStaysIf
<1>3. CASE cwd # NoFolder
  <2>1. PICK f : f = [of |-> cwd, node |-> target, at |-> treeMoves']
    OBVIOUS
  <2>2. fetching' = fetching \cup {f} /\ expanded' = (expanded \ {NoFolder}) \cup {cwd}
    BY <1>3, <2>1 DEF Files!Link
  <2>3. f.of = cwd /\ f.node = target
    BY <2>1
  <2>4. TreeTypes'
    BY <1>1, <1>3, <2>2, <2>3 DEF TreeTypes
  <2>5. Listed(cwd)'
    BY <1>1, <2>2, <2>3 DEF Listed
  <2>6. Files!Expanded' = expanded' /\ expanded \ {NoFolder} \subseteq Files!Expanded
    BY <1>3, <2>2 DEF Files!Expanded
  <2>7. \A d \in Folders : d \in Files!Expanded' \cup {cwd'} /\ d \notin unfetched' =>
          \/ d \in Files!Expanded \cup {cwd} /\ d \notin unfetched
          \/ Listed(d)'
    BY <1>1, <2>2, <2>5, <2>6
  <2>8. cwd' \in Files!Expanded'
    BY <1>1, <2>2, <2>6
  <2>9. \A d \in Folders : Listed(d) => Listed(d)'
    BY <1>1, <2>2, ListedStays
  <2> QED
    BY <2>4, <2>7, <2>8, <2>9, TreeStaysIf
<1> QED
  BY <1>2, <1>3

LEMMA RestStays ==
  ASSUME TreeInv, Files!Break \/ (\E n \in Nodes : Files!EnterNode(n)) \/ \E i \in info : Files!InfoFails(i)
  PROVE  TreeInv'
<1> TreeTypes
  BY DEF TreeInv
<1>1. /\ UNCHANGED <<home, cwd, tree, expanded, fetching, unfetched, toggled>>
      /\ linked' => linked
      /\ target' \in Nodes
      /\ \A i \in info' : i \in info \/ i = [node |-> target]
  BY DEF Files!Break, Files!EnterNode, Files!InfoFails, TreeTypes
<1>2. TreeTypes'
  BY <1>1 DEF TreeTypes
<1>3. Files!Expanded' = Files!Expanded
  BY <1>1 DEF Files!Expanded
<1>4. linked' /\ cwd' # NoFolder /\ cwd' \notin toggled' => cwd' \in Files!Expanded'
  BY <1>1, <1>3 DEF TreeInv, Files!ExpandedIsFetched
<1> QED
  BY <1>1, <1>2, <1>3, <1>4, ListedStays, TreeStaysIf

\* Another working directory is fetched, or cannot be.
LEMMA RootChangedStays ==
  ASSUME TreeInv, NEW d \in Folders, cwd' = d, Files!RootChanged(d), info' \subseteq info,
         UNCHANGED <<home, target, linked, tree, toggled>>
  PROVE  TreeInv'
<1> TreeTypes
  BY DEF TreeInv
<1>1. CASE linked
  <2>1. PICK f : f = [of |-> d, node |-> target, at |-> treeMoves]
    OBVIOUS
  <2>2. /\ fetching' = fetching \cup {f} /\ expanded' = (expanded \ {NoFolder}) \cup {d}
        /\ unfetched' = unfetched \ {d}
    BY <1>1, <2>1 DEF Files!RootChanged
  <2>3. f.of = d /\ f.node = target
    BY <2>1
  <2>4. TreeTypes'
    BY <2>2, <2>3 DEF TreeTypes
  <2>5. Listed(d)'
    BY <2>2, <2>3 DEF Listed
  <2>6. Files!Expanded' = expanded' /\ expanded \ {NoFolder} \subseteq Files!Expanded
    BY <2>2, ConsoleNames DEF Files!Expanded
  <2>7. \A e \in Folders : e \in Files!Expanded' \cup {cwd'} /\ e \notin unfetched' =>
          \/ e \in Files!Expanded \cup {cwd} /\ e \notin unfetched
          \/ Listed(e)'
    BY <2>2, <2>5, <2>6, ConsoleNames
  <2>8. cwd' \in Files!Expanded'
    BY <2>2, <2>6
  <2>9. \A e \in Folders : Listed(e) => Listed(e)'
    BY <2>2, ListedStays
  <2> QED
    BY <2>4, <2>7, <2>8, <2>9, TreeStaysIf
<1>2. CASE ~linked
  <2>1. fetching' = fetching /\ expanded' = expanded /\ unfetched' = unfetched \cup {d}
    BY <1>2 DEF Files!RootChanged
  <2>2. TreeTypes'
    BY <2>1 DEF TreeTypes
  <2>3. Files!Expanded' \subseteq Files!Expanded \cup {d}
    BY <2>1 DEF Files!Expanded
  <2>4. \A e \in Folders : Listed(e) => Listed(e)'
    BY <2>1, ListedStays
  <2> QED
    BY <1>2, <2>1, <2>2, <2>3, <2>4, TreeStaysIf
<1> QED
  BY <1>1, <1>2

LEMMA InfoArrivesStays ==
  ASSUME TreeInv, NEW i \in info, Files!InfoArrives(i)
  PROVE  TreeInv'
<1> TreeTypes
  BY DEF TreeInv
<1>1. /\ info' = {} /\ cwd' = home[i.node] /\ UNCHANGED <<home, target, linked, tree, toggled>>
  BY DEF Files!InfoArrives
<1>2. PICK d \in Folders : d = cwd'
  BY <1>1 DEF TreeTypes
<1>3. CASE cwd' # cwd
  <2>1. Files!RootChanged(d)
    BY <1>2, <1>3 DEF Files!InfoArrives
  <2> QED
    BY <1>1, <1>2, <2>1, RootChangedStays
<1>4. CASE cwd' = cwd
  <2>1. UNCHANGED <<fetching, expanded, unfetched>>
    BY <1>4 DEF Files!InfoArrives
  <2>2. TreeTypes'
    BY <1>1, <1>4, <2>1 DEF TreeTypes
  <2>3. Files!Expanded' = Files!Expanded
    BY <1>4, <2>1 DEF Files!Expanded
  <2>4. linked' /\ cwd' # NoFolder /\ cwd' \notin toggled' => cwd' \in Files!Expanded'
    BY <1>1, <1>4, <2>3 DEF TreeInv, Files!ExpandedIsFetched
  <2> QED
    BY <1>1, <1>4, <2>1, <2>2, <2>3, <2>4, ListedStays, TreeStaysIf
<1> QED
  BY <1>3, <1>4

LEMMA ChangeCwdStays ==
  ASSUME TreeInv, NEW d \in Folders, Files!ChangeCwd(d)
  PROVE  TreeInv'
BY RootChangedStays DEF Files!ChangeCwd

\* A directory that is expanded is fetched, or was while there was no link.
LEMMA FetchedIs ==
  ASSUME TreeInv, NEW d \in Folders, fetching' = Files!Fetched(d), unfetched' = Files!Missed(d), tree' = tree
  PROVE  /\ \A f \in fetching' : f \in fetching \/ (f.of = d /\ f.node = target)
         /\ \A e \in Folders : Listed(e) => Listed(e)'
         /\ \A e \in Folders : e \notin unfetched' => e \notin unfetched \/ Listed(e)'
         /\ d \notin unfetched' => Listed(d)'
<1>1. PICK f : f = [of |-> d, node |-> target, at |-> treeMoves']
  OBVIOUS
<1>2. f.of = d /\ f.node = target
  BY <1>1
<1>3. fetching' = IF linked THEN fetching \cup {f} ELSE fetching
  BY <1>1 DEF Files!Fetched
<1>4. unfetched' = IF linked THEN unfetched \ {d} ELSE unfetched \cup {d}
  BY DEF Files!Missed
<1>5. linked => Listed(d)'
  BY <1>2, <1>3 DEF Listed
<1>6. \A e \in Folders : Listed(e) => Listed(e)'
  BY <1>3, ListedStays
<1> QED
  BY <1>2, <1>3, <1>4, <1>5, <1>6

LEMMA NavigatePathStays ==
  ASSUME TreeInv, NEW d \in Folders, Files!NavigatePath(d)
  PROVE  TreeInv'
<1> TreeTypes
  BY DEF TreeInv
<1>1. /\ fetching' = Files!Fetched(d) /\ expanded' = {cwd, d} /\ unfetched' = Files!Missed(d)
      /\ toggled' = toggled \cup {cwd} /\ UNCHANGED <<home, target, linked, cwd, tree, info>>
  BY DEF Files!NavigatePath
<1>2. /\ \A f \in fetching' : f \in fetching \/ (f.of = d /\ f.node = target)
      /\ \A e \in Folders : Listed(e) => Listed(e)'
      /\ \A e \in Folders : e \notin unfetched' => e \notin unfetched \/ Listed(e)'
      /\ d \notin unfetched' => Listed(d)'
  BY <1>1, FetchedIs
<1>3. TreeTypes'
  BY <1>1, <1>2 DEF TreeTypes
<1>4. Files!Expanded' \subseteq {cwd, d}
  BY <1>1 DEF Files!Expanded
<1> QED
  BY <1>1, <1>2, <1>3, <1>4, TreeStaysIf

LEMMA ToggleDirStays ==
  ASSUME TreeInv, NEW d \in Folders, Files!ToggleDir(d)
  PROVE  TreeInv'
<1> TreeTypes
  BY DEF TreeInv
<1>1. toggled' = toggled \cup {d} /\ UNCHANGED <<home, target, linked, cwd, tree, info>>
  BY DEF Files!ToggleDir
<1>2. linked /\ cwd # NoFolder /\ cwd \notin toggled => cwd \in Files!Expanded
  BY DEF TreeInv, Files!ExpandedIsFetched
<1>3. Files!Expanded \subseteq Folders \cup {NoFolder}
  BY DEF TreeTypes, Files!Expanded
<1>4. CASE d \in Files!Expanded
  <2>1. expanded' = Files!Expanded \ {d} /\ fetching' = fetching /\ unfetched' = unfetched
    BY <1>4 DEF Files!ToggleDir
  <2>2. TreeTypes'
    BY <1>1, <1>3, <2>1 DEF TreeTypes
  <2>3. /\ Files!Expanded' \subseteq Files!Expanded \cup {cwd}
        /\ cwd \in Files!Expanded \ {d} => cwd \in Files!Expanded'
    BY <1>1, <2>1 DEF Files!Expanded
  <2>4. \A e \in Folders : Listed(e) => Listed(e)'
    BY <1>1, <2>1, ListedStays
  <2> QED
    BY <1>1, <1>2, <2>1, <2>2, <2>3, <2>4, TreeStaysIf
<1>5. CASE d \notin Files!Expanded
  <2>1. expanded' = Files!Expanded \cup {d} /\ fetching' = Files!Fetched(d) /\ unfetched' = Files!Missed(d)
    BY <1>5 DEF Files!ToggleDir
  <2>2. /\ \A f \in fetching' : f \in fetching \/ (f.of = d /\ f.node = target)
        /\ \A e \in Folders : Listed(e) => Listed(e)'
        /\ \A e \in Folders : e \notin unfetched' => e \notin unfetched \/ Listed(e)'
        /\ d \notin unfetched' => Listed(d)'
    BY <1>1, <2>1, FetchedIs
  <2>3. TreeTypes'
    BY <1>1, <1>3, <2>1, <2>2 DEF TreeTypes
  <2>4. Files!Expanded' = Files!Expanded \cup {d}
    <3>1. d \in expanded' /\ d # NoFolder
      BY <2>1, ConsoleNames
    <3>2. Files!Expanded' = expanded'
      BY <3>1 DEF Files!Expanded
    <3> QED
      BY <2>1, <3>2
  <2> QED
    BY <1>1, <1>2, <2>2, <2>3, <2>4, TreeStaysIf
<1> QED
  BY <1>4, <1>5

\* A call settles: its directory is listed, or an error.
LEMMA SettlesStays ==
  ASSUME TreeInv, NEW f \in fetching, NEW ok \in BOOLEAN, Files!Settles(f, ok)
  PROVE  TreeInv'
<1> TreeTypes
  BY DEF TreeInv
<1> PICK v \in Nodes \cup {"error"} : v = IF ok THEN f.node ELSE "error"
  BY DEF TreeTypes
<1>1. /\ fetching' = fetching \ {f} /\ tree' = [tree EXCEPT ![f.of] = v]
      /\ UNCHANGED <<home, target, linked, cwd, expanded, info, unfetched, toggled>>
  BY DEF Files!Settles
<1>2. f.of \in Folders /\ v # "unloaded"
  BY ConsoleNames DEF TreeTypes
<1>3. /\ tree' \in [Folders -> Nodes \cup {"unloaded", "error"}] /\ tree'[f.of] = v
      /\ \A d \in Folders : d # f.of => tree'[d] = tree[d]
  BY <1>1, <1>2 DEF TreeTypes
<1>4. TreeTypes'
  BY <1>1, <1>3 DEF TreeTypes
<1>5. ASSUME NEW d \in Folders, Listed(d)
      PROVE  Listed(d)'
  <2>1. CASE d = f.of
    BY <1>2, <1>3, <2>1 DEF Listed
  <2>2. CASE d # f.of
    BY <1>1, <1>3, <1>5, <2>2 DEF Listed
  <2> QED
    BY <2>1, <2>2
<1>6. Files!Expanded' = Files!Expanded
  BY <1>1 DEF Files!Expanded
<1>7. linked' /\ cwd' # NoFolder /\ cwd' \notin toggled' => cwd' \in Files!Expanded'
  BY <1>1, <1>6 DEF TreeInv, Files!ExpandedIsFetched
<1> QED
  BY <1>1, <1>4, <1>5, <1>6, <1>7, TreeStaysIf

LEMMA TreeStays ==
  ASSUME TreeInv, Files!TreeNext
  PROVE  TreeInv'
BY LinkStays, RestStays, InfoArrivesStays, ChangeCwdStays, NavigatePathStays, ToggleDirStays, SettlesStays
   DEF Files!TreeNext

LEMMA TreeUnchanged == TreeInv /\ UNCHANGED filesVars => TreeInv'
BY DEF TreeInv, TreeTypes, Listed, Files!ExpandedIsFetched, Files!Expanded, filesVars

-----------------------------------------------------------------------------
(* The input on a phone: the modifiers *)

ModInv ==
  /\ on \in [Mobile!Mods -> BOOLEAN] /\ age \in [Mobile!Mods -> Nat]
  /\ timers \in [Mobile!Mods -> SUBSET Int]
  /\ Mobile!ModifiersExpire

ModIsRight(m) == timers[m] = IF on[m] THEN {Mobile!Long - age[m]} ELSE {}

LEMMA ModInitial ==
  ASSUME Mobile!MobileInit
  PROVE  ModInv
<1>1. /\ on = [m \in Mobile!Mods |-> FALSE] /\ timers = [m \in Mobile!Mods |-> {}]
      /\ age = [m \in Mobile!Mods |-> 0]
  BY DEF Mobile!MobileInit, Mobile!None
<1> QED
  BY <1>1 DEF ModInv, Mobile!ModifiersExpire

LEMMA ModIs ==
  ASSUME on' \in [Mobile!Mods -> BOOLEAN], age' \in [Mobile!Mods -> Nat],
         timers' \in [Mobile!Mods -> SUBSET Int],
         \A m \in Mobile!Mods : ModIsRight(m)' /\ (on'[m] => enabled' # {})
  PROVE  ModInv'
BY DEF ModInv, Mobile!ModifiersExpire, ModIsRight

LEMMA ModUnchanged ==
  ASSUME ModInv, UNCHANGED <<on, timers, age>>, enabled # {} => enabled' # {}
  PROVE  ModInv'
BY DEF ModInv, Mobile!ModifiersExpire

LEMMA ClearedIs ==
  ASSUME Mobile!ClearModifiers
  PROVE  ModInv'
<1>1. /\ on' = [m \in Mobile!Mods |-> FALSE] /\ timers' = [m \in Mobile!Mods |-> {}]
      /\ age' = [m \in Mobile!Mods |-> 0]
  BY DEF Mobile!ClearModifiers, Mobile!None
<1> QED
  BY <1>1 DEF ModInv, Mobile!ModifiersExpire

LEMMA PressModifierIs ==
  ASSUME ModInv, NEW m \in Mobile!Mods, Mobile!PressModifier(m)
  PROVE  ModInv'
<1> on \in [Mobile!Mods -> BOOLEAN] /\ age \in [Mobile!Mods -> Nat] /\ timers \in [Mobile!Mods -> SUBSET Int]
  BY DEF ModInv
<1> PICK v \in BOOLEAN : v = ~on[m]
  OBVIOUS
<1> PICK s \in SUBSET Int : s = IF v THEN {Mobile!Long} ELSE {}
  <2>1. {Mobile!Long} \in SUBSET Int /\ {} \in SUBSET Int
    BY DEF Mobile!Long
  <2> QED
    BY <2>1, Zenon
<1>1. /\ enabled # {} /\ enabled' = enabled
      /\ on' = [on EXCEPT ![m] = v] /\ age' = [age EXCEPT ![m] = 0]
      /\ timers' = [timers EXCEPT ![m] = s]
  BY DEF Mobile!PressModifier, Mobile!SetOn, Mobile!ClearTimer
<1>2. /\ on' \in [Mobile!Mods -> BOOLEAN] /\ age' \in [Mobile!Mods -> Nat]
      /\ timers' \in [Mobile!Mods -> SUBSET Int]
  BY <1>1
<1>3. ASSUME NEW k \in Mobile!Mods
      PROVE  ModIsRight(k)'
  <2>1. CASE k = m
    <3>1. age'[k] = 0 /\ timers'[k] = s
      BY <1>1, <2>1
    <3>2. on'[k] <=> v
      BY <1>1, <2>1
    <3> QED
      BY <3>1, <3>2 DEF ModIsRight, Mobile!Long
  <2>2. CASE k # m
    <3>1. age'[k] = age[k] /\ timers'[k] = timers[k]
      BY <1>1, <2>2
    <3>2. on'[k] <=> on[k]
      BY <1>1, <2>2
    <3> QED
      BY <3>1, <3>2 DEF ModInv, ModIsRight, Mobile!ModifiersExpire
  <2> QED
    BY <2>1, <2>2
<1> QED
  BY <1>1, <1>2, <1>3, ModIs

LEMMA ConsumeIs ==
  ASSUME ModInv, NEW single \in BOOLEAN, Mobile!Consume(single)
  PROVE  ModInv'
<1> on \in [Mobile!Mods -> BOOLEAN] /\ age \in [Mobile!Mods -> Nat] /\ timers \in [Mobile!Mods -> SUBSET Int]
  BY DEF ModInv
<1> DEFINE used == {m \in Mobile!Mods : on[m] /\ (m = "alt" \/ single)}
<1>1. /\ enabled' = enabled
      /\ on' = [m \in Mobile!Mods |-> on[m] /\ m \notin used]
      /\ timers' = [m \in Mobile!Mods |-> IF m \in used THEN {} ELSE timers[m]]
      /\ age' = [m \in Mobile!Mods |-> IF m \in used THEN 0 ELSE age[m]]
  BY DEF Mobile!Consume, Mobile!ClearTimer
<1> HIDE DEF used
<1>2. /\ on' \in [Mobile!Mods -> BOOLEAN] /\ age' \in [Mobile!Mods -> Nat]
      /\ timers' \in [Mobile!Mods -> SUBSET Int]
  BY <1>1
<1>3. ASSUME NEW m \in Mobile!Mods
      PROVE  ModIsRight(m)' /\ (on'[m] => enabled' # {})
  <2>1. /\ timers'[m] = IF m \in used THEN {} ELSE timers[m]
        /\ age'[m] = IF m \in used THEN 0 ELSE age[m]
    BY <1>1
  <2>2. on'[m] <=> on[m] /\ m \notin used
    BY <1>1
  <2> QED
    BY <1>1, <2>1, <2>2 DEF ModInv, ModIsRight, Mobile!ModifiersExpire
<1> QED
  BY <1>2, <1>3, ModIs

LEMMA TickIs ==
  ASSUME ModInv, Mobile!Tick
  PROVE  ModInv'
<1> on \in [Mobile!Mods -> BOOLEAN] /\ age \in [Mobile!Mods -> Nat] /\ timers \in [Mobile!Mods -> SUBSET Int]
  BY DEF ModInv
<1>1. /\ enabled' = enabled
      /\ on' = [m \in Mobile!Mods |-> on[m] /\ 1 \notin timers[m]]
      /\ timers' = [m \in Mobile!Mods |-> {n - 1 : n \in timers[m] \ {1}}]
      /\ age' = [m \in Mobile!Mods |-> IF on'[m] THEN age[m] + 1 ELSE 0]
  BY DEF Mobile!Tick
<1>2. on' \in [Mobile!Mods -> BOOLEAN]
  BY <1>1
<1>3. age' \in [Mobile!Mods -> Nat]
  BY <1>1
<1>4. timers' \in [Mobile!Mods -> SUBSET Int]
  BY <1>1
<1>5. ASSUME NEW m \in Mobile!Mods
      PROVE  ModIsRight(m)' /\ (on'[m] => enabled' # {})
  <2>1. timers'[m] = {n - 1 : n \in timers[m] \ {1}}
    BY <1>1
  <2>2. age'[m] = IF on'[m] THEN age[m] + 1 ELSE 0
    BY <1>1
  <2>3. on'[m] <=> on[m] /\ 1 \notin timers[m]
    BY <1>1
  <2>4. timers[m] = IF on[m] THEN {2 - age[m]} ELSE {}
    BY DEF ModInv, Mobile!ModifiersExpire, Mobile!Long
  <2>5. CASE on'[m]
    <3>1. timers[m] \ {1} = {2 - age[m]} /\ age[m] \in Nat
      BY <2>3, <2>4, <2>5
    <3>2. timers'[m] = {2 - (age[m] + 1)}
      BY <2>1, <3>1
    <3> QED
      BY <1>1, <2>2, <2>3, <2>5, <3>2 DEF ModIsRight, Mobile!Long, ModInv, Mobile!ModifiersExpire
  <2>6. CASE ~on'[m]
    <3>1. timers[m] \ {1} = {}
      BY <2>3, <2>4, <2>6
    <3> QED
      BY <2>1, <2>6, <3>1 DEF ModIsRight
  <2> QED
    BY <2>5, <2>6
<1> QED
  BY <1>2, <1>3, <1>4, <1>5, ModIs

LEMMA FocusedKeepsMods ==
  ASSUME ModInv, NEW t, Mobile!Focused(t), UNCHANGED <<on, timers, age>>
  PROVE  ModInv'
BY ModUnchanged DEF Mobile!Focused

LEMMA ModStays ==
  ASSUME ModInv, Mobile!MobileNext
  PROVE  ModInv'
<1>1. CASE \E t \in Terminals : Mobile!FocusOut(t)
  <2>1. \/ enabled' = enabled /\ UNCHANGED <<on, timers, age>>
        \/ Mobile!ClearModifiers
    BY <1>1 DEF Mobile!FocusOut, Mobile!modVars
  <2> QED
    BY <2>1, ModUnchanged, ClearedIs
<1>2. CASE Mobile!Elsewhere \/ Mobile!TouchEnd \/ Mobile!Sync
  <2>1. /\ UNCHANGED <<on, timers, age>>
        /\ enabled' = enabled \/ \E t : Mobile!Focused(t)
    BY <1>2 DEF Mobile!Elsewhere, Mobile!TouchEnd, Mobile!Sync, Mobile!Blur, Mobile!modVars
  <2> QED
    BY <2>1, ModUnchanged, FocusedKeepsMods
<1>3. CASE \/ Mobile!TouchCancel \/ Mobile!Call \/ Mobile!Dismiss
           \/ \E t \in Terminals, y \in 0..Mobile!Tall, s \in BOOLEAN : Mobile!TouchStart(t, y, s)
           \/ \E y \in 0..Mobile!Tall : Mobile!TouchMove(y)
           \/ \E f \in {"h", "off"} : Mobile!Moves(f)
  <2>1. ASSUME Mobile!TouchCancel \/ Mobile!Call \/ Mobile!Dismiss
        PROVE  enabled' = enabled /\ UNCHANGED Mobile!modVars
    BY <2>1 DEF Mobile!TouchCancel, Mobile!Call, Mobile!Dismiss
  <2>2. ASSUME NEW t \in Terminals, NEW y \in 0..Mobile!Tall, NEW s \in BOOLEAN, Mobile!TouchStart(t, y, s)
        PROVE  enabled' = enabled /\ UNCHANGED Mobile!modVars
    BY <2>2 DEF Mobile!TouchStart
  <2>3. ASSUME NEW y \in 0..Mobile!Tall, Mobile!TouchMove(y)
        PROVE  enabled' = enabled /\ UNCHANGED Mobile!modVars
    BY <2>3 DEF Mobile!TouchMove
  <2>4. ASSUME NEW f \in {"h", "off"}, Mobile!Moves(f)
        PROVE  enabled' = enabled /\ UNCHANGED Mobile!modVars
    BY <2>4 DEF Mobile!Moves
  <2>5. enabled' = enabled /\ UNCHANGED Mobile!modVars
    BY <1>3, <2>1, <2>2, <2>3, <2>4
  <2> QED
    BY <2>5, ModUnchanged DEF Mobile!modVars
<1> QED
  BY <1>1, <1>2, <1>3, PressModifierIs, ConsumeIs, TickIs DEF Mobile!MobileNext

-----------------------------------------------------------------------------
(* The input on a phone: the touches *)

TouchTypes ==
  /\ gesture \in [state : {"idle", "pending", "scrolling", "scrollbar-drag"}, startY : Int, applied : Int]
  /\ touch \in [at : Terminals \cup {NoTerminal}, fingers : 0..2, startY : Int, y : Int, taps : Nat, lines : Int]

\* While a touch may still be a tap it was none and scrolled nothing; while it
\* scrolls it was no tap, and has scrolled what was applied.
TouchInv ==
  /\ TouchTypes
  /\ Mobile!OneGesture
  /\ gesture.state \in {"pending", "scrollbar-drag"} => touch.taps = 0 /\ touch.lines = 0
  /\ gesture.state = "pending" => gesture.applied = 0 /\ gesture.startY = touch.startY
  /\ gesture.state = "scrolling" =>
       /\ touch.taps = 0 /\ gesture.startY = touch.startY
       /\ touch.lines = gesture.applied /\ touch.lines = Mobile!Round(touch.startY - touch.y)

LEMMA IdleIs ==
  /\ Mobile!Idle = [state |-> "idle", startY |-> 0, applied |-> 0]
  /\ Mobile!Idle \in [state : {"idle", "pending", "scrolling", "scrollbar-drag"}, startY : Int, applied : Int]
  /\ Mobile!Idle.state = "idle"
BY DEF Mobile!Idle

LEMMA RoundIsInt == ASSUME NEW px \in Int PROVE Mobile!Round(px) \in Int
BY DEF Mobile!Round

LEMMA TouchInitial ==
  ASSUME Mobile!MobileInit
  PROVE  TouchInv
<1>1. gesture = Mobile!Idle /\ touch = Mobile!NoTouch
  BY DEF Mobile!MobileInit
<1>2. touch = [at |-> NoTerminal, fingers |-> 0, startY |-> 0, y |-> 0, taps |-> 0, lines |-> 0]
  BY <1>1 DEF Mobile!NoTouch
<1>3. TouchTypes
  BY <1>1, <1>2, IdleIs DEF TouchTypes
<1> QED
  BY <1>1, <1>2, <1>3, IdleIs DEF TouchInv, Mobile!OneGesture

LEMMA TouchStartStays ==
  ASSUME TouchInv, NEW t \in Terminals, NEW y \in 0..Mobile!Tall, NEW s \in BOOLEAN, Mobile!TouchStart(t, y, s)
  PROVE  TouchInv'
<1> TouchTypes
  BY DEF TouchInv
<1> y \in Int
  BY DEF Mobile!Tall
<1>1. CASE touch.fingers = 0
  <2>1. touch' = [at |-> t, fingers |-> 1, startY |-> y, y |-> y, taps |-> 0, lines |-> 0]
    BY <1>1 DEF Mobile!TouchStart
  <2>2. /\ gesture' \in [state : {"idle", "pending", "scrolling", "scrollbar-drag"}, startY : Int, applied : Int]
        /\ \/ gesture'.state = "scrollbar-drag"
           \/ gesture'.state = "pending" /\ gesture'.startY = y /\ gesture'.applied = 0
    <3>1. \/ gesture' = [Mobile!Idle EXCEPT !.state = "scrollbar-drag"]
          \/ gesture' = [Mobile!Idle EXCEPT !.state = "pending", !.startY = y]
      BY <1>1 DEF Mobile!TouchStart
    <3>2. PICK g \in [state : {"idle", "pending", "scrolling", "scrollbar-drag"}, startY : Int, applied : Int] :
            g = Mobile!Idle
      BY IdleIs
    <3>3. g.applied = 0
      BY <3>2 DEF Mobile!Idle
    <3> QED
      BY <3>1, <3>2, <3>3
  <2>3. TouchTypes'
    BY <2>1, <2>2 DEF TouchTypes
  <2> QED
    BY <2>1, <2>2, <2>3 DEF TouchInv, Mobile!OneGesture
<1>2. CASE touch.fingers # 0
  <2>1. touch.fingers = 1 /\ touch' = [touch EXCEPT !.fingers = 2] /\ gesture' = gesture
    BY <1>2 DEF Mobile!TouchStart, TouchTypes
  <2>2. /\ touch'.fingers = 2 /\ touch'.startY = touch.startY /\ touch'.y = touch.y
        /\ touch'.taps = touch.taps /\ touch'.lines = touch.lines
    BY <2>1 DEF TouchTypes
  <2>3. TouchTypes'
    BY <2>1 DEF TouchTypes
  <2> QED
    BY <2>1, <2>2, <2>3 DEF TouchInv, Mobile!OneGesture
<1> QED
  BY <1>1, <1>2

LEMMA TouchMoveStays ==
  ASSUME TouchInv, NEW y \in 0..Mobile!Tall, Mobile!TouchMove(y)
  PROVE  TouchInv'
<1> TouchTypes
  BY DEF TouchInv
<1> y \in Int
  BY DEF Mobile!Tall
<1> DEFINE total == Mobile!Round(gesture.startY - y)
<1>1. \/ /\ gesture.state # "scrolling"
         /\ touch' = [touch EXCEPT !.y = y] /\ gesture' = gesture
      \/ touch' = [touch EXCEPT !.y = y] /\ gesture' = Mobile!Idle
      \/ /\ gesture.state \in {"pending", "scrolling"}
         /\ touch' = [touch EXCEPT !.y = y, !.lines = @ + Mobile!FrameDelta(total)]
         /\ gesture' = [gesture EXCEPT !.state = "scrolling", !.applied = total]
  BY DEF Mobile!TouchMove, TouchTypes
<1>2. total \in Int
  BY RoundIsInt DEF TouchTypes
<1> HIDE DEF total
<1>3. CASE gesture.state # "scrolling" /\ touch' = [touch EXCEPT !.y = y] /\ gesture' = gesture
  <2>1. /\ touch'.startY = touch.startY /\ touch'.taps = touch.taps /\ touch'.lines = touch.lines
    BY <1>3 DEF TouchTypes
  <2>2. TouchTypes'
    BY <1>3 DEF TouchTypes
  <2> QED
    BY <1>3, <2>1, <2>2 DEF TouchInv, Mobile!OneGesture
<1>4. CASE touch' = [touch EXCEPT !.y = y] /\ gesture' = Mobile!Idle
  <2>1. /\ touch'.startY = touch.startY /\ touch'.taps = touch.taps /\ touch'.lines = touch.lines
    BY <1>4 DEF TouchTypes
  <2>2. TouchTypes'
    BY <1>4, IdleIs DEF TouchTypes
  <2> QED
    BY <1>4, <2>1, <2>2, IdleIs DEF TouchInv, Mobile!OneGesture
<1>5. CASE /\ gesture.state \in {"pending", "scrolling"}
           /\ touch' = [touch EXCEPT !.y = y, !.lines = @ + Mobile!FrameDelta(total)]
           /\ gesture' = [gesture EXCEPT !.state = "scrolling", !.applied = total]
  <2>1. /\ gesture.startY = touch.startY /\ touch.lines = gesture.applied /\ touch.taps = 0
        /\ gesture.applied \in Int /\ touch.startY \in Int
    BY <1>5 DEF TouchInv, TouchTypes
  <2>2. touch.lines + Mobile!FrameDelta(total) = total
    BY <1>2, <2>1 DEF Mobile!FrameDelta
  <2>3. /\ touch'.startY = touch.startY /\ touch'.taps = 0 /\ touch'.lines = total /\ touch'.y = y
        /\ gesture'.state = "scrolling" /\ gesture'.applied = total /\ gesture'.startY = gesture.startY
    BY <1>5, <2>1, <2>2 DEF TouchTypes
  <2>4. TouchTypes'
    BY <1>2, <1>5, <2>2 DEF TouchTypes
  <2>5. total = Mobile!Round(touch'.startY - touch'.y)
    BY <2>1, <2>3 DEF total
  <2> QED
    BY <1>2, <2>1, <2>3, <2>4, <2>5 DEF TouchInv, Mobile!OneGesture
<1> QED
  BY <1>1, <1>3, <1>4, <1>5

LEMMA TouchEndStays ==
  ASSUME TouchInv, Mobile!TouchEnd \/ Mobile!TouchCancel
  PROVE  TouchInv'
<1> TouchTypes
  BY DEF TouchInv
<1>1. CASE Mobile!TouchEnd
  <2> PICK n \in Nat : n = IF gesture.state = "pending" THEN touch.taps + 1 ELSE touch.taps
    BY DEF TouchTypes
  <2>1. /\ touch.fingers > 0 /\ gesture' = Mobile!Idle
        /\ touch' = [touch EXCEPT !.fingers = @ - 1, !.taps = n]
    BY <1>1 DEF Mobile!TouchEnd
  <2>2. touch'.taps = n /\ touch'.lines = touch.lines
    BY <2>1 DEF TouchTypes
  <2>3. touch.fingers - 1 \in 0..2
    BY <2>1 DEF TouchTypes
  <2>4. TouchTypes'
    BY <2>1, <2>3, IdleIs DEF TouchTypes
  <2>5. n + (IF touch.lines # 0 THEN 1 ELSE 0) <= 1
    BY DEF TouchInv, Mobile!OneGesture
  <2> QED
    BY <2>1, <2>2, <2>4, <2>5, IdleIs DEF TouchInv, Mobile!OneGesture
<1>2. CASE Mobile!TouchCancel
  <2>1. /\ gesture' = Mobile!Idle
        /\ touch' = [at |-> NoTerminal, fingers |-> 0, startY |-> 0, y |-> 0, taps |-> 0, lines |-> 0]
    BY <1>2 DEF Mobile!TouchCancel, Mobile!NoTouch
  <2>2. TouchTypes'
    BY <2>1, IdleIs DEF TouchTypes
  <2> QED
    BY <2>1, <2>2, IdleIs DEF TouchInv, Mobile!OneGesture
<1> QED
  BY <1>1, <1>2

LEMMA TouchUnchanged ==
  ASSUME TouchInv, UNCHANGED <<gesture, touch>>
  PROVE  TouchInv'
BY DEF TouchInv, TouchTypes, Mobile!OneGesture

LEMMA TouchStays ==
  ASSUME TouchInv, Mobile!MobileNext
  PROVE  TouchInv'
<1>1. CASE \/ Mobile!Elsewhere \/ Mobile!Tick \/ Mobile!Call \/ Mobile!Dismiss \/ Mobile!Sync
           \/ \E t \in Terminals : Mobile!FocusOut(t)
           \/ \E m \in Mobile!Mods : Mobile!PressModifier(m)
           \/ \E single \in BOOLEAN : Mobile!Consume(single)
           \/ \E f \in {"h", "off"} : Mobile!Moves(f)
  <2>1. ASSUME Mobile!Elsewhere \/ Mobile!Tick \/ Mobile!Call \/ Mobile!Dismiss \/ Mobile!Sync
        PROVE  UNCHANGED <<gesture, touch>>
    BY <2>1 DEF Mobile!Elsewhere, Mobile!Tick, Mobile!Call, Mobile!Dismiss, Mobile!Sync
  <2>2. ASSUME NEW t \in Terminals, Mobile!FocusOut(t)
        PROVE  UNCHANGED <<gesture, touch>>
    BY <2>2 DEF Mobile!FocusOut
  <2>3. ASSUME NEW m \in Mobile!Mods, Mobile!PressModifier(m)
        PROVE  UNCHANGED <<gesture, touch>>
    BY <2>3 DEF Mobile!PressModifier
  <2>4. ASSUME NEW single \in BOOLEAN, Mobile!Consume(single)
        PROVE  UNCHANGED <<gesture, touch>>
    BY <2>4 DEF Mobile!Consume
  <2>5. ASSUME NEW f \in {"h", "off"}, Mobile!Moves(f)
        PROVE  UNCHANGED <<gesture, touch>>
    BY <2>5 DEF Mobile!Moves
  <2> QED
    BY <1>1, <2>1, <2>2, <2>3, <2>4, <2>5, TouchUnchanged
<1> QED
  BY <1>1, TouchStartStays, TouchMoveStays, TouchEndStays DEF Mobile!MobileNext

-----------------------------------------------------------------------------
(* The input on a phone: the system's keyboard *)

KeyboardTypes ==
  /\ viewport \in [h : 0..2, off : 0..2]
  /\ detected \in [baseline : Nat, visible : BOOLEAN, opened : BOOLEAN, pushed : BOOLEAN]
  /\ keyboard \in BOOLEAN /\ dismissed \in BOOLEAN

\* What the last look at the viewport as it is found, and that a keyboard the
\* user closed is still seen or has left no focus behind.
KeyboardInv ==
  /\ KeyboardTypes
  /\ synced /\ detected.visible => viewport.h > detected.baseline
  /\ synced /\ detected.baseline = 0 /\ viewport.h = 2 /\ viewport.off = 2 => detected.visible
  /\ dismissed => ~keyboard /\ (detected.visible \/ focus = NoTerminal)

LEMMA RestIs ==
  /\ keyboard => Mobile!Rest.h = 2 /\ (mode = "push" => Mobile!Rest.off = 2)
  /\ ~keyboard => Mobile!Rest.h = 0
  /\ Mobile!Rest \in [h : 0..2, off : 0..2]
<1>1. CASE keyboard
  <2>1. PICK n \in 0..2 : n = IF mode = "push" THEN 2 ELSE 0
    OBVIOUS
  <2>2. Mobile!Rest = [h |-> 2, off |-> n]
    BY <1>1, <2>1 DEF Mobile!Rest, Mobile!Raised
  <2> QED
    BY <1>1, <2>1, <2>2
<1>2. CASE ~keyboard
  <2>1. Mobile!Rest = [h |-> 0, off |-> 0]
    BY <1>2 DEF Mobile!Rest, Mobile!Lowered
  <2> QED
    BY <1>2, <2>1
<1> QED
  BY <1>1, <1>2

LEMMA KeyboardInitial ==
  ASSUME Mobile!MobileInit
  PROVE  KeyboardInv
<1>1. /\ viewport = Mobile!Rest /\ keyboard \in BOOLEAN /\ dismissed = FALSE
      /\ detected = [baseline |-> viewport.h, visible |-> FALSE, opened |-> FALSE, pushed |-> viewport.off = 2]
  BY DEF Mobile!MobileInit, Mobile!Rest
<1>2. viewport \in [h : 0..2, off : 0..2]
  BY <1>1, RestIs
<1>3. viewport.h \in Nat /\ (viewport.off = 2) \in BOOLEAN
  BY <1>2
<1>4. detected \in [baseline : Nat, visible : BOOLEAN, opened : BOOLEAN, pushed : BOOLEAN]
  BY <1>1, <1>3
<1>5. detected.baseline = viewport.h
  BY <1>1
<1>6. ~detected.visible
  BY <1>1
<1>7. ~(detected.baseline = 0 /\ viewport.h = 2)
  BY <1>5
<1>8. KeyboardTypes
  BY <1>1, <1>2, <1>4 DEF KeyboardTypes
<1> QED
  BY <1>1, <1>6, <1>7, <1>8 DEF KeyboardInv

LEMMA KeyboardUnchanged ==
  ASSUME KeyboardInv, UNCHANGED <<viewport, detected, synced>>,
         keyboard' \in BOOLEAN, dismissed' \in BOOLEAN,
         dismissed' => ~keyboard' /\ (detected.visible \/ focus' = NoTerminal)
  PROVE  KeyboardInv'
BY DEF KeyboardInv, KeyboardTypes

LEMMA MovesStay ==
  ASSUME KeyboardInv, NEW f \in {"h", "off"}, Mobile!Moves(f)
  PROVE  KeyboardInv'
<1>1. /\ viewport' = [viewport EXCEPT ![f] = Mobile!Toward(@, Mobile!Rest[f])] /\ synced' = FALSE
      /\ UNCHANGED <<focus, keyboard, detected, dismissed>>
  BY DEF Mobile!Moves
<1>2. viewport[f] \in 0..2 /\ Mobile!Rest[f] \in 0..2
  <2>1. viewport.h \in 0..2 /\ viewport.off \in 0..2 /\ Mobile!Rest.h \in 0..2 /\ Mobile!Rest.off \in 0..2
    BY RestIs DEF KeyboardInv, KeyboardTypes
  <2> QED
    BY <2>1
<1>3. Mobile!Toward(viewport[f], Mobile!Rest[f]) \in 0..2
  BY <1>2 DEF Mobile!Toward
<1>4. viewport' \in [h : 0..2, off : 0..2]
  BY <1>1, <1>3 DEF KeyboardInv, KeyboardTypes
<1> QED
  BY <1>1, <1>4 DEF KeyboardInv, KeyboardTypes

LEMMA SyncStays ==
  ASSUME KeyboardInv, Mobile!Sync
  PROVE  KeyboardInv'
<1> KeyboardTypes
  BY DEF KeyboardInv
<1> DEFINE h == viewport.h - detected.baseline
<1> PICK v \in BOOLEAN : v = Mobile!Visible(h)
  BY DEF Mobile!Visible, KeyboardTypes
<1>1. /\ detected' = [detected EXCEPT !.visible = v, !.opened = @ \/ v, !.pushed = @ \/ viewport.off = 2]
      /\ UNCHANGED <<keyboard, viewport, dismissed>>
      /\ IF detected.visible /\ ~v THEN Mobile!Focused(NoTerminal) ELSE focus' = focus
  BY DEF Mobile!Sync, Mobile!Blur
<1>2. /\ detected.opened \in BOOLEAN /\ detected.pushed \in BOOLEAN /\ detected.visible \in BOOLEAN
      /\ detected.baseline \in Nat /\ viewport.h \in 0..2
  BY DEF KeyboardTypes
<1>3. (detected.opened \/ v) \in BOOLEAN /\ (detected.pushed \/ viewport.off = 2) \in BOOLEAN
  BY <1>2
<1>4. detected' \in [baseline : Nat, visible : BOOLEAN, opened : BOOLEAN, pushed : BOOLEAN]
  BY <1>1, <1>3 DEF KeyboardTypes
<1>5. detected'.baseline = detected.baseline
  BY <1>1 DEF KeyboardTypes
<1>6. detected'.visible <=> v
  BY <1>1 DEF KeyboardTypes
<1>7. /\ detected.visible => (v <=> h > 0 /\ ~(detected.pushed /\ viewport.off = 0))
      /\ ~detected.visible => (v <=> h = 2 /\ (viewport.off = 2 \/ ~detected.opened))
  BY DEF Mobile!Visible
<1>8. /\ v => viewport.h > detected.baseline
      /\ detected.baseline = 0 /\ viewport.h = 2 /\ viewport.off = 2 => v
  BY <1>2, <1>7
<1>9. detected.visible /\ ~v => focus' = NoTerminal
  BY <1>1 DEF Mobile!Focused
<1>10. ~(detected.visible /\ ~v) => focus' = focus
  BY <1>1
<1>11. dismissed => ~keyboard /\ (v \/ focus' = NoTerminal)
  BY <1>9, <1>10 DEF KeyboardInv
<1> QED
  BY <1>1, <1>4, <1>5, <1>6, <1>7, <1>8, <1>11 DEF KeyboardInv, KeyboardTypes

LEMMA KeyboardStays ==
  ASSUME KeyboardInv, Mobile!MobileNext
  PROVE  KeyboardInv'
<1> KeyboardTypes
  BY DEF KeyboardInv
<1>1. detected.visible \in BOOLEAN
  BY DEF KeyboardTypes
<1>2. CASE Mobile!Elsewhere \/ Mobile!TouchEnd
  <2>1. /\ UNCHANGED <<viewport, detected, synced, keyboard>>
        /\ dismissed' = FALSE \/ (dismissed' = dismissed /\ focus' = focus)
    BY <1>2 DEF Mobile!Elsewhere, Mobile!TouchEnd, Mobile!sysVars
  <2>2. dismissed' => ~keyboard' /\ (detected.visible \/ focus' = NoTerminal)
    BY <2>1 DEF KeyboardInv
  <2>3. dismissed' \in BOOLEAN /\ keyboard' \in BOOLEAN
    BY <2>1 DEF KeyboardTypes
  <2> QED
    BY <2>1, <2>2, <2>3, KeyboardUnchanged
<1>3. CASE Mobile!Call
  <2>1. UNCHANGED <<viewport, detected, synced>> /\ keyboard' = ~keyboard /\ dismissed' = FALSE
    BY <1>3 DEF Mobile!Call
  <2> QED
    BY <2>1, KeyboardUnchanged
<1>4. CASE Mobile!Dismiss
  <2>1. UNCHANGED <<viewport, detected, synced>> /\ keyboard' = FALSE /\ dismissed' = detected.visible
    BY <1>4 DEF Mobile!Dismiss
  <2> QED
    BY <1>1, <2>1, KeyboardUnchanged
<1>5. ASSUME \/ Mobile!Tick \/ Mobile!TouchCancel
             \/ \E t \in Terminals : Mobile!FocusOut(t)
             \/ \E t \in Terminals, y \in 0..Mobile!Tall, s \in BOOLEAN : Mobile!TouchStart(t, y, s)
             \/ \E y \in 0..Mobile!Tall : Mobile!TouchMove(y)
             \/ \E m \in Mobile!Mods : Mobile!PressModifier(m)
             \/ \E single \in BOOLEAN : Mobile!Consume(single)
      PROVE  UNCHANGED <<viewport, detected, synced, keyboard, dismissed, focus>>
  <2>1. ASSUME Mobile!Tick \/ Mobile!TouchCancel
        PROVE  UNCHANGED <<Mobile!sysVars, dismissed, focus>>
    BY <2>1 DEF Mobile!Tick, Mobile!TouchCancel
  <2>2. ASSUME NEW t \in Terminals, Mobile!FocusOut(t)
        PROVE  UNCHANGED <<Mobile!sysVars, dismissed, focus>>
    BY <2>2 DEF Mobile!FocusOut
  <2>3. ASSUME NEW t \in Terminals, NEW y \in 0..Mobile!Tall, NEW s \in BOOLEAN, Mobile!TouchStart(t, y, s)
        PROVE  UNCHANGED <<Mobile!sysVars, dismissed, focus>>
    BY <2>3 DEF Mobile!TouchStart
  <2>4. ASSUME NEW y \in 0..Mobile!Tall, Mobile!TouchMove(y)
        PROVE  UNCHANGED <<Mobile!sysVars, dismissed, focus>>
    BY <2>4 DEF Mobile!TouchMove
  <2>5. ASSUME NEW m \in Mobile!Mods, Mobile!PressModifier(m)
        PROVE  UNCHANGED <<Mobile!sysVars, dismissed, focus>>
    BY <2>5 DEF Mobile!PressModifier
  <2>6. ASSUME NEW single \in BOOLEAN, Mobile!Consume(single)
        PROVE  UNCHANGED <<Mobile!sysVars, dismissed, focus>>
    BY <2>6 DEF Mobile!Consume
  <2> QED
    BY <1>5, <2>1, <2>2, <2>3, <2>4, <2>5, <2>6 DEF Mobile!sysVars
<1>6. KeyboardInv /\ UNCHANGED <<viewport, detected, synced, keyboard, dismissed, focus>> => KeyboardInv'
  BY KeyboardUnchanged DEF KeyboardInv, KeyboardTypes
<1> QED
  BY <1>2, <1>3, <1>4, <1>5, <1>6, MovesStay, SyncStays DEF Mobile!MobileNext

LEMMA KeyboardIsKept == KeyboardInv => Mobile!KeyboardIsSeen
<1> SUFFICES ASSUME KeyboardInv, Mobile!AtRest
             PROVE  /\ detected.visible => keyboard
                    /\ mode = "push" /\ keyboard /\ detected.baseline = 0 => detected.visible
                    /\ dismissed => focus = NoTerminal
  BY DEF Mobile!KeyboardIsSeen
<1>1. viewport = Mobile!Rest /\ synced
  BY DEF Mobile!AtRest
<1>2. detected.baseline \in Nat
  BY DEF KeyboardInv, KeyboardTypes
<1>3. detected.visible => keyboard
  <2>1. ~keyboard => viewport.h = 0
    BY <1>1, RestIs
  <2> QED
    BY <1>1, <1>2, <2>1 DEF KeyboardInv
<1>4. mode = "push" /\ keyboard /\ detected.baseline = 0 => detected.visible
  BY <1>1, RestIs DEF KeyboardInv
<1> QED
  BY <1>3, <1>4 DEF KeyboardInv

MobileInv == ModInv /\ TouchInv /\ KeyboardInv

LEMMA MobileUnchanged == MobileInv /\ UNCHANGED mobileVars => MobileInv'
<1> SUFFICES ASSUME MobileInv, UNCHANGED mobileVars
             PROVE  MobileInv'
  OBVIOUS
<1>1. ModInv' /\ TouchInv'
  BY ModUnchanged, TouchUnchanged DEF MobileInv, mobileVars
<1>2. KeyboardInv'
  BY KeyboardUnchanged DEF MobileInv, KeyboardInv, KeyboardTypes, mobileVars
<1> QED
  BY <1>1, <1>2 DEF MobileInv

-----------------------------------------------------------------------------
(* The terminals and their tabs *)

TermTypes ==
  /\ order \in Seq(Tabs) /\ active \in Tabs
  /\ kind \in [Tabs -> {"empty", "terminal"}]
  /\ binding \in [Tabs -> Runs \cup {NoRun}]
  /\ view \in [Tabs -> Term!ViewState]
  /\ Term!IsABag(requests)

\* A view that has started, and has nothing to show
Waits(w) == w.auto /\ w.session = NoRun /\ w.picker = {} /\ ~w.error
Awaits(rs, t) == \E q \in DOMAIN rs : q.tab = t
OfPicker(q) == q.what \in {"attach", "stop"}

\* A view shows the session of the run it saw focused last, one that is not
\* mounted remembers nothing, and one that waits is owed an answer.  Only a
\* picker attaches and stops.
TermInv ==
  /\ TermTypes
  /\ Term!SessionIsFocused
  /\ \A t \in Tabs : view[t].session # NoRun => view[t].session = view[t].inst
  /\ \A t \in Tabs \ Term!Mounted : view[t] = Term!NewView
  /\ \A t \in Term!Mounted \ asked : Waits(view[t]) => Awaits(requests, t)
  /\ connected => \A t \in Term!Mounted : view[t].session = NoRun => view[t].auto
  /\ \A q \in DOMAIN requests : OfPicker(q) => q.tab \in asked \/ q.tab \notin Term!Open

LEMMA SentIs ==
  ASSUME NEW rs, Term!IsABag(rs), NEW S
  PROVE  /\ Term!IsABag(Term!(+)(rs, Term!SetToBag(S)))
         /\ DOMAIN Term!(+)(rs, Term!SetToBag(S)) = DOMAIN rs \cup S
BY DEF Term!(+), Term!SetToBag, Term!IsABag

LEMMA AnsweredIs ==
  ASSUME NEW rs, Term!IsABag(rs), NEW q
  PROVE  /\ Term!IsABag(Term!(-)(rs, Term!SetToBag({q})))
         /\ DOMAIN Term!(-)(rs, Term!SetToBag({q})) \subseteq DOMAIN rs
         /\ \A p \in DOMAIN rs : p # q => p \in DOMAIN Term!(-)(rs, Term!SetToBag({q}))
BY DEF Term!(-), Term!SetToBag, Term!IsABag

LEMMA NewViewTyped ==
  /\ Term!NewView \in Term!ViewState /\ Term!NewView.session = NoRun
  /\ ~Term!NewView.auto
BY DEF Term!NewView, Term!ViewState

\* What a view becomes when run i is focused.
LEMMA SeenIs ==
  ASSUME NEW w \in Term!ViewState, NEW i \in Runs \cup {NoRun}
  PROVE  /\ Term!Invalidate(w, i) \in Term!ViewState
         /\ Term!Invalidate(w, i).inst = i
         /\ \/ w.inst = i /\ Term!Invalidate(w, i) = w
            \/ Term!Invalidate(w, i).session = NoRun /\ ~Term!Invalidate(w, i).auto
<1>1. CASE w.inst = i
  BY <1>1 DEF Term!Invalidate
<1>2. CASE w.inst # i
  <2>1. Term!Invalidate(w, i) = [w EXCEPT !.inst = i, !.session = NoRun, !.auto = FALSE]
    BY <1>2 DEF Term!Invalidate
  <2> QED
    BY <2>1 DEF Term!ViewState
<1> QED
  BY <1>1, <1>2

\* A view after its effects ran
LEMMA StartedIs ==
  ASSUME NEW w \in Term!ViewState, NEW b \in BOOLEAN
  PROVE  /\ [w EXCEPT !.auto = @ \/ b] \in Term!ViewState
         /\ [w EXCEPT !.auto = @ \/ b].inst = w.inst
         /\ [w EXCEPT !.auto = @ \/ b].session = w.session
         /\ [w EXCEPT !.auto = @ \/ b].picker = w.picker
         /\ [w EXCEPT !.auto = @ \/ b].error <=> w.error
         /\ [w EXCEPT !.auto = @ \/ b].auto <=> w.auto \/ b
<1>1. w.auto \in BOOLEAN
  BY DEF Term!ViewState
<1> PICK c \in BOOLEAN : c = (w.auto \/ b)
  OBVIOUS
<1>2. [w EXCEPT !.auto = @ \/ b] = [w EXCEPT !.auto = c]
  OBVIOUS
<1>3. /\ [w EXCEPT !.auto = c] \in Term!ViewState
      /\ [w EXCEPT !.auto = c].inst = w.inst
      /\ [w EXCEPT !.auto = c].session = w.session
      /\ [w EXCEPT !.auto = c].picker = w.picker
  BY DEF Term!ViewState
<1>4. [w EXCEPT !.auto = c].error = w.error /\ [w EXCEPT !.auto = c].auto = c
  BY DEF Term!ViewState
<1> QED
  BY <1>2, <1>3, <1>4

LEMMA OpeningIs ==
  ASSUME NEW t, NEW i
  PROVE  Term!Opening(t, i).tab = t /\ ~OfPicker(Term!Opening(t, i))
BY DEF Term!Opening, OfPicker

\* A callback and its renders, where each view it leaves has no session but one
\* of the run it saw or of the run that is focused now, and each that waits is
\* owed an answer.
Rendered(online, ts, ks, bs, act, vs, rs) ==
  /\ ts \in Seq(Tabs) /\ ks \in [Tabs -> {"empty", "terminal"}]
  /\ bs \in [Tabs -> Runs \cup {NoRun}] /\ act \in Tabs
  /\ vs \in [Tabs -> Term!ViewState] /\ Term!IsABag(rs)
  /\ Term!RenderWith(online, ts, ks, bs, act, vs, rs)
  /\ \A t \in Tabs : vs[t].session \in {NoRun, vs[t].inst, bs[act]}
  /\ \A t \in Tabs \ asked' :
       t \in Term!Range(ts) /\ ks[t] = "terminal" /\ vs[t].inst = bs[act] /\ Waits(vs[t]) => Awaits(rs, t)
  /\ \A q \in DOMAIN rs : OfPicker(q) => q.tab \in asked' \/ q.tab \notin Term!Range(ts)

LEMMA RenderStays ==
  ASSUME NEW online, NEW ts, NEW ks, NEW bs, NEW act, NEW vs, NEW rs,
         Rendered(online, ts, ks, bs, act, vs, rs)
  PROVE  TermInv'
<1> /\ ts \in Seq(Tabs) /\ ks \in [Tabs -> {"empty", "terminal"}]
    /\ bs \in [Tabs -> Runs \cup {NoRun}] /\ act \in Tabs
    /\ vs \in [Tabs -> Term!ViewState] /\ Term!IsABag(rs)
    /\ Term!RenderWith(online, ts, ks, bs, act, vs, rs)
    /\ \A t \in Tabs : vs[t].session \in {NoRun, vs[t].inst, bs[act]}
    /\ \A t \in Tabs \ asked' :
         t \in Term!Range(ts) /\ ks[t] = "terminal" /\ vs[t].inst = bs[act] /\ Waits(vs[t]) => Awaits(rs, t)
    /\ \A q \in DOMAIN rs : OfPicker(q) => q.tab \in asked' \/ q.tab \notin Term!Range(ts)
  BY DEF Rendered
<1> DEFINE i == bs[act]
           mounted == {t \in Term!Range(ts) : ks[t] = "terminal"}
           seen(t) == Term!Invalidate(vs[t], i)
           starting == {t \in mounted : Term!Starts(seen(t), online)}
           sent == {Term!Opening(t, i) : t \in starting}
           rs2 == Term!(+)(rs, Term!SetToBag(sent))
<1>1. /\ connected' = online /\ order' = ts /\ active' = act /\ kind' = ks /\ binding' = bs
      /\ view' = [t \in Tabs |->
                    IF t \notin mounted THEN Term!NewView
                    ELSE [seen(t) EXCEPT !.auto = @ \/ t \in starting]]
      /\ requests' = rs2
  BY DEF Term!RenderWith
<1>2. Term!IsABag(rs2) /\ DOMAIN rs2 = DOMAIN rs \cup sent
  BY SentIs
<1>3. /\ Term!Open' = Term!Range(ts) /\ Term!Mounted' = mounted /\ Term!Focused' = i
  BY <1>1 DEF Term!Open, Term!Mounted, Term!Focused
<1>4. Term!Range(ts) \subseteq Tabs
  BY DEF Term!Range
<1>5. mounted \subseteq Tabs /\ i \in Runs \cup {NoRun} /\ starting \subseteq mounted
  BY <1>4
<1>6. ASSUME NEW t \in starting
      PROVE  \E q \in sent : q.tab = t
  <2>1. Term!Opening(t, i) \in sent
    OBVIOUS
  <2> QED
    BY <2>1, OpeningIs
<1>7. \A q \in sent : ~OfPicker(q)
  BY OpeningIs
<1>8. \A t \in mounted : t \in starting <=> seen(t).session = NoRun /\ online /\ ~seen(t).auto
  BY DEF Term!Starts
<1> HIDE DEF i, mounted, starting, sent, rs2
<1>9. ASSUME NEW t \in mounted
      PROVE  /\ view'[t] \in Term!ViewState
             /\ view'[t].inst = i /\ view'[t].session = seen(t).session
             /\ view'[t].picker = seen(t).picker /\ (view'[t].error <=> seen(t).error)
             /\ view'[t].auto <=> seen(t).auto \/ t \in starting
  <2>1. t \in Tabs /\ vs[t] \in Term!ViewState
    BY <1>5
  <2>2. seen(t) \in Term!ViewState /\ seen(t).inst = i
    BY <1>5, <2>1, SeenIs
  <2>3. PICK b \in BOOLEAN : b <=> t \in starting
    <3>1. CASE t \in starting
      BY <3>1
    <3>2. CASE t \notin starting
      BY <3>2
    <3> QED
      BY <3>1, <3>2
  <2>4. PICK w \in Term!ViewState : w = seen(t)
    BY <2>2
  <2>5. view'[t] = [w EXCEPT !.auto = @ \/ t \in starting]
    BY <1>1, <2>1, <2>4
  <2>6. [w EXCEPT !.auto = @ \/ t \in starting] = [w EXCEPT !.auto = @ \/ b]
    BY <2>3
  <2>7. /\ view'[t] \in Term!ViewState
        /\ view'[t].inst = w.inst /\ view'[t].session = w.session
        /\ view'[t].picker = w.picker /\ (view'[t].error <=> w.error)
        /\ view'[t].auto <=> w.auto \/ b
    <3>1. PICK x : x = [w EXCEPT !.auto = @ \/ b]
      OBVIOUS
    <3>2. /\ x \in Term!ViewState
          /\ x.inst = w.inst /\ x.session = w.session
          /\ x.picker = w.picker /\ (x.error <=> w.error)
          /\ x.auto <=> w.auto \/ b
      BY <3>1, StartedIs
    <3>3. view'[t] = x
      BY <2>5, <2>6, <3>1
    <3> QED
      BY <3>2, <3>3
  <2> HIDE DEF seen
  <2> QED
    BY <2>2, <2>3, <2>4, <2>7
<1>10. ASSUME NEW t \in Tabs, t \notin mounted
       PROVE  view'[t] = Term!NewView
  BY <1>1, <1>10
<1>11. view' \in [Tabs -> Term!ViewState]
  <2>1. \A t \in Tabs : view'[t] \in Term!ViewState
    BY <1>9, <1>10, NewViewTyped
  <2>2. view' = [t \in Tabs |-> view'[t]]
    BY <1>1
  <2> QED
    BY <2>1, <2>2
<1>12. TermTypes'
  BY <1>1, <1>2, <1>11 DEF TermTypes
<1>13. ASSUME NEW t \in mounted
       PROVE  /\ (seen(t) = vs[t] /\ vs[t].inst = i) \/ (seen(t).session = NoRun /\ ~seen(t).auto)
              /\ vs[t].session \in {NoRun, vs[t].inst, i}
  BY <1>5, SeenIs DEF i
<1>14. Term!SessionIsFocused'
  <2> SUFFICES ASSUME NEW t \in mounted, view'[t].session # NoRun
               PROVE  view'[t].session = i
    BY <1>3 DEF Term!SessionIsFocused
  <2> QED
    BY <1>9, <1>13
<1>15. ASSUME NEW t \in Tabs, view'[t].session # NoRun
       PROVE  view'[t].session = view'[t].inst
  <2>1. t \in mounted
    BY <1>10, <1>15, NewViewTyped
  <2> QED
    BY <1>9, <1>13, <1>15, <2>1
<1>16. ASSUME NEW t \in mounted \ asked', Waits(view'[t])
       PROVE  Awaits(rs2, t)
  <2>1. CASE t \in starting
    BY <1>2, <1>6, <2>1 DEF Awaits
  <2>2. CASE t \notin starting
    <3>1. seen(t).auto /\ seen(t).session = NoRun /\ seen(t).picker = {} /\ ~seen(t).error
      BY <1>9, <1>16, <2>2 DEF Waits
    <3>2. vs[t].inst = i /\ Waits(vs[t])
      BY <1>13, <3>1 DEF Waits
    <3>3. Awaits(rs, t)
      BY <1>5, <3>2 DEF i, mounted
    <3> QED
      BY <1>2, <3>3 DEF Awaits
  <2> QED
    BY <2>1, <2>2
<1>17. ASSUME online, NEW t \in mounted, view'[t].session = NoRun
       PROVE  view'[t].auto
  BY <1>8, <1>9, <1>17
<1>18. \A q \in DOMAIN rs2 : OfPicker(q) => q.tab \in asked' \/ q.tab \notin Term!Range(ts)
  BY <1>2, <1>7
<1> QED
  BY <1>1, <1>3, <1>10, <1>12, <1>14, <1>15, <1>16, <1>17, <1>18 DEF TermInv

\* A callback that changes one view at most: the other views wait as they did.
LEMMA OneViewStays ==
  ASSUME TermInv, NEW online, NEW ts \in Seq(Tabs), NEW ks \in [Tabs -> {"empty", "terminal"}],
         NEW bs \in [Tabs -> Runs \cup {NoRun}], NEW act \in Tabs,
         NEW t \in Tabs, NEW w \in Term!ViewState, NEW rs, Term!IsABag(rs),
         Term!RenderWith(online, ts, ks, bs, act, [view EXCEPT ![t] = w], rs),
         w.session \in {NoRun, w.inst, bs[act]},
         t \in Term!Range(ts) \ asked' /\ ks[t] = "terminal" /\ w.inst = bs[act] /\ Waits(w) => Awaits(rs, t),
         \A u \in Tabs \ asked' :
           u # t /\ u \in Term!Range(ts) /\ ks[u] = "terminal" => u \notin asked \/ u \notin Term!Mounted,
         \A q \in DOMAIN requests : q.tab # t => q \in DOMAIN rs,
         \A q \in DOMAIN rs : OfPicker(q) => q \in DOMAIN requests \/ q.tab \in asked',
         \A q \in DOMAIN requests :
           q.tab \in asked \/ q.tab \notin Term!Open => q.tab \in asked' \/ q.tab \notin Term!Range(ts)
  PROVE  TermInv'
<1>1. view \in [Tabs -> Term!ViewState]
  BY DEF TermInv, TermTypes
<1> PICK vs \in [Tabs -> Term!ViewState] : vs = [view EXCEPT ![t] = w]
  BY <1>1
<1>2. vs[t] = w /\ \A u \in Tabs : u # t => vs[u] = view[u]
  BY <1>1
<1>3. ASSUME NEW u \in Tabs
      PROVE  vs[u].session \in {NoRun, vs[u].inst, bs[act]}
  <2>1. CASE u = t
    BY <1>2, <2>1
  <2>2. CASE u # t
    BY <1>2, <2>2 DEF TermInv
  <2> QED
    BY <2>1, <2>2
<1>4. ASSUME NEW u \in Tabs \ asked', u \in Term!Range(ts), ks[u] = "terminal", vs[u].inst = bs[act], Waits(vs[u])
      PROVE  Awaits(rs, u)
  <2>1. CASE u = t
    BY <1>2, <1>4, <2>1
  <2>2. CASE u # t
    <3>1. Waits(view[u])
      BY <1>2, <1>4, <2>2
    <3>2. u \in Term!Mounted
      <4>1. u \notin Term!Mounted => view[u] = Term!NewView
        BY DEF TermInv
      <4> QED
        BY <3>1, <4>1, NewViewTyped DEF Waits
    <3>3. u \notin asked
      BY <1>4, <2>2, <3>2
    <3>4. Awaits(requests, u)
      BY <3>1, <3>2, <3>3 DEF TermInv
    <3> QED
      BY <2>2, <3>4 DEF Awaits
  <2> QED
    BY <2>1, <2>2
<1>5. \A q \in DOMAIN rs : OfPicker(q) => q.tab \in asked' \/ q.tab \notin Term!Range(ts)
  BY DEF TermInv
<1>6. Term!RenderWith(online, ts, ks, bs, act, vs, rs)
  OBVIOUS
<1>7. \A u \in Tabs : vs[u].session \in {NoRun, vs[u].inst, bs[act]}
  BY <1>3
<1>8. \A u \in Tabs \ asked' :
        u \in Term!Range(ts) /\ ks[u] = "terminal" /\ vs[u].inst = bs[act] /\ Waits(vs[u]) => Awaits(rs, u)
  BY <1>4
<1>9. Rendered(online, ts, ks, bs, act, vs, rs)
  BY <1>5, <1>6, <1>7, <1>8 DEF Rendered
<1> QED
  BY <1>9, RenderStays

\* A callback that changes no view, nor takes an answer.
LEMMA NoViewStays ==
  ASSUME TermInv, NEW online, NEW ts \in Seq(Tabs), NEW ks \in [Tabs -> {"empty", "terminal"}],
         NEW bs \in [Tabs -> Runs \cup {NoRun}], NEW act \in Tabs,
         Term!RenderWith(online, ts, ks, bs, act, view, requests),
         \A u \in Tabs \ asked' :
           u \in Term!Range(ts) /\ ks[u] = "terminal" => u \notin asked \/ u \notin Term!Mounted,
         \A q \in DOMAIN requests :
           q.tab \in asked \/ q.tab \notin Term!Open => q.tab \in asked' \/ q.tab \notin Term!Range(ts)
  PROVE  TermInv'
<1>1. view \in [Tabs -> Term!ViewState] /\ Term!IsABag(requests)
  BY DEF TermInv, TermTypes
<1>2. ASSUME NEW u \in Tabs
      PROVE  view[u].session \in {NoRun, view[u].inst, bs[act]}
  BY DEF TermInv
<1>3. ASSUME NEW u \in Tabs \ asked', u \in Term!Range(ts), ks[u] = "terminal", Waits(view[u])
      PROVE  Awaits(requests, u)
  <2>1. u \in Term!Mounted
    <3>1. u \notin Term!Mounted => view[u] = Term!NewView
      BY DEF TermInv
    <3> QED
      BY <1>3, <3>1, NewViewTyped DEF Waits
  <2> QED
    BY <1>3, <2>1 DEF TermInv
<1>4. \A q \in DOMAIN requests : OfPicker(q) => q.tab \in asked' \/ q.tab \notin Term!Range(ts)
  BY DEF TermInv
<1>5. Rendered(online, ts, ks, bs, act, view, requests)
  BY <1>1, <1>2, <1>3, <1>4 DEF Rendered
<1> QED
  BY <1>5, RenderStays

LEMMA TermInitial ==
  ASSUME Term!Init
  PROVE  TermInv
<1>1. /\ order \in Layouts /\ active \in Term!Open
      /\ kind \in [Tabs -> {"empty", "terminal"}] /\ binding \in [Tabs -> Runs \cup {NoRun}]
      /\ view = [t \in Tabs |-> Term!NewView] /\ requests = Term!EmptyBag /\ connected = FALSE
  BY DEF Term!Init
<1>2. order \in Seq(Tabs)
  BY <1>1, ConsoleTabs
<1>3. Term!Open \subseteq Tabs
  BY <1>2 DEF Term!Open, Term!Range
<1>4. Term!IsABag(requests) /\ DOMAIN requests = {}
  BY <1>1 DEF Term!EmptyBag, Term!IsABag, Term!SetToBag
<1>5. \A t \in Tabs : view[t] = Term!NewView /\ view[t].session = NoRun /\ ~Waits(view[t])
  BY <1>1, NewViewTyped DEF Waits
<1>6. TermTypes
  BY <1>1, <1>2, <1>3, <1>4, NewViewTyped DEF TermTypes
<1> QED
  BY <1>1, <1>3, <1>4, <1>5, <1>6 DEF TermInv, Term!SessionIsFocused, Term!Mounted

LEMMA SelectTabStays ==
  ASSUME TermInv, NEW t \in Tabs, Term!SelectTab(t)
  PROVE  TermInv'
<1>1. Term!RenderWith(connected, order, kind, binding, t, view, requests) /\ asked' = asked
  BY DEF Term!SelectTab, Term!Render
<1> QED
  BY <1>1, NoViewStays DEF TermInv, TermTypes, Term!Open

LEMMA LinkChangesStays ==
  ASSUME TermInv, Term!LinkChanges
  PROVE  TermInv'
<1>1. Term!RenderWith(~connected, order, kind, binding, active, view, requests) /\ asked' = asked
  BY DEF Term!LinkChanges
<1>2. PICK online : online = ~connected
  OBVIOUS
<1> QED
  BY <1>1, <1>2, NoViewStays DEF TermInv, TermTypes, Term!Open

LEMMA ChooseTerminalStays ==
  ASSUME TermInv, Term!ChooseTerminal
  PROVE  TermInv'
<1>1. PICK ks, bs : /\ ks = [kind EXCEPT ![active] = "terminal"] /\ bs = [binding EXCEPT ![active] = NoRun]
                    /\ Term!RenderWith(connected, order, ks, bs, active, view, requests)
  BY DEF Term!ChooseTerminal, Term!Render
<1>2. asked' = asked /\ kind[active] = "empty"
  BY DEF Term!ChooseTerminal
<1>3. ks \in [Tabs -> {"empty", "terminal"}] /\ bs \in [Tabs -> Runs \cup {NoRun}]
  BY <1>1 DEF TermInv, TermTypes
<1> QED
  BY <1>1, <1>2, <1>3, NoViewStays DEF TermInv, TermTypes, Term!Open

LEMMA AppendedRange ==
  ASSUME NEW S, NEW s \in Seq(S), NEW e \in S
  PROVE  Append(s, e) \in Seq(S) /\ Term!Range(Append(s, e)) = Term!Range(s) \cup {e}
<1>1. Append(s, e) \in Seq(S) /\ DOMAIN Append(s, e) = 1..(Len(s) + 1) /\ Len(s) \in Nat /\ DOMAIN s = 1..Len(s)
  OBVIOUS
<1>2. Append(s, e)[Len(s) + 1] = e /\ \A i \in 1..Len(s) : Append(s, e)[i] = s[i]
  OBVIOUS
<1>3. ASSUME NEW i \in 1..(Len(s) + 1)
      PROVE  i \in 1..Len(s) \/ i = Len(s) + 1
  BY <1>1
<1> QED
  BY <1>1, <1>2, <1>3 DEF Term!Range

LEMMA AddTabStays ==
  ASSUME TermInv, NEW t \in Tabs, Term!AddTab(t)
  PROVE  TermInv'
<1> TermTypes
  BY DEF TermInv
<1>1. PICK ts, ks, bs : /\ ts = Append(order, t)
                        /\ ks = [kind EXCEPT ![t] = "empty"] /\ bs = [binding EXCEPT ![t] = NoRun]
                        /\ Term!RenderWith(connected, ts, ks, bs, t, view, requests)
  BY DEF Term!AddTab, Term!Render
<1>2. asked' = asked \ {t} /\ t \notin Term!Open /\ \A q \in DOMAIN requests : q.tab # t
  BY DEF Term!AddTab, Term!Fresh, Term!Pending, Term!BagToSet
<1>3. ts \in Seq(Tabs) /\ Term!Range(ts) = Term!Open \cup {t}
  BY <1>1, AppendedRange DEF TermTypes, Term!Open
<1>4. /\ ks \in [Tabs -> {"empty", "terminal"}] /\ bs \in [Tabs -> Runs \cup {NoRun}]
      /\ ks[t] = "empty" /\ \A u \in Tabs : u # t => ks[u] = kind[u]
  BY <1>1 DEF TermTypes
<1>5. ASSUME NEW u \in Tabs \ asked', u \in Term!Range(ts), ks[u] = "terminal"
      PROVE  u \notin asked \/ u \notin Term!Mounted
  BY <1>2, <1>4, <1>5
<1>6. ASSUME NEW q \in DOMAIN requests, q.tab \in asked \/ q.tab \notin Term!Open
      PROVE  q.tab \in asked' \/ q.tab \notin Term!Range(ts)
  BY <1>2, <1>3, <1>6
<1> QED
  BY <1>1, <1>3, <1>4, <1>5, <1>6, NoViewStays

LEMMA RemovedRange ==
  ASSUME NEW S, NEW s \in Seq(S), NEW i \in 1..Len(s), Len(s) > 1
  PROVE  /\ Term!RemoveAt(s, i) \in Seq(S)
         /\ Term!Range(Term!RemoveAt(s, i)) \subseteq Term!Range(s)
         /\ Term!Last(Term!RemoveAt(s, i)) \in S
<1> DEFINE a == SubSeq(s, 1, i - 1)
           b == SubSeq(s, i + 1, Len(s))
           r == a \o b
<1>1. Len(s) \in Nat /\ i \in Nat /\ \A j \in 1..Len(s) : s[j] \in S
  OBVIOUS
<1>2. a \in Seq(S) /\ Len(a) = i - 1 /\ \A j \in 1..(i - 1) : a[j] = s[j]
  BY <1>1, SubSeqProperties
<1>3. b \in Seq(S) /\ Len(b) = Len(s) - i /\ \A j \in 1..(Len(s) - i) : b[j] = s[i + j]
  BY <1>1, SubSeqProperties
<1> HIDE DEF a, b
<1>4. /\ r \in Seq(S) /\ Len(r) = Len(a) + Len(b) /\ DOMAIN r = 1..Len(r)
      /\ \A j \in 1..Len(r) : r[j] = IF j <= Len(a) THEN a[j] ELSE b[j - Len(a)]
  <2>1. /\ r \in Seq(S) /\ Len(r) = Len(a) + Len(b)
        /\ \A j \in 1..(Len(a) + Len(b)) : r[j] = IF j <= Len(a) THEN a[j] ELSE b[j - Len(a)]
    BY <1>2, <1>3, ConcatProperties
  <2> HIDE DEF r
  <2>2. DOMAIN r = 1..Len(r)
    BY <2>1, SeqIsTyped
  <2> QED
    BY <2>1, <2>2
<1> HIDE DEF r
<1>5. ASSUME NEW j \in 1..Len(r)
      PROVE  \E k \in 1..Len(s) : r[j] = s[k]
  <2>1. CASE j <= i - 1
    <3>1. j \in 1..(i - 1) /\ j \in 1..Len(s)
      BY <1>1, <1>2, <1>3, <1>4, <2>1
    <3>2. r[j] = a[j]
      BY <1>1, <1>2, <1>4, <2>1
    <3> QED
      BY <1>2, <3>1, <3>2
  <2>2. CASE ~(j <= i - 1)
    <3>1. j - (i - 1) \in 1..(Len(s) - i) /\ i + (j - (i - 1)) \in 1..Len(s)
      BY <1>1, <1>2, <1>3, <1>4, <2>2
    <3>2. r[j] = b[j - (i - 1)]
      BY <1>1, <1>2, <1>4, <2>2
    <3> QED
      BY <1>3, <3>1, <3>2
  <2> QED
    BY <2>1, <2>2
<1>6. Term!RemoveAt(s, i) = r
  BY DEF Term!RemoveAt, r, a, b
<1>7. Term!Range(r) \subseteq Term!Range(s)
  BY <1>4, <1>5 DEF Term!Range
<1>8. Len(r) = Len(s) - 1 /\ Len(r) \in 1..Len(r)
  BY <1>1, <1>2, <1>3, <1>4
<1>9. Term!Last(r) \in S
  BY <1>4, <1>8 DEF Term!Last
<1> QED
  BY <1>4, <1>6, <1>7, <1>9

LEMMA CloseTabStays ==
  ASSUME TermInv, NEW t \in Tabs, Term!CloseTab(t)
  PROVE  TermInv'
<1> TermTypes
  BY DEF TermInv
<1>1. CASE \E i \in DOMAIN order :
             LET rest == Term!RemoveAt(order, i)
             IN  /\ order[i] = t /\ Len(order) > 1
                 /\ Term!Render(rest, [kind EXCEPT ![t] = "empty"], [binding EXCEPT ![t] = NoRun],
                                Term!ActiveAfter(t, rest), view, requests)
  <2>1. PICK i \in DOMAIN order :
             /\ Len(order) > 1
             /\ Term!Render(Term!RemoveAt(order, i), [kind EXCEPT ![t] = "empty"], [binding EXCEPT ![t] = NoRun],
                            Term!ActiveAfter(t, Term!RemoveAt(order, i)), view, requests)
    BY <1>1
  <2>2. PICK rest, ks, bs, act :
             /\ rest = Term!RemoveAt(order, i) /\ ks = [kind EXCEPT ![t] = "empty"]
             /\ bs = [binding EXCEPT ![t] = NoRun] /\ act = Term!ActiveAfter(t, rest)
             /\ Term!RenderWith(connected, rest, ks, bs, act, view, requests)
    BY <2>1 DEF Term!Render
  <2>3. i \in 1..Len(order)
    BY DEF TermTypes
  <2>4. rest \in Seq(Tabs) /\ Term!Range(rest) \subseteq Term!Open /\ Term!Last(rest) \in Tabs
    BY <2>1, <2>2, <2>3, RemovedRange DEF TermTypes, Term!Open
  <2>5. act \in Tabs
    BY <2>2, <2>4 DEF TermTypes, Term!ActiveAfter
  <2>6. ks \in [Tabs -> {"empty", "terminal"}] /\ bs \in [Tabs -> Runs \cup {NoRun}]
    BY <2>2 DEF TermTypes
  <2>7. asked' = asked \cap Term!Range(rest)
    <3>1. order' = rest
      BY <2>2 DEF Term!RenderWith
    <3> QED
      BY <3>1 DEF Term!CloseTab
  <2>8. ASSUME NEW u \in Tabs \ asked', u \in Term!Range(rest)
        PROVE  u \notin asked
    BY <2>7, <2>8
  <2>9. ASSUME NEW q \in DOMAIN requests, q.tab \in asked \/ q.tab \notin Term!Open
        PROVE  q.tab \in asked' \/ q.tab \notin Term!Range(rest)
    BY <2>4, <2>7, <2>9
  <2> QED
    BY <2>2, <2>4, <2>5, <2>6, <2>8, <2>9, NoViewStays
<1>2. CASE \E u \in Tabs :
             /\ Term!Fresh(u)
             /\ Term!Render(<<u>>, [x \in Tabs |-> "empty"], [x \in Tabs |-> NoRun], u, view, requests)
  <2>1. PICK u \in Tabs :
             /\ Term!Fresh(u)
             /\ Term!Render(<<u>>, [x \in Tabs |-> "empty"], [x \in Tabs |-> NoRun], u, view, requests)
    BY <1>2
  <2>2. PICK rest, ks, bs :
             /\ rest = <<u>> /\ ks = [x \in Tabs |-> "empty"] /\ bs = [x \in Tabs |-> NoRun]
             /\ Term!RenderWith(connected, rest, ks, bs, u, view, requests)
    BY <2>1 DEF Term!Render
  <2>3. rest \in Seq(Tabs) /\ Term!Range(rest) = {u}
    BY <2>2 DEF Term!Range
  <2>4. ks \in [Tabs -> {"empty", "terminal"}] /\ bs \in [Tabs -> Runs \cup {NoRun}]
    BY <2>2
  <2>5. \A q \in DOMAIN requests : q.tab # u
    BY <2>1 DEF Term!Fresh, Term!Pending, Term!BagToSet
  <2>6. \A x \in Tabs : ks[x] # "terminal"
    BY <2>2
  <2>7. ASSUME NEW q \in DOMAIN requests
        PROVE  q.tab \notin Term!Range(rest)
    BY <2>3, <2>5
  <2> QED
    BY <2>2, <2>3, <2>4, <2>6, <2>7, NoViewStays
<1> QED
  BY <1>1, <1>2 DEF Term!CloseTab

\* What a view may become in a step that leaves the tabs.
LEMMA SameTabsStay ==
  ASSUME TermInv, NEW bs \in [Tabs -> Runs \cup {NoRun}], NEW t \in Tabs, NEW w \in Term!ViewState,
         NEW rs, Term!IsABag(rs),
         Term!Render(order, kind, bs, active, [view EXCEPT ![t] = w], rs),
         asked \subseteq asked',
         w.session \in {NoRun, w.inst, bs[active]},
         t \in Term!Mounted \ asked' /\ w.inst = bs[active] /\ Waits(w) => Awaits(rs, t),
         \A q \in DOMAIN requests : q.tab # t => q \in DOMAIN rs,
         \A q \in DOMAIN rs : OfPicker(q) => q \in DOMAIN requests \/ q.tab \in asked'
  PROVE  TermInv'
<1>1. order \in Seq(Tabs) /\ active \in Tabs /\ kind \in [Tabs -> {"empty", "terminal"}]
  BY DEF TermInv, TermTypes
<1>2. Term!RenderWith(connected, order, kind, bs, active, [view EXCEPT ![t] = w], rs)
  BY DEF Term!Render
<1>3. Term!Mounted = {u \in Term!Range(order) : kind[u] = "terminal"} /\ Term!Open = Term!Range(order)
  BY DEF Term!Mounted, Term!Open
<1>4. t \in Term!Range(order) \ asked' /\ kind[t] = "terminal" /\ w.inst = bs[active] /\ Waits(w) => Awaits(rs, t)
  BY <1>3
<1>5. \A u \in Tabs \ asked' :
        u # t /\ u \in Term!Range(order) /\ kind[u] = "terminal" => u \notin asked \/ u \notin Term!Mounted
  OBVIOUS
<1>6. \A q \in DOMAIN requests :
        q.tab \in asked \/ q.tab \notin Term!Open => q.tab \in asked' \/ q.tab \notin Term!Range(order)
  BY <1>3
<1> QED
  BY <1>1, <1>2, <1>4, <1>5, <1>6, OneViewStays

LEMMA ViewIsTyped ==
  ASSUME TermInv, NEW t \in Tabs
  PROVE  /\ view[t] \in Term!ViewState /\ view \in [Tabs -> Term!ViewState]
         /\ view[t].session \in {NoRun, view[t].inst} /\ view[t].auto \in BOOLEAN /\ view[t].error \in BOOLEAN
         /\ t \in Term!Mounted \ asked /\ Waits(view[t]) => Awaits(requests, t)
BY DEF TermInv, TermTypes, Term!ViewState

\* What the callbacks change of a view
LEMMA ViewSets ==
  ASSUME NEW w \in Term!ViewState
  PROVE  /\ \A e \in BOOLEAN : /\ [w EXCEPT !.error = e] \in Term!ViewState
                               /\ [w EXCEPT !.error = e].session = w.session
                               /\ [w EXCEPT !.error = e].inst = w.inst
                               /\ [w EXCEPT !.error = e].error = e
         /\ \A p \in SUBSET Runs : /\ [w EXCEPT !.picker = p] \in Term!ViewState
                                   /\ [w EXCEPT !.picker = p].session = w.session
                                   /\ [w EXCEPT !.picker = p].inst = w.inst
                                   /\ [w EXCEPT !.picker = p].picker = p
         /\ \A r \in Runs : /\ [w EXCEPT !.session = r] \in Term!ViewState
                            /\ [w EXCEPT !.session = r].session = r
BY DEF Term!ViewState

\* createSession: the view asks for a session, or shows that it cannot.
LEMMA CreateSessionStays ==
  ASSUME TermInv, NEW t \in Tabs, NEW w \in Term!ViewState, NEW rs, Term!IsABag(rs),
         w.session \in {NoRun, w.inst}, asked \subseteq asked',
         Term!CreateSession(t, [view EXCEPT ![t] = w], rs),
         \A q \in DOMAIN requests : q.tab # t => q \in DOMAIN rs,
         DOMAIN rs \subseteq DOMAIN requests
  PROVE  TermInv'
<1> PICK e \in BOOLEAN : e <=> ~connected
  <2>1. CASE connected
    BY <2>1
  <2>2. CASE ~connected
    BY <2>2
  <2> QED
    BY <2>1, <2>2
<1> PICK v \in Term!ViewState : v = [w EXCEPT !.error = e]
  BY ViewSets
<1> PICK rs2 : rs2 = IF connected THEN Term!(+)(rs, Term!SetToBag({Term!Create(t)})) ELSE rs
  OBVIOUS
<1>1. v.session = w.session /\ v.inst = w.inst /\ v.error = e
  BY ViewSets
<1>2. [[view EXCEPT ![t] = w] EXCEPT ![t].error = ~connected] = [view EXCEPT ![t] = v]
  <2>1. view \in [Tabs -> Term!ViewState]
    BY ViewIsTyped
  <2>2. [[view EXCEPT ![t] = w] EXCEPT ![t].error = ~connected] = [view EXCEPT ![t] = [w EXCEPT !.error = ~connected]]
    BY <2>1
  <2>3. [w EXCEPT !.error = ~connected] = v
    <3>1. CASE connected
      BY <3>1
    <3>2. CASE ~connected
      BY <3>2
    <3> QED
      BY <3>1, <3>2
  <2> QED
    BY <2>2, <2>3
<1>3. Term!Render(order, kind, binding, active, [view EXCEPT ![t] = v], rs2)
  BY <1>2 DEF Term!CreateSession
<1>4. /\ Term!IsABag(rs2) /\ DOMAIN rs \subseteq DOMAIN rs2
      /\ \A q \in DOMAIN rs2 : q \in DOMAIN rs \/ q = Term!Create(t)
      /\ connected => Term!Create(t) \in DOMAIN rs2
  <2>1. CASE connected
    <3>1. rs2 = Term!(+)(rs, Term!SetToBag({Term!Create(t)}))
      BY <2>1
    <3>2. /\ Term!IsABag(Term!(+)(rs, Term!SetToBag({Term!Create(t)})))
          /\ DOMAIN Term!(+)(rs, Term!SetToBag({Term!Create(t)})) = DOMAIN rs \cup {Term!Create(t)}
      BY SentIs
    <3>3. Term!IsABag(rs2) /\ DOMAIN rs2 = DOMAIN rs \cup {Term!Create(t)}
      BY <3>1, <3>2
    <3> QED
      BY <3>3
  <2>2. CASE ~connected
    <3>1. rs2 = rs
      BY <2>2
    <3> QED
      BY <2>2, <3>1
  <2> QED
    BY <2>1, <2>2
<1>5. Term!Create(t).tab = t /\ ~OfPicker(Term!Create(t))
  BY DEF Term!Create, OfPicker
<1>6. Waits(v) => Awaits(rs2, t)
  BY <1>1, <1>4, <1>5 DEF Waits, Awaits
<1>7. binding \in [Tabs -> Runs \cup {NoRun}]
  BY DEF TermInv, TermTypes
<1>8. \A q \in DOMAIN requests : q.tab # t => q \in DOMAIN rs2
  BY <1>4
<1>9. \A q \in DOMAIN rs2 : OfPicker(q) => q \in DOMAIN requests \/ q.tab \in asked'
  BY <1>4, <1>5
<1>10. v.session \in {NoRun, v.inst, binding[active]}
  BY <1>1
<1> HIDE DEF Waits
<1> QED
  BY <1>3, <1>4, <1>6, <1>7, <1>8, <1>9, <1>10, SameTabsStay

LEMMA PickerCleared ==
  ASSUME TermInv, NEW t \in Tabs
  PROVE  \E w \in Term!ViewState : /\ w = [view[t] EXCEPT !.picker = {}]
                                   /\ w.session = view[t].session /\ w.inst = view[t].inst
<1>1. PICK u \in Term!ViewState : u = view[t]
  BY ViewIsTyped
<1>2. {} \in SUBSET Runs
  OBVIOUS
<1>3. PICK w : w = [u EXCEPT !.picker = {}]
  OBVIOUS
<1>4. w \in Term!ViewState /\ w.session = u.session /\ w.inst = u.inst
  BY <1>2, <1>3, ViewSets
<1> QED
  BY <1>1, <1>3, <1>4

LEMMA PickNewStays ==
  ASSUME TermInv, NEW t \in Tabs, Term!PickNew(t)
  PROVE  TermInv'
<1>1. PICK w \in Term!ViewState : /\ w = [view[t] EXCEPT !.picker = {}]
                                  /\ w.session = view[t].session /\ w.inst = view[t].inst
  BY PickerCleared
<1>2. asked' = asked \cup {t} /\ Term!CreateSession(t, [view EXCEPT ![t] = w], requests)
  BY <1>1 DEF Term!PickNew, Term!Picking
<1>3. Term!IsABag(requests)
  BY DEF TermInv, TermTypes
<1> QED
  BY <1>1, <1>2, <1>3, ViewIsTyped, CreateSessionStays

LEMMA PickSessionStays ==
  ASSUME TermInv, NEW t \in Tabs, NEW r \in Runs, Term!PickSession(t, r) \/ Term!PickStop(t, r)
  PROVE  TermInv'
<1>1. PICK q : q.tab = t /\ (q = [what |-> "attach", tab |-> t, run |-> r] \/ q = [what |-> "stop", tab |-> t, run |-> r])
               /\ \/ Term!Render(order, kind, binding, active, [view EXCEPT ![t].picker = {}],
                                 Term!(+)(requests, Term!SetToBag({q})))
                  \/ Term!Render(order, kind, binding, active, view, Term!(+)(requests, Term!SetToBag({q})))
  <2>1. [what |-> "attach", tab |-> t, run |-> r].tab = t /\ [what |-> "stop", tab |-> t, run |-> r].tab = t
    OBVIOUS
  <2> QED
    BY <2>1 DEF Term!PickSession, Term!PickStop
<1>2. asked' = asked \cup {t}
  BY DEF Term!PickSession, Term!PickStop, Term!Picking
<1> PICK rs : rs = Term!(+)(requests, Term!SetToBag({q}))
  OBVIOUS
<1>3. Term!IsABag(rs) /\ DOMAIN rs = DOMAIN requests \cup {q}
  BY SentIs DEF TermInv, TermTypes
<1>4. PICK w \in Term!ViewState :
         /\ w.session = view[t].session /\ w.inst = view[t].inst
         /\ Term!Render(order, kind, binding, active, [view EXCEPT ![t] = w], rs)
  <2>1. [view EXCEPT ![t] = view[t]] = view
    BY ViewIsTyped
  <2>2. CASE Term!Render(order, kind, binding, active, view, rs)
    BY <2>1, <2>2, ViewIsTyped
  <2>3. CASE Term!Render(order, kind, binding, active, [view EXCEPT ![t].picker = {}], rs)
    <3>1. PICK w \in Term!ViewState : /\ w = [view[t] EXCEPT !.picker = {}]
                                      /\ w.session = view[t].session /\ w.inst = view[t].inst
      BY PickerCleared
    <3>2. [view EXCEPT ![t].picker = {}] = [view EXCEPT ![t] = w]
      BY <3>1
    <3> QED
      BY <2>3, <3>1, <3>2
  <2> QED
    BY <1>1, <2>2, <2>3
<1>5. w.session \in {NoRun, w.inst, binding[active]}
  BY <1>4, ViewIsTyped
<1>6. binding \in [Tabs -> Runs \cup {NoRun}]
  BY DEF TermInv, TermTypes
<1>7. t \notin Term!Mounted \ asked'
  BY <1>2
<1>8. \A p \in DOMAIN rs : OfPicker(p) => p \in DOMAIN requests \/ p.tab \in asked'
  BY <1>1, <1>2, <1>3
<1> QED
  BY <1>2, <1>3, <1>4, <1>5, <1>6, <1>7, <1>8, SameTabsStay

\* What is left in flight when an answer came
LEMMA AnswerTaken ==
  ASSUME TermInv, NEW q
  PROVE  \E rest : /\ rest = Term!(-)(requests, Term!SetToBag({q}))
                   /\ Term!IsABag(rest) /\ DOMAIN rest \subseteq DOMAIN requests
                   /\ \A p \in DOMAIN requests : p.tab # q.tab => p \in DOMAIN rest
<1> PICK rest : rest = Term!(-)(requests, Term!SetToBag({q}))
  OBVIOUS
<1>1. Term!IsABag(requests)
  BY DEF TermInv, TermTypes
<1>2. /\ Term!IsABag(rest) /\ DOMAIN rest \subseteq DOMAIN requests
      /\ \A p \in DOMAIN requests : p # q => p \in DOMAIN rest
  BY <1>1, AnsweredIs
<1> QED
  BY <1>2

LEMMA AnsweredFrom ==
  ASSUME NEW what, NEW t, NEW r
  PROVE  /\ Term!Answered(what, t, r).tab = t
         /\ what \in {"attach", "stop"} => OfPicker(Term!Answered(what, t, r))
BY DEF Term!Answered, OfPicker

LEMMA ShowStays ==
  ASSUME TermInv, NEW t \in Tabs, NEW r \in Runs, NEW rs, Term!IsABag(rs),
         Term!Show(t, r, rs), asked' = asked, DOMAIN rs \subseteq DOMAIN requests,
         \A q \in DOMAIN requests : q.tab # t => q \in DOMAIN rs
  PROVE  TermInv'
<1>1. PICK u \in Term!ViewState : u = view[t]
  BY ViewIsTyped
<1>2. PICK w : w = [u EXCEPT !.session = r]
  OBVIOUS
<1>3. w \in Term!ViewState /\ w.session = r
  BY <1>2, ViewSets
<1>4. [view EXCEPT ![t].session = r] = [view EXCEPT ![t] = w]
  BY <1>1, <1>2
<1>5. PICK bs : bs = [binding EXCEPT ![active] = r]
  OBVIOUS
<1>6. bs \in [Tabs -> Runs \cup {NoRun}] /\ bs[active] = r
  BY <1>5 DEF TermInv, TermTypes
<1>7. Term!Render(order, kind, bs, active, [view EXCEPT ![t] = w], rs)
  BY <1>4, <1>5 DEF Term!Show
<1>8. ~Waits(w)
  BY <1>3, ConsoleNames DEF Waits
<1> QED
  BY <1>3, <1>6, <1>7, <1>8, SameTabsStay

\* The answer that leaves a view as it was, and creates a session
LEMMA CreatesInsteadStays ==
  ASSUME TermInv, NEW t \in Tabs, NEW rs, Term!IsABag(rs),
         Term!CreateSession(t, view, rs), asked' = asked, DOMAIN rs \subseteq DOMAIN requests,
         \A q \in DOMAIN requests : q.tab # t => q \in DOMAIN rs
  PROVE  TermInv'
<1>1. PICK w \in Term!ViewState : w = view[t] /\ w.session \in {NoRun, w.inst}
  BY ViewIsTyped
<1>2. view = [view EXCEPT ![t] = w]
  BY <1>1, ViewIsTyped
<1>3. Term!CreateSession(t, [view EXCEPT ![t] = w], rs)
  BY <1>2
<1> QED
  BY <1>1, <1>3, CreateSessionStays

\* The answer to a tab whose picker was used: what its view waits for is not said.
LEMMA PickAnsweredStays ==
  ASSUME TermInv, NEW t \in Tabs, t \notin Term!Mounted \ asked, NEW w \in Term!ViewState, NEW rs,
         Term!IsABag(rs), w.session \in {NoRun, w.inst},
         Term!Render(order, kind, binding, active, [view EXCEPT ![t] = w], rs), asked' = asked,
         DOMAIN rs \subseteq DOMAIN requests,
         \A q \in DOMAIN requests : q.tab # t => q \in DOMAIN rs
  PROVE  TermInv'
<1>1. binding \in [Tabs -> Runs \cup {NoRun}]
  BY DEF TermInv, TermTypes
<1> QED
  BY <1>1, SameTabsStay

LEMMA PickedTab ==
  ASSUME TermInv, NEW q, Term!BagIn(q, requests), OfPicker(q)
  PROVE  q.tab \notin Term!Mounted \ asked
<1>1. q \in DOMAIN requests
  BY DEF Term!BagIn, Term!BagToSet
<1> QED
  BY <1>1 DEF TermInv, Term!Mounted

LEMMA InfoAnsweredStays ==
  ASSUME TermInv, NEW what \in {"restore", "attach"}, NEW t \in Tabs, NEW r \in Runs, NEW ok \in BOOLEAN,
         Term!InfoAnswered(what, t, r, ok)
  PROVE  TermInv'
<1> PICK q : q = Term!Answered(what, t, r)
  OBVIOUS
<1>1. q.tab = t /\ (what = "attach" => OfPicker(q))
  BY AnsweredFrom
<1>2. PICK rest : /\ rest = Term!(-)(requests, Term!SetToBag({q}))
                  /\ Term!IsABag(rest) /\ DOMAIN rest \subseteq DOMAIN requests
                  /\ \A p \in DOMAIN requests : p.tab # t => p \in DOMAIN rest
  BY <1>1, AnswerTaken
<1>3. /\ Term!BagIn(q, requests) /\ asked' = asked
      /\ IF ok THEN Term!Show(t, r, rest)
         ELSE IF what = "restore" THEN Term!CreateSession(t, view, rest)
         ELSE Term!Render(order, kind, binding, active, view, rest)
  BY <1>2 DEF Term!InfoAnswered
<1>4. CASE ok
  <2>1. Term!Show(t, r, rest)
    BY <1>3, <1>4
  <2> QED
    BY <1>2, <1>3, <2>1, ShowStays
<1>5. CASE ~ok /\ what = "restore"
  <2>1. Term!CreateSession(t, view, rest)
    BY <1>3, <1>5
  <2> QED
    BY <1>2, <1>3, <2>1, CreatesInsteadStays
<1>6. CASE ~ok /\ what = "attach"
  <2>1. Term!Render(order, kind, binding, active, view, rest)
    BY <1>3, <1>6
  <2>2. PICK w \in Term!ViewState : w = view[t] /\ w.session \in {NoRun, w.inst}
    BY ViewIsTyped
  <2>3. view = [view EXCEPT ![t] = w]
    BY <2>2, ViewIsTyped
  <2>4. Term!Render(order, kind, binding, active, [view EXCEPT ![t] = w], rest)
    BY <2>1, <2>3
  <2>5. t \notin Term!Mounted \ asked
    BY <1>1, <1>3, <1>6, PickedTab
  <2> QED
    BY <1>2, <1>3, <2>2, <2>4, <2>5, PickAnsweredStays
<1> QED
  BY <1>4, <1>5, <1>6

LEMMA ListAnsweredStays ==
  ASSUME TermInv, NEW t \in Tabs, NEW ok \in BOOLEAN, Term!ListAnswered(t, ok)
  PROVE  TermInv'
<1> PICK q : q = Term!Answered("list", t, NoRun)
  OBVIOUS
<1>1. q.tab = t
  BY AnsweredFrom
<1>2. PICK rest : /\ rest = Term!(-)(requests, Term!SetToBag({q}))
                  /\ Term!IsABag(rest) /\ DOMAIN rest \subseteq DOMAIN requests
                  /\ \A p \in DOMAIN requests : p.tab # t => p \in DOMAIN rest
  BY <1>1, AnswerTaken
<1>3. PICK live \in SUBSET Runs : live = {r \in Runs : run[r] = "running"}
  OBVIOUS
<1>4. /\ asked' = asked
      /\ IF Term!Offers(ok, live)
         THEN Term!Render(order, kind, binding, active, [view EXCEPT ![t].picker = live], rest)
         ELSE Term!CreateSession(t, view, rest)
  BY <1>2, <1>3 DEF Term!ListAnswered
<1>5. CASE Term!Offers(ok, live)
  <2>1. live # {}
    BY <1>5 DEF Term!Offers
  <2>2. PICK u \in Term!ViewState : u = view[t] /\ u.session \in {NoRun, u.inst}
    BY ViewIsTyped
  <2>3. PICK w : w = [u EXCEPT !.picker = live]
    OBVIOUS
  <2>4. w \in Term!ViewState /\ w.session = u.session /\ w.inst = u.inst /\ w.picker = live
    BY <2>3, ViewSets
  <2>5. [view EXCEPT ![t].picker = live] = [view EXCEPT ![t] = w]
    BY <2>2, <2>3
  <2>6. Term!Render(order, kind, binding, active, [view EXCEPT ![t] = w], rest)
    BY <1>4, <1>5, <2>5
  <2>7. ~Waits(w)
    BY <2>1, <2>4 DEF Waits
  <2>8. binding \in [Tabs -> Runs \cup {NoRun}]
    BY DEF TermInv, TermTypes
  <2> QED
    BY <1>2, <1>4, <2>2, <2>4, <2>6, <2>7, <2>8, SameTabsStay
<1>6. CASE ~Term!Offers(ok, live)
  <2>1. Term!CreateSession(t, view, rest)
    BY <1>4, <1>6
  <2> QED
    BY <1>2, <1>4, <2>1, CreatesInsteadStays
<1> QED
  BY <1>5, <1>6

LEMMA CreateAsked ==
  ASSUME NEW t
  PROVE  Term!Create(t).tab = t
BY DEF Term!Create

LEMMA CreatedStays ==
  ASSUME TermInv, NEW t \in Tabs, NEW r \in Runs, Term!Created(t, r)
  PROVE  TermInv'
<1> PICK q : q = Term!Create(t)
  OBVIOUS
<1>1. q.tab = t
  BY CreateAsked
<1>2. PICK rest : /\ rest = Term!(-)(requests, Term!SetToBag({q}))
                  /\ Term!IsABag(rest) /\ DOMAIN rest \subseteq DOMAIN requests
                  /\ \A p \in DOMAIN requests : p.tab # t => p \in DOMAIN rest
  BY <1>1, AnswerTaken
<1>3. asked' = asked /\ Term!Show(t, r, rest)
  BY <1>2 DEF Term!Created
<1> QED
  BY <1>2, <1>3, ShowStays

LEMMA CreateFailsStays ==
  ASSUME TermInv, NEW t \in Tabs, Term!CreateFails(t)
  PROVE  TermInv'
<1> PICK q : q = Term!Create(t)
  OBVIOUS
<1>1. q.tab = t
  BY CreateAsked
<1>2. PICK rest : /\ rest = Term!(-)(requests, Term!SetToBag({q}))
                  /\ Term!IsABag(rest) /\ DOMAIN rest \subseteq DOMAIN requests
                  /\ \A p \in DOMAIN requests : p.tab # t => p \in DOMAIN rest
  BY <1>1, AnswerTaken
<1>3. asked' = asked /\ Term!Render(order, kind, binding, active, [view EXCEPT ![t].error = TRUE], rest)
  BY <1>2 DEF Term!CreateFails
<1>4. PICK u \in Term!ViewState : u = view[t] /\ u.session \in {NoRun, u.inst}
  BY ViewIsTyped
<1>5. PICK w : w = [u EXCEPT !.error = TRUE]
  OBVIOUS
<1>6. w \in Term!ViewState /\ w.session = u.session /\ w.inst = u.inst /\ w.error = TRUE
  BY <1>5, ViewSets
<1>7. Term!Render(order, kind, binding, active, [view EXCEPT ![t] = w], rest)
  <2>1. [view EXCEPT ![t].error = TRUE] = [view EXCEPT ![t] = w]
    BY <1>4, <1>5
  <2> QED
    BY <1>3, <2>1
<1>8. ~Waits(w)
  BY <1>6 DEF Waits
<1>9. binding \in [Tabs -> Runs \cup {NoRun}]
  BY DEF TermInv, TermTypes
<1> QED
  BY <1>2, <1>3, <1>4, <1>6, <1>7, <1>8, <1>9, SameTabsStay

LEMMA StopAnsweredStays ==
  ASSUME TermInv, NEW t \in Tabs, NEW r \in Runs, NEW ok \in BOOLEAN, Term!StopAnswered(t, r, ok)
  PROVE  TermInv'
<1> PICK q : q = Term!Answered("stop", t, r)
  OBVIOUS
<1>1. q.tab = t /\ OfPicker(q)
  BY AnsweredFrom
<1>2. PICK rest : /\ rest = Term!(-)(requests, Term!SetToBag({q}))
                  /\ Term!IsABag(rest) /\ DOMAIN rest \subseteq DOMAIN requests
                  /\ \A p \in DOMAIN requests : p.tab # t => p \in DOMAIN rest
  BY <1>1, AnswerTaken
<1>3. /\ Term!BagIn(q, requests) /\ asked' = asked
      /\ Term!Render(order, kind, binding, active,
                     IF ok THEN [view EXCEPT ![t].picker = @ \ {r}] ELSE view, rest)
  BY <1>2 DEF Term!StopAnswered
<1>4. t \notin Term!Mounted \ asked
  BY <1>1, <1>3, PickedTab
<1>5. PICK u \in Term!ViewState : u = view[t] /\ u.session \in {NoRun, u.inst}
  BY ViewIsTyped
<1>6. CASE ok
  <2>1. PICK w : w = [u EXCEPT !.picker = u.picker \ {r}]
    OBVIOUS
  <2>2. u.picker \ {r} \in SUBSET Runs
    BY DEF Term!ViewState
  <2>3. w \in Term!ViewState /\ w.session = u.session /\ w.inst = u.inst
    BY <2>1, <2>2, ViewSets
  <2>4. [view EXCEPT ![t].picker = @ \ {r}] = [view EXCEPT ![t] = w]
    BY <1>5, <2>1
  <2>5. Term!Render(order, kind, binding, active, [view EXCEPT ![t] = w], rest)
    BY <1>3, <1>6, <2>4
  <2> QED
    BY <1>2, <1>3, <1>4, <1>5, <2>3, <2>5, PickAnsweredStays
<1>7. CASE ~ok
  <2>1. view = [view EXCEPT ![t] = u]
    BY <1>5, ViewIsTyped
  <2>2. Term!Render(order, kind, binding, active, [view EXCEPT ![t] = u], rest)
    BY <1>3, <1>7, <2>1
  <2> QED
    BY <1>2, <1>3, <1>4, <1>5, <2>2, PickAnsweredStays
<1> QED
  BY <1>6, <1>7

LEMMA TermUnchanged == TermInv /\ UNCHANGED terminalVars => TermInv'
<1> SUFFICES ASSUME TermInv, UNCHANGED terminalVars
             PROVE  TermInv'
  OBVIOUS
<1>1. UNCHANGED <<order, active, kind, binding, view, requests, connected, asked>>
  BY DEF terminalVars
<1>2. Term!Open' = Term!Open /\ Term!Mounted' = Term!Mounted /\ Term!Focused' = Term!Focused
  BY <1>1 DEF Term!Open, Term!Mounted, Term!Focused
<1>3. TermTypes' /\ Term!SessionIsFocused'
  BY <1>1, <1>2 DEF TermInv, TermTypes, Term!SessionIsFocused
<1> QED
  BY <1>1, <1>2, <1>3 DEF TermInv

LEMMA RunExitsStays ==
  ASSUME TermInv, NEW r \in Runs, Term!RunExits(r)
  PROVE  TermInv'
<1>1. UNCHANGED <<order, active, kind, binding, view, requests, connected, asked>>
  BY DEF Term!RunExits, Term!tabVars
<1>2. Term!Open' = Term!Open /\ Term!Mounted' = Term!Mounted /\ Term!Focused' = Term!Focused
  BY <1>1 DEF Term!Open, Term!Mounted, Term!Focused
<1>3. TermTypes' /\ Term!SessionIsFocused'
  BY <1>1, <1>2 DEF TermInv, TermTypes, Term!SessionIsFocused
<1> QED
  BY <1>1, <1>2, <1>3 DEF TermInv

LEMMA TermStays ==
  ASSUME TermInv, Term!Next
  PROVE  TermInv'
<1>1. CASE Term!Answer
  <2>1. PICK t \in Tabs :
           \/ \E r \in Runs, ok \in BOOLEAN : \/ Term!InfoAnswered("restore", t, r, ok)
                                              \/ Term!InfoAnswered("attach", t, r, ok)
                                              \/ Term!StopAnswered(t, r, ok)
           \/ \E ok \in BOOLEAN : Term!ListAnswered(t, ok)
           \/ \E r \in Runs : Term!Created(t, r)
           \/ Term!CreateFails(t)
    BY <1>1 DEF Term!Answer
  <2> QED
    BY <2>1, InfoAnsweredStays, ListAnsweredStays, CreatedStays, CreateFailsStays, StopAnsweredStays
<1> QED
  BY <1>1, SelectTabStays, AddTabStays, CloseTabStays, PickNewStays, PickSessionStays, ChooseTerminalStays,
     LinkChangesStays, RunExitsStays DEF Term!Next

LEMMA TermIsKept == TermInv => Term!SessionIsFocused /\ Term!NeverStuck
<1> SUFFICES ASSUME TermInv, connected, NEW t \in Term!Mounted \ asked,
                    view[t].session = NoRun, view[t].picker = {}, ~view[t].error
             PROVE  \E q \in Term!Pending : q.tab = t
  BY DEF TermInv, Term!NeverStuck
<1>1. Waits(view[t])
  BY DEF TermInv, Waits
<1>2. Awaits(requests, t)
  BY <1>1 DEF TermInv
<1> QED
  BY <1>2 DEF Awaits, Term!Pending, Term!BagToSet

-----------------------------------------------------------------------------
(* The console: a step is of one subject, and the others stay as they are. *)

ConsoleInv == TermInv /\ MobileInv /\ PickerInv /\ TreeInv /\ CenterInv /\ ChatInv

LEMMA ConsoleInitial == ConsoleInit => ConsoleInv
<1> SUFFICES ASSUME ConsoleInit
             PROVE  ConsoleInv
  OBVIOUS
<1>1. /\ Term!Init /\ Mobile!MobileInit /\ Files!PickerInit /\ Files!TreeInit /\ Center!ApprovalsInit
      /\ Chat!ChatInputInit
  BY DEF ConsoleInit
<1>2. MobileInv
  BY <1>1, ModInitial, TouchInitial, KeyboardInitial DEF MobileInv
<1> QED
  BY <1>1, <1>2, TermInitial, PickerInitial, TreeInitial, CenterInitial, ChatInitial DEF ConsoleInv

LEMMA ConsoleStays == ConsoleInv /\ [ConsoleNext]_allVars => ConsoleInv'
<1> SUFFICES ASSUME ConsoleInv, [ConsoleNext]_allVars
             PROVE  ConsoleInv'
  OBVIOUS
<1> TermInv /\ MobileInv /\ PickerInv /\ TreeInv /\ CenterInv /\ ChatInv
  BY DEF ConsoleInv
<1>1. \/ Term!Next \/ UNCHANGED terminalVars
  BY DEF ConsoleNext, TerminalStep, MobileStep, PickerStep, FilesStep, ApprovalsStep, ChatStep, allVars
<1>2. \/ Mobile!MobileNext \/ UNCHANGED mobileVars
  BY DEF ConsoleNext, TerminalStep, MobileStep, PickerStep, FilesStep, ApprovalsStep, ChatStep, allVars
<1>3. \/ Files!PickerNext \/ UNCHANGED pickerVars
  BY DEF ConsoleNext, TerminalStep, MobileStep, PickerStep, FilesStep, ApprovalsStep, ChatStep, allVars
<1>4. \/ Files!TreeNext \/ UNCHANGED filesVars
  BY DEF ConsoleNext, TerminalStep, MobileStep, PickerStep, FilesStep, ApprovalsStep, ChatStep, allVars
<1>5. \/ Center!ApprovalsNext \/ UNCHANGED approvalsVars
  BY DEF ConsoleNext, TerminalStep, MobileStep, PickerStep, FilesStep, ApprovalsStep, ChatStep, allVars
<1>6. \/ Chat!ChatInputNext \/ UNCHANGED chatVars
  BY DEF ConsoleNext, TerminalStep, MobileStep, PickerStep, FilesStep, ApprovalsStep, ChatStep, allVars
<1>7. TermInv'
  BY <1>1, TermStays, TermUnchanged
<1>8. MobileInv'
  BY <1>2, ModStays, TouchStays, KeyboardStays, MobileUnchanged DEF MobileInv
<1>9. PickerInv'
  <2>1. UNCHANGED pickerVars => UNCHANGED <<open, pickerCwd, pickerTree, pickerExpanded, selected, pickerFetching>>
    BY DEF pickerVars
  <2> QED
    BY <1>3, <2>1, PickerStays, PickerUnchanged
<1>10. TreeInv'
  BY <1>4, TreeStays, TreeUnchanged
<1>11. CenterInv'
  BY <1>5, CenterStays, CenterUnchanged
<1>12. ChatInv'
  BY <1>6, ChatStays, ChatUnchanged
<1> QED
  BY <1>7, <1>8, <1>9, <1>10, <1>11, <1>12 DEF ConsoleInv

LEMMA ConsoleIsKept == ConsoleInv => ConsoleFollows
<1> SUFFICES ASSUME ConsoleInv
             PROVE  ConsoleFollows
  OBVIOUS
<1> TermInv /\ MobileInv /\ PickerInv /\ TreeInv /\ CenterInv /\ ChatInv
  BY DEF ConsoleInv
<1>1. Mobile!ModifiersExpire /\ Mobile!OneGesture /\ Mobile!KeyboardIsSeen
  BY KeyboardIsKept DEF MobileInv, ModInv, TouchInv
<1>2. Files!ExpandedIsFetched
  BY DEF TreeInv
<1> QED
  BY <1>1, <1>2, TermIsKept, PickerIsKept, CenterIsKept, ChatIsKept DEF ConsoleFollows

\* What the console shows follows Core and the user, whichever part of it they
\* work with: terminals show the focused run and wait for nothing that is not
\* owed, modifiers expire, a touch is one gesture, the keyboard is seen as it is,
\* directories and approvals are there or on their way, and what is typed in a
\* chat goes to one run, once (terminal/index.tsx:167, mobile-keyboard-slot.tsx:171,
\* use-keyboard.ts:53, use-file-tree.ts:67, approval-center.tsx:38, chat-layout.tsx:149).
THEOREM ConsoleFollowsCorrect == ConsoleSpec => []ConsoleFollows
<1>1. ConsoleInit => ConsoleInv
  BY ConsoleInitial
<1>2. ConsoleInv /\ [ConsoleNext]_allVars => ConsoleInv'
  BY ConsoleStays
<1>3. ConsoleInv => ConsoleFollows
  BY ConsoleIsKept
<1> QED
  BY <1>1, <1>2, <1>3, PTL DEF ConsoleSpec
=============================================================================
