----------------------------- MODULE MCConsole ------------------------------
(***************************************************************************)
(* The parts of the console a user works with: the terminals and their     *)
(* tabs, their input on a phone, the directory picker, the file tree, the  *)
(* approval center and the input of the chat views.  A behaviour is one of *)
(* one of them, the subject, while the others stay as they are initially.  *)
(***************************************************************************)
EXTENDS Naturals, Sequences

CONSTANTS t1, t2, Tabs, Runs, NoRun, Layouts, MaxRequests, MaxMoves, Terminals, NoTerminal,
  MaxTouches, NumDirs, MaxFetches, MaxPickerMoves, Nodes, Folders, NoFolder, MaxTreeMoves,
  Asked, NoRequest, MaxBreaks, MaxResponses,
  Chats, NoChat, MaxTexts, MaxStops, MaxChatBreaks

\* The bounds are numbers, the markers are none of what they stand beside, and a
\* page starts with tabs.
ASSUME ConsoleBounds == MaxTexts \in Nat /\ NumDirs \in Nat \ {0, 1}
ASSUME ConsoleNames ==
  Nodes # {} /\ NoFolder \notin Folders /\ "unloaded" \notin Nodes /\ NoRun \notin Runs
ASSUME ConsoleTabs == \A layout \in Layouts : layout \in Seq(Tabs)

VARIABLES
  subject,
  order, active, kind, binding, view, run, requests, connected, moves, asked,
  focus, enabled, leaving, on, timers, age, gesture, touch, mode, keyboard, viewport, detected,
  synced, dismissed, touches,
  open, pickerCwd, pickerTree, pickerExpanded, selected, pickerFetching, pickerLinked,
  pickerMoves,
  home, target, linked, cwd, tree, expanded, fetching, info, treeMoves, unfetched, toggled,
  waiting, coreLinked, told, lists, approvals, acting, respond, breaks, responses, unlisted,
  unaware,
  input, suggest, phase, submitting, activeRun, up, chat, turns, wire, partial, heard, working,
  gone, typed, stops, chatBreaks, writes, raw, lost, garbled, entered

Term == INSTANCE TerminalTabs
Mobile == INSTANCE MobileInput
Files == INSTANCE FileBrowsing
Center == INSTANCE Approvals WITH linked <- coreLinked
Chat == INSTANCE ChatInput WITH active <- activeRun, breaks <- chatBreaks, MaxBreaks <- MaxChatBreaks

terminalVars == <<order, active, kind, binding, view, run, requests, connected, moves,
  asked>>
mobileVars == <<focus, enabled, leaving, on, timers, age, gesture, touch, mode, keyboard,
  viewport, detected, synced, dismissed, touches>>
pickerVars == <<open, pickerCwd, pickerTree, pickerExpanded, selected, pickerFetching,
  pickerLinked, pickerMoves>>
filesVars == <<home, target, linked, cwd, tree, expanded, fetching, info, treeMoves, unfetched,
  toggled>>
approvalsVars == <<waiting, coreLinked, told, lists, approvals, acting, respond, breaks,
  responses, unlisted, unaware>>
chatVars == <<input, suggest, phase, submitting, activeRun, up, chat, turns, wire, partial,
            heard, working, gone, typed, stops, chatBreaks, writes, raw, lost, garbled, entered>>
allVars == <<subject, terminalVars, mobileVars, pickerVars, filesVars, approvalsVars, chatVars>>

\* Tab ids are interchangeable: one order of each length is enough.
MCLayouts == {<<t1>>, <<t1, t2>>}

ConsoleInit ==
  /\ subject \in {"terminal", "mobile", "picker", "files", "approvals", "chat"}
  /\ Term!Init /\ Mobile!MobileInit /\ Files!PickerInit /\ Files!TreeInit /\ Center!ApprovalsInit
  /\ subject # "terminal" => order = <<t1>> /\ active = t1 /\ kind[t1] = "empty" /\ run = [r \in Runs |-> "none"]
  /\ subject # "picker" => pickerCwd = 1 /\ pickerLinked
  /\ subject # "mobile" => mode = "push" /\ keyboard
  /\ subject # "files" => home \in [Nodes -> {CHOOSE f \in Folders : TRUE}]
  /\ Chat!ChatInputInit
  /\ subject # "chat" => activeRun = NoChat

TerminalStep ==
  /\ subject = "terminal" /\ Term!Next
  /\ UNCHANGED <<subject, mobileVars, pickerVars, filesVars, approvalsVars, chatVars>>

MobileStep ==
  /\ subject = "mobile" /\ Mobile!MobileNext
  /\ UNCHANGED <<subject, terminalVars, pickerVars, filesVars, approvalsVars, chatVars>>

PickerStep ==
  /\ subject = "picker" /\ Files!PickerNext
  /\ UNCHANGED <<subject, terminalVars, mobileVars, filesVars, approvalsVars, chatVars>>

FilesStep ==
  /\ subject = "files" /\ Files!TreeNext
  /\ UNCHANGED <<subject, terminalVars, mobileVars, pickerVars, approvalsVars, chatVars>>

ApprovalsStep ==
  /\ subject = "approvals" /\ Center!ApprovalsNext
  /\ UNCHANGED <<subject, terminalVars, mobileVars, pickerVars, filesVars, chatVars>>
ChatStep ==
  /\ subject = "chat" /\ Chat!ChatInputNext
  /\ UNCHANGED <<subject, terminalVars, mobileVars, pickerVars, filesVars, approvalsVars>>

ConsoleNext == TerminalStep \/ MobileStep \/ PickerStep \/ FilesStep \/ ApprovalsStep \/ ChatStep

\* Every call settles: HTTP calls have a timeout.
Fairness == WF_terminalVars(subject = "terminal" /\ Term!Answer)

ConsoleSpec == ConsoleInit /\ [][ConsoleNext]_allVars /\ Fairness

-----------------------------------------------------------------------------
\* A terminal shows no session but that of the focused run, and none is left
\* waiting for nothing (terminal/index.tsx:167).  On a phone its modifiers end
\* with their press or the focus, a touch does one thing, and the system's
\* keyboard is seen as it is (mobile-keyboard-slot.tsx:171, use-touch-gesture.ts:130,
\* use-keyboard.ts:53).  What the console shows of Core is there or on its way: the
\* directories of the picker and of the file tree (directory-picker.tsx:155,
\* use-file-tree.ts:67), and the requests that wait for an approval
\* (approval-center.tsx:38).  What is typed goes to one run, once, and a chat
\* shows what was sent and waits for what is owed (chat-layout.tsx:149,
\* use-command-handlers.ts:28).
ConsoleFollows ==
  /\ subject = "terminal" => Term!SessionIsFocused /\ Term!NeverStuck
  /\ subject = "mobile" => Mobile!ModifiersExpire /\ Mobile!OneGesture /\ Mobile!KeyboardIsSeen
  /\ subject = "picker" => Files!NeverLoadingForEver
  /\ subject = "files" => Files!ExpandedIsFetched
  /\ subject = "approvals" => Center!WaitingIsShown /\ Center!ActingIsInFlight
  /\ subject = "chat" => Chat!ChatInputKept

\* Tabs stop being rebound once the user stops, unless run.info goes on failing
\* or requests for different runs go on crossing (terminal/index.tsx:94, :171).
TabsSettle == subject = "terminal" => Term!TabsSettle
=============================================================================
