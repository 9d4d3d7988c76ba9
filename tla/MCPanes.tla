------------------------------- MODULE MCPanes -------------------------------
(***************************************************************************)
(* What a page shows and keeps: the layouts of its nodes and their copy in *)
(* localStorage, the panes and tabs of one layout, and the output of a     *)
(* terminal in a tab.  They share no state.  A behaviour is one of one of  *)
(* them, the subject, the others stay as they are initially.               *)
(***************************************************************************)
EXTENDS ConsoleLayouts, Integers

CONSTANTS
  NoPane, MaxPaneTabs, MaxPanes, MaxKept, MaxIds,
  Sessions, NoSession, FromSeq, MaxChunks, MaxOutages

VARIABLES
  subject,
  main, dock, focused, kept, counter, unsplit,
  shown, phase, from, replay, times, failed, held, leaving, subscribed,
  chunks, pushed, wire, outages, eager

Bench == INSTANCE Workbench
Output == INSTANCE TerminalOutput WITH link <- wire

\* The first pane and its tab take two ids.
ASSUME PanesBounds ==
  /\ MaxIds \in Nat \ {0, 1} /\ MaxChunks \in Nat /\ FromSeq \in Nat
  /\ NoPane \notin Bench!Pane

benchVars == <<main, dock, focused, kept, counter, unsplit>>
outputVars == <<shown, phase, from, replay, times, failed, held, leaving, subscribed,
                chunks, pushed, wire, outages, eager>>
allVars == <<subject, vars, benchVars, outputVars>>

MCInit ==
  /\ subject \in {"layouts", "bench", "output"}
  /\ Init /\ Bench!WorkbenchInit /\ Output!Init
  /\ subject # "output" => ~eager

LayoutsStep == subject = "layouts" /\ Next /\ UNCHANGED <<subject, benchVars, outputVars>>
BenchStep == subject = "bench" /\ Bench!WorkbenchNext /\ UNCHANGED <<subject, vars, outputVars>>
OutputStep == subject = "output" /\ Output!Next /\ UNCHANGED <<subject, vars, benchVars>>

MCNext == LayoutsStep \/ BenchStep \/ OutputStep

MCSpec ==
  MCInit /\ [][MCNext]_allVars /\ WF_vars(subject = "layouts" /\ SaveTimerFires)

-----------------------------------------------------------------------------
\* Panes, tabs, active tabs and focus of a workbench agree (workbench-state.ts).
LayoutIsWhole == subject = "bench" => Bench!LayoutIsWhole

\* Replay and live output together leave no gap (terminal-session.ts:142).
NoGap == subject = "output" => Output!NoGap
=============================================================================
