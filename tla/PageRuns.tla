------------------------------ MODULE PageRuns -------------------------------
(***************************************************************************)
(* The runs of one page: the list that useSession keeps (lib/use-ws.ts)    *)
(* and the adapters that chat views start, restart and stop                *)
(* (plugins/claude-chat/hooks/use-adapter-lifecycle.ts and the Apply       *)
(* button of chat-layout.tsx and provider-panel.tsx).                      *)
(*                                                                         *)
(* Core is external: it serves a call in one step, tells every page of a   *)
(* run that ends, and lists the runs that live.  The answer to a call and  *)
(* the events travel apart from each other.  A link that is lost fails     *)
(* the calls in flight, whether Core has served them or not, and loses the *)
(* events of the time it is down.                                          *)
(***************************************************************************)
EXTENDS Integers

CONSTANTS
  Chats,     \* chat views, each mounted once
  Clicks,    \* bound: Apply clicks of a view that are served at a time
  RunIds,
  NoRun,
  NoChat,
  MaxDowns   \* bound: losses of the link

VARIABLES
  alive,     \* Core: the runs that live
  owner,     \* Core: the chat view that created a run
  used,      \* Core: ids given
  linked,    \* core.isConnected
  chat,      \* useAdapterLifecycle of each view
  apply,     \* handleApplyConfig: what each click waits for
  kills,     \* run.stop calls sent and not awaited (clean up of a view)
  instances, \* useSession: what the list says of each run
  active,    \* activeInstanceId
  listing,   \* run.list: what refreshRuns waits for
  page,      \* createInstance and killInstance: what they wait for
  stops,     \* session.stopped on its way
  downs,
  rushed,    \* history: views left, or applied again, while a click was served
  unstopped, \* history: runs whose stop was never sent, or was lost
  stale      \* history: runs whose end the list has missed

coreVars == <<alive, owner, used>>
chatVars == <<chat, apply, kills, rushed>>
listVars == <<instances, active, listing, page>>
pageRunsVars == <<coreVars, chatVars, listVars, linked, stops, downs, unstopped, stale>>

Hook == [mounted: BOOLEAN, ref: RunIds \cup {NoRun},
         status: {"idle", "creating", "running", "stopped", "error"}]
Idle == [step |-> "none", run |-> NoRun]
NoList == [step |-> "none", runs |-> {}]

PageRunsTypeOK ==
  /\ alive \subseteq used /\ used \subseteq RunIds /\ owner \in [RunIds -> Chats \cup {NoChat}]
  /\ linked \in BOOLEAN /\ chat \in [Chats -> Hook]
  /\ apply \in [Chats -> [Clicks -> [step: {"none", "stop", "stopped", "create", "created"},
                                     run: RunIds \cup {NoRun}]]]
  /\ kills \subseteq used /\ stops \subseteq used
  /\ instances \in [RunIds -> {"absent", "running", "stopped"}] /\ active \in RunIds \cup {NoRun}
  /\ listing \in [step: {"none", "asked", "answered"}, runs: SUBSET RunIds]
  /\ page \in [step: {"none", "create", "created", "kill"}, run: RunIds \cup {NoRun}]
  /\ downs \in 0..MaxDowns /\ rushed \subseteq Chats /\ unstopped \subseteq used /\ stale \subseteq used

-----------------------------------------------------------------------------
\* What a run's end does: the page is told, if the link is up; an answer of
\* run.list on its way still names it.
Ends(run) ==
  /\ alive' = alive \ {run}
  /\ stops' = IF linked /\ run \in alive THEN stops \cup {run} ELSE stops
  /\ stale' = IF ~linked \/ run \in listing.runs THEN stale \cup {run} ELSE stale
  /\ UNCHANGED <<owner, used>>

First(runs) == CHOOSE run \in runs : \A other \in runs : run <= other

Starts(run, by) ==
  /\ run \notin used /\ run = First(RunIds \ used)
  /\ alive' = alive \cup {run} /\ used' = used \cup {run}
  /\ owner' = [owner EXCEPT ![run] = by]

LinkKept == UNCHANGED <<linked, downs>>
ChatsKept == UNCHANGED chatVars
CoreKept == UNCHANGED <<coreVars, stops, stale>>

-----------------------------------------------------------------------------
\* createAdapter up to its await: without a link it does nothing.
Creating(c, k) ==
  IF linked THEN /\ chat' = [chat EXCEPT ![c].ref = NoRun, ![c].status = "creating"]
                 /\ apply' = [apply EXCEPT ![c][k] = [step |-> "create", run |-> NoRun]]
            ELSE /\ chat' = [chat EXCEPT ![c].ref = NoRun,
                                         ![c].status = IF chat[c].ref = NoRun THEN @ ELSE "stopped"]
                 /\ apply' = [apply EXCEPT ![c][k] = Idle]

\* An adapter that runs is stopped first.
Restarts(c) == chat[c].ref # NoRun

\* The Apply button, which is disabled while an adapter is being created
Apply(c, k) ==
  /\ chat[c].mounted /\ chat[c].status # "creating" /\ apply[c][k] = Idle
  /\ rushed' = IF \E j \in Clicks : apply[c][j] # Idle THEN rushed \cup {c} ELSE rushed
  /\ IF Restarts(c) /\ linked
       THEN /\ apply' = [apply EXCEPT ![c][k] = [step |-> "stop", run |-> chat[c].ref]]
            /\ UNCHANGED <<chat, unstopped>>
       ELSE /\ Creating(c, k)
            /\ unstopped' = IF Restarts(c) THEN unstopped \cup {chat[c].ref} ELSE unstopped
  /\ CoreKept /\ LinkKept /\ UNCHANGED <<kills, listVars>>

At(c, k, step) == apply[c][k].step = step

CoreStops(c, k) ==
  /\ At(c, k, "stop") /\ Ends(apply[c][k].run)
  /\ apply' = [apply EXCEPT ![c][k].step = "stopped"]
  /\ LinkKept /\ UNCHANGED <<chat, kills, rushed, listVars, unstopped>>

\* stopAdapter goes on, then createAdapter.
StopAnswered(c, k) ==
  /\ At(c, k, "stopped") /\ Creating(c, k)
  /\ CoreKept /\ LinkKept /\ UNCHANGED <<kills, rushed, listVars, unstopped>>

CoreCreates(c, k, run) ==
  /\ At(c, k, "create") /\ Starts(run, c)
  /\ apply' = [apply EXCEPT ![c][k] = [step |-> "created", run |-> run]]
  /\ LinkKept /\ UNCHANGED <<chat, kills, rushed, listVars, stops, stale, unstopped>>

CreateAnswered(c, k) ==
  /\ At(c, k, "created")
  /\ chat' = [chat EXCEPT ![c].ref = apply[c][k].run, ![c].status = "running"]
  /\ apply' = [apply EXCEPT ![c][k] = Idle]
  /\ CoreKept /\ LinkKept /\ UNCHANGED <<kills, rushed, listVars, unstopped>>

\* Core refuses, or answers without an id.
CreateFails(c, k) ==
  /\ At(c, k, "create")
  /\ chat' = [chat EXCEPT ![c].status = "error"] /\ apply' = [apply EXCEPT ![c][k] = Idle]
  /\ CoreKept /\ LinkKept /\ UNCHANGED <<kills, rushed, listVars, unstopped>>

\* Mutant: a view that is left stops nothing.
UnmountKills(c) == {}

\* The clean up of a view: it knows the run of instanceIdRef alone.
CleanUp(c) == IF chat[c].ref # NoRun /\ linked THEN {chat[c].ref} ELSE {}

Unmount(c) ==
  /\ chat[c].mounted /\ chat' = [chat EXCEPT ![c].mounted = FALSE]
  /\ kills' = kills \cup CleanUp(c)
  /\ unstopped' = IF chat[c].ref # NoRun /\ ~linked THEN unstopped \cup {chat[c].ref} ELSE unstopped
  /\ rushed' = IF \E k \in Clicks : apply[c][k] # Idle THEN rushed \cup {c} ELSE rushed
  /\ CoreKept /\ LinkKept /\ UNCHANGED <<apply, listVars>>

CoreKills(run) ==
  /\ run \in kills /\ kills' = kills \ {run} /\ Ends(run)
  /\ LinkKept /\ UNCHANGED <<chat, apply, rushed, listVars, unstopped>>

-----------------------------------------------------------------------------
\* A run ends by itself.
RunExits(run) ==
  /\ run \in alive /\ Ends(run)
  /\ LinkKept /\ ChatsKept /\ UNCHANGED <<listVars, unstopped>>

\* refreshRuns, when the link is up: its mount, and each 'connected' event
Refresh ==
  /\ linked /\ listing.step = "none" /\ listing' = [step |-> "asked", runs |-> {}]
  /\ CoreKept /\ LinkKept /\ ChatsKept /\ UNCHANGED <<instances, active, page, unstopped>>

CoreLists ==
  /\ listing.step = "asked" /\ listing' = [step |-> "answered", runs |-> alive]
  /\ CoreKept /\ LinkKept /\ ChatsKept /\ UNCHANGED <<instances, active, page, unstopped>>

\* Mutant: what the answer does not name stays.
ListedMerged(runs) ==
  [run \in RunIds |-> IF run \in runs THEN "running" ELSE instances[run]]

\* The answer replaces the list.
Listed(runs) == [run \in RunIds |-> IF run \in runs THEN "running" ELSE "absent"]

ListAnswered ==
  /\ listing.step = "answered" /\ listing' = NoList
  /\ instances' = Listed(listing.runs)
  /\ stale' = stale \cap listing.runs
  /\ active' = IF active = NoRun /\ listing.runs # {} THEN First(listing.runs) ELSE active
  /\ LinkKept /\ ChatsKept /\ UNCHANGED <<coreVars, page, stops, unstopped>>

\* session.stopped
SessionStopped(run) ==
  /\ run \in stops /\ stops' = stops \ {run}
  /\ instances' = IF instances[run] = "absent" THEN instances
                  ELSE [instances EXCEPT ![run] = "stopped"]
  /\ LinkKept /\ ChatsKept /\ UNCHANGED <<coreVars, active, listing, page, stale, unstopped>>

\* createInstance and killInstance
CreateInstance ==
  /\ linked /\ page = Idle /\ page' = [step |-> "create", run |-> NoRun]
  /\ CoreKept /\ LinkKept /\ ChatsKept /\ UNCHANGED <<instances, active, listing, unstopped>>

CoreServesCreate(run) ==
  /\ page.step = "create" /\ Starts(run, NoChat)
  /\ page' = [step |-> "created", run |-> run]
  /\ LinkKept /\ ChatsKept /\ UNCHANGED <<instances, active, listing, stops, stale, unstopped>>

\* A run that has ended by now is listed as running all the same.
InstanceCreated ==
  /\ page.step = "created" /\ page' = Idle
  /\ instances' = IF instances[page.run] = "absent"
                    THEN [instances EXCEPT ![page.run] = "running"] ELSE instances
  /\ active' = page.run
  /\ stale' = IF page.run \in alive THEN stale ELSE stale \cup {page.run}
  /\ LinkKept /\ ChatsKept /\ UNCHANGED <<coreVars, listing, stops, unstopped>>

\* The run leaves the list before Core is asked.
KillInstance(run) ==
  /\ instances[run] # "absent" /\ page = Idle
  /\ instances' = [instances EXCEPT ![run] = "absent"]
  /\ active' = IF active = run THEN NoRun ELSE active
  /\ page' = IF linked THEN [step |-> "kill", run |-> run] ELSE Idle
  /\ CoreKept /\ LinkKept /\ ChatsKept /\ UNCHANGED <<listing, unstopped>>

CoreServesKill ==
  /\ page.step = "kill" /\ page' = Idle /\ Ends(page.run)
  /\ LinkKept /\ ChatsKept /\ UNCHANGED <<instances, active, listing, unstopped>>

-----------------------------------------------------------------------------
\* The link is lost: what is in flight fails.  A stop that fails is taken for
\* done, and the adapter is created again only with a link.
LinkLost ==
  /\ linked /\ downs < MaxDowns /\ linked' = FALSE /\ downs' = downs + 1
  /\ apply' = [c \in Chats |-> [k \in Clicks |->
       IF apply[c][k].step \in {"stop", "stopped"} THEN [apply[c][k] EXCEPT !.step = "stopped"] ELSE Idle]]
  /\ chat' = [c \in Chats |->
       IF \E k \in Clicks : apply[c][k].step \in {"create", "created"}
         THEN [chat[c] EXCEPT !.status = "error"] ELSE chat[c]]
  /\ unstopped' = unstopped \cup kills \cup
       {run \in used : \E c \in Chats, k \in Clicks :
          apply[c][k].run = run /\ apply[c][k].step \in {"stop", "created"}}
  /\ listing' = NoList /\ page' = Idle /\ kills' = {} /\ stops' = {} /\ stale' = stale \cup stops
  /\ UNCHANGED <<coreVars, rushed, instances, active>>

\* 'connected'
LinkBack ==
  /\ ~linked /\ linked' = TRUE
  /\ listing' = [step |-> "asked", runs |-> {}]
  /\ CoreKept /\ ChatsKept /\ UNCHANGED <<instances, active, page, downs, unstopped>>

PageRunsInit ==
  /\ alive = {} /\ used = {} /\ owner = [run \in RunIds |-> NoChat]
  /\ linked = TRUE /\ downs = 0
  /\ chat = [c \in Chats |-> [mounted |-> TRUE, ref |-> NoRun, status |-> "idle"]]
  /\ apply = [c \in Chats |-> [k \in Clicks |-> Idle]]
  /\ kills = {} /\ stops = {}
  /\ instances = [run \in RunIds |-> "absent"] /\ active = NoRun
  /\ listing = [step |-> "asked", runs |-> {}] /\ page = Idle
  /\ rushed = {} /\ unstopped = {} /\ stale = {}

PageRunsNext ==
  \/ \E c \in Chats :
       \/ Unmount(c)
       \/ \E k \in Clicks :
            \/ Apply(c, k) \/ CoreStops(c, k) \/ StopAnswered(c, k) \/ CreateAnswered(c, k)
            \/ CreateFails(c, k) \/ \E run \in RunIds : CoreCreates(c, k, run)
  \/ \E run \in RunIds :
       \/ CoreKills(run) \/ RunExits(run) \/ SessionStopped(run)
       \/ CoreServesCreate(run) \/ KillInstance(run)
  \/ Refresh \/ CoreLists \/ ListAnswered \/ CreateInstance \/ InstanceCreated \/ CoreServesKill
  \/ LinkLost \/ LinkBack

-----------------------------------------------------------------------------
\* An adapter that lives is the one its view knows and would stop, or is about
\* to be known or stopped, unless the view was left or applied again while it
\* was starting one, or the stop was lost (use-adapter-lifecycle.ts:34).
AdaptersAreOwned ==
  \A run \in alive :
    LET c == owner[run]
    IN c # NoChat /\ c \notin rushed /\ run \notin unstopped =>
         \/ chat[c].mounted /\ chat[c].ref = run
         \/ run \in kills
         \/ \E k \in Clicks : apply[c][k].step = "created" /\ apply[c][k].run = run

\* A run listed as running lives, unless its end is being told, fell into a gap
\* of the link, or was overtaken by the answer that names it (use-ws.ts:94, :135).
ListedIsAlive ==
  \A run \in RunIds : instances[run] = "running" => run \in alive \cup stops \cup stale
=============================================================================
