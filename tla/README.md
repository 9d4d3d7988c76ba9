# A verification project for SessionBridge Web

SessionBridge Web is the browser console and plugin host of SessionBridge: a
Next.js application whose pages talk to an external Go Core through the
application's own server. The repository also keeps the TypeScript core that came
before it (`docs/archive/core-legacy-2026-05-19`, "the archive" below): a relay,
agents with an extension host, and a page. This directory holds TLA+ models of
the parts of both that are stateful and concurrent, the TLC runs that check them,
and TLAPS proofs of the properties that matter most. Paths below are relative to
`src/`.

The Go Core, the browser (EventSource, WebSocket, fetch, timers, storage), React,
Next.js and Node are external: they are modelled by what the code relies on, and
the text says what is assumed of them.

## The system

JavaScript runs one callback at a time, on the page and on the server. What is
hard is therefore never a data race between two instructions but the order of
callbacks: what happens between the moment a call, a timer or a subscription is
started and the moment its answer is handled. Each action of the models is one
such callback with everything it calls, renders and effects included.

| Component | Code | State | Operations and interactions | Correct means |
|---|---|---|---|---|
| Proxy core client | `app/console/core/proxy-core-client.ts` | one EventSource, status, backoff timer and attempts, 2 s probe | `on`, `disconnect`, `call` of the page; stream events, two kinds of probe, two timers | one stream; none after `disconnect`; a status that matches the stream; recovery |
| Events route | `app/api/core/events/route.ts` | per request: WebSocket to Core, `cleanup`, two timers, the stream | health probe, WebSocket callbacks, abort and cancel of the browser | every client answered; everything released; well-formed stream |
| Direct core client | `app/console/core/core-client.ts` | one WebSocket, pending calls, reconnect timers | `connect`, `disconnect`, `call`, answers, timeouts, close events | a call settles once; recovery; no silent death |
| Provider and mesh routing | `app/console/core/core-client-provider.tsx`, `proxy-core-client.ts`, `stage/node-bar.tsx`, `panels` | target node, reachable nodes, identity | node entered and left, calls in flight | a call reaches, and an answer is shown for, the node it was made for |
| Claude adapter process | `plugins/claude-chat/adapter` | `running`, `abortController`, `pendingToolResult`, activations of an async loop | JSON lines on stdin, provider streams | one result per turn; an answer read however it is cut |
| Claude chat plugin | `plugins/claude-chat/hooks`, `views`, `app/console/hooks/use-command-handlers.ts` | messages and phase of the reducer, the one input value of the page | sends to the adapter, parses its events; button and Enter | no turn runs for ever; what is typed goes to one run, once |
| Runs and adapter life cycle | `lib/use-ws.ts`, `plugins/claude-chat/hooks/use-adapter-lifecycle.ts` | list of runs; the run behind a chat | list, create, kill, events; create, stop, unmount | the list follows Core; no orphan run |
| Terminal view | `plugins/terminal/index.tsx` | session, picker, `autoCreated` per mounted tab | restore, list, create, pick; binds the tab of the console | the session shown is the focused run; never stuck |
| Terminal session | `plugins/terminal/terminal-session.ts`, `lib/terminal-input-buffer.ts` | input buffer and timer; replay, subscription | keys, flushes, replay, live chunks, dispose | no key or chunk lost, none to another session |
| Workbench layouts | `app/console/controller`, `app/console/stage/workbench-persistence.ts` | `instanceStates`, node entered, bar, `localStorage` | restore, debounced save, reload, enter, leave, bind, close | no layout lost; what is shown is stored |
| Workbench reducer | `app/console/stage/workbench-state.ts` | panes, tabs, active tab, kept tabs, dock | actions of the reducer | tab lists, active tab and focus agree |
| Plugin sync and app registry | `app/lib/app-registry`, `app/console/core/use-app-sync.ts`, `plugins/plugin-manager` | app list, enabled flags, manifests, what is registered, a lock | load, toggle, grant, sync | registered = enabled once idle; the page mirrors the server |
| Plugin host | `app/console/plugin-host`, `commands`, `menus`, `panels`, `lib/slot-registry`, `lib/evaluate-when.ts` | views, panels, commands, keyboard, slots | filled and emptied by the plugin sync; conditions and menus choose | nothing of a disabled app stays; a condition holds when it means so |
| Settings, picker, file tree, approvals, phone | `settings-panel.tsx`, `dialogs/directory-picker.tsx`, `files/use-file-tree.ts`, `overlays/approval-center.tsx`, `chrome` | what is typed, fetched, awaited or touched | calls in flight while the user goes on | edits kept; nothing waits for ever; modifiers end |
| Server state and Core start | `app/api/core`, `lib/server-state`, `lib/core-target.ts` | target in memory and on disk, child process | GET, PUT, start, reconnects of pages | streams go where calls go; memory and disk agree |
| Login and sessions | `app/api/auth`, `lib/auth`, `proxy.ts` | password file, cookies | setup, login, logout | one first setup wins; a session holds |
| App state and install routes | `app/api/apps`, `app/lib/install-manager.ts` | JSON files | list, manifest, state, install | a record tells what became of its install |
| Archive: relay | `src/relay-server.ts`, `src/state-bridge`, `src/instance-manager.ts`, `src/session-persistence.ts` | instances, shells, surfaces, tabs, nodes, sessions, entries of a state bus | sockets of browsers, agents and other relays; restart | what runs is found, listed and shown by all who share it |
| Archive: agent | `agent-core` | connection, shells, operations, extension host | reconnect, crash, fork, reload | no shell forgotten; one host; every operation ends |
| Archive: page | `lib/ws-client.ts`, `app/page.tsx` | socket, instances, tabs | hello, encrypted messages, edits of tabs | it lists what the relay has |
| Core call and health routes, message store, stream managers, shell, SDK, desktop, scripts | | none that lasts, or used by nothing | | |

`PROJECT.json` lists each of them with its files, its status and what is left
out; its `hazards` are the places where a test would hardly reach.

## Modules

A run checks several components that share no state: its `MC` module instantiates
each of them and picks one, the `subject`, in the initial state; a behaviour is
one of the subject while the others stay as they are initially. So every run is a
disjoint union of state spaces, and each property speaks of the subject it is
about.

| MC module | Components | Proofs |
|---|---|---|
| `MCLinks` | `ProxyCoreClient` (refines `CoreLink`), `SseBridge` (refines `EventStream`), `CoreClientDirect` (refines `CoreLink`), `TerminalInput`, `RelayClient` | `LinksProofs` |
| `MeshRouting` (its own) | | `AgentsProofs` |
| `MCServices` | `ServerRoutes` (login, installs, Core's target and start), `PageRuns` | `ServicesProofs` |
| `MCPanes` | `ConsoleLayouts`, `Workbench`, `TerminalOutput` | `PanesProofs` |
| `MCRegistries` | `PluginSync`, `Contributions`, `SettingsEdits` | `RegistriesProofs` |
| `MCConsole` | `TerminalTabs`, `MobileInput`, `FileBrowsing`, `Approvals`, `ChatInput` | `ConsoleProofs` |
| `MCAgents` | `ClaudeChat`, `ProviderStreams`, `AgentNode`, `ExtensionHost` | `AgentsProofs` |
| `MCRelay` | `StateSync`, `RelayInstances`, `RelaySurfaces`, `RelayNodes`, `ArchivedPage`, `ExtensionLoader` | `RelayProofs`, `RelayOutputProofs` |

### The console

**ProxyCoreClient.** `es` is `_eventSource`, `sse` the state of every EventSource
object, in the browser and on the server; `probes` and `healthCalls` count the
two kinds of fetch in flight, `reconnectTimer` and `probeTimer` the two timers.
`On`, `Disconnect` and `CallSettles` are the page's calls, `StreamOpens`,
`BridgeConnected`, `CoreOffline`, `ServerError`, `NetworkError` and `FatalError`
the stream's events, the rest timers and answers. `faults` says which failures
the deployment has at all (an answer other than 200, a constructor that
throws), because what the client owes depends on it. The abstract link is
`linked` exactly while the current stream is bridged.

**SseBridge.** A request's closure variables, the WebSocket, and `out`, the
events the browser has received. Requests share nothing, so one is enough. What
`ProxyCoreClient` assumes of a stream is `EventStream`, which `SseBridge`
implements: one announcement, then messages, one farewell at most.

**CoreClientDirect.** `sock` gives every WebSocket its `readyState`, so that the
close event of a forgotten socket can arrive late; `timers` counts reconnect
timers, whose handles the code does not keep.

**MeshRouting.** `entered` is the node of the console, `target` that of the
client, `calls` the bag of calls in flight, each with the node it was sent to and
what it is for. Effects belong to the action that renders them and run in the
order of their text: that order is what `InfoIsOfEntered` is about. A panel does
not see `entered`: the console's effect sets `activeNode` of the provider, the
panel has it a render later (`rendered`), and its effect calls with the target
that the client has by then. Nothing in the model says that the two agree.

**ServerRoutes, PageRuns.** Three groups of routes with the pages that call them.
A handler is interrupted where it awaits (the file of the password, a probe, a
spawned process) and nowhere else. The route that starts Core probes the target,
while a Core it starts listens on 9090: a probe that is late or answered badly
spawns one although a Core listens. A request of an install may be lost before the
server has handled it, or its answer after. `PageRuns` has the runs that a page lists and
the adapters that chat views start, restart and stop over a link that is lost.

**ClaudeChat, ProviderStreams.** An activation of `callProvider` is
a member of `Runs` with a `phase`; the three globals are variables of their own.
`ClaudeChat` puts the plugin's reducer at one end of `stdin` and `stdout`, two
ordered channels, and the adapter at the other. `ProviderStreams` reads an answer
in pieces that end anywhere and compares the events with those of the whole.

**ChatInput.** The one input value and phase of a page, the adapters of its chat
views, and the two ways a text leaves the page: the button submits to the chat,
Enter writes to the active run.

**TerminalTabs.** `view[t]` holds the React state of the `TerminalView` of tab
`t`, `requests` is the bag of calls in flight. `Render` applies the effects of a
change of the focused run to every mounted view, as React does in one commit. An
id of a run that nothing refers to any more is used for the next run, so that
views may go on creating for ever.

**TerminalInput, TerminalOutput.** The two directions of a session. Keys are
numbered as typed, chunks as produced, so that a duplicate and a loss can be told
apart. Which session is shown is an input here and the subject of `TerminalTabs`.

**ConsoleLayouts, Workbench.** `layouts` is `instanceStates`, `saved` what
localStorage holds, a layout reduced to whether it shows a view and the run that
view is bound to. `Restore`, `Stored` and `SaveLater` are the three effects of
the controller that matter. `Workbench` has the layout itself: its panes from
left to right, their tabs, the dock and the tabs that are kept, and one action
for each action of the reducer with the controls that dispatch it.

**PluginSync, Contributions, SettingsEdits.** `known` is the page's `_states`,
`stored` the server's `app-state.json`. `phase` says which await of
`syncAllPlugins` is pending and is the lock `_syncLock` as well. `Loop` is what
the sync does in one callback, from the manifest that has arrived to the next one
it has to fetch or to the end. `gets` and `puts` are the requests for the state
of an app, each with an answer that the server may have given before the page
handles it. `Contributions` has the registries: `todo` is what the loop has not
come to, `fetching` the app whose manifest it awaits, `entry` the owner of a view
or command. Its conditions are sequences of tokens, for both evaluators, against
the tree they were written from; its menus sequences of offers. `SettingsEdits`
has `dirtyMap` and the save in flight, key by key, and the settings of a plugin,
which every render reads again.

**MobileInput, FileBrowsing, Approvals.** Touch, keyboard and sticky modifiers with
their timers; the picker and the file tree with their listings in flight; and
the requests that wait in Core with what a page has heard of them.

### The archive

**StateSync.** One entry of the state bus on two nodes: written, deleted, expired,
pushed, saved and restored.

**RelayInstances.** Two subjects. Shells: processes, handles, write locks and the
sessions by which a browser that comes back is told of its shells. Sessions: the
instances of every source with the file they are restored from, over agents that
come and go, a graceful shutdown and a crash.

**RelaySurfaces.** Two subjects. Surfaces that a hub and its leaves share, each with
the tabs it derives from them; and the output of one process on its way to the
terminals at either, with replay and lost links.

**RelayNodes.** Nodes, what runs on them and the surfaces of it, over agents that
lose their connection and a relay that restarts. The program's own agent reports
under its configured id, a named one under the id the relay gave it; of the named
ones `ordered` are those of which the relay reads an old connection to its end
before a new one. Browsers open nodes and surfaces, keep and un-keep them: a
surface opened whose process the relay has no instance of is orphaned or deleted.

**ArchivedPage, RelayClient.** The tabs of a node on several pages that exchange
whole lists with the relay; and a page's socket with its handshake, asynchronous
decryption and list of instances.

**AgentNode, ExtensionHost, ExtensionLoader.** The connection of an agent and the
shells it keeps, an operation that it runs for browsers that join at any time,
the process that hosts extensions with its requests, crashes and reloads, and
what a scan loads and reports. How late the close event of a killed shell may come
is a choice of each behaviour (`prompt`); files change at any time, also between
the first activation and the start of the watcher.

## Runs

| Run | Distinct states | What it shows |
|---|---|---|
| `links` | 171,000 | `OneLiveStream`: never two EventSources; `QuietAfterDisconnect`: nothing opens a stream after `disconnect`; `NeverStranded`: a stream, timer or probe is always under way; `ImplementsCoreLink`, recovery included. `RouteSettles`: every client of the events route is answered, everything released; `ImplementsEventStream`. `DirectSettles`, `DirectImplementsCoreLink` for the direct client. `KeysArrive`: no key is lost, doubled or sent to another session. `ArchivedPageAgrees`: the archived page comes back and lists what the relay has |
| `mesh_routing` | 2.1 million | `TargetFollowsEntered`; `PanelShowsNodeAsked`; `BarCatchesUp`: left alone, the node bar lists the trusted peers and covers no node that is reachable |
| `services` | 5.5 million | `StreamFollowsCalls`: the page that changed the target last has its stream where its calls go; `TargetSurvivesRestart`; `SessionsHold`; `OutcomesAreTheirOwn`: no more records of success than successes, and a record tells of its own install; `RunsAreKnown`: no adapter without an owner, no dead run listed |
| `panes` | 3.0 million | `ActiveHasLayout`, `SavedLayoutsKept`, `EditsPersist` of the layouts; `LayoutIsWhole` of the reducer; `NoGap` of a terminal's output |
| `registries` | 5.7 million | `RegisteredAsEnabled`, `MirrorsServer` of the sync; `RegistriesHoldTheActive`; `ShownAsDeclared`: conditions mean what they say for both evaluators, a menu merges its sources; `EditsKept` of the settings |
| `console` | 2.2 million | `ConsoleFollows`: the session shown is the focused run and no view waits for nothing, modifiers end with their press, a touch does one thing, directories and approvals are there or on their way, what is typed goes to one run once; `TabsSettle`: tabs stop being rebound, but for two loops |
| `agents` | 406,000 | `TurnsAreOwed`: a running turn is owed an end, plain turns write one result, pieces do not matter; `SubscribersAgree` of an operation; `ShellsKnown`; `HostIsCurrent`: one host, its manifests current; `Settles`: turns, operations, nodes and requests end |
| `relay` | 3.9 million | `NodesAgree` of the state bus; `RelaysAgree`: relays and pages agree on surfaces and tabs; `ShellsFound`: a process is the handle of its instance, a browser finds its shells, output arrives; `AgentsListed`: agents, what they report and the peers shown; `ReportIsTrue` of the extensions |
| `proxy_client_stale_backoff` | violation | `SkipsOnlyWhenScheduled`: an error is left to a backoff that is not scheduled |
| `mesh_node_info` | violation | `InfoIsOfEntered`: entering a node asks the node that was left |
| `claude_one_run` | violation | `OneRun`: two activations of `callProvider` side by side |
| `plugin_sync_hot_reload` | violation | `HotReload`: a toggle answered during a loop is not followed by a sync |

The type invariant of a module is proved where its proofs are, for every value of
the constants.

### Bounds

Every bound is a constant of the module that has it. They are chosen by what the
code can confuse: two of whatever shares a variable, one more than the number that
races, a counter that saturates where the code stops looking at it.

- `links`: two EventSource objects (a third is never alive beside a live one),
  reused when closed; two probes and two health calls in flight, so that answers
  come in either order; attempts saturate at 2, because the code compares them
  with 0 only; one request of the route with six messages; three sockets of the
  direct client, one more than the two that race, and one call, because calls
  share only the loop that rejects them; a buffer of three keys instead of 4,096
  bytes, four keys, two sessions, so that it fills, empties and one key follows;
  three links of the archived page, two ids.
- `mesh_routing`: the local node and one remote, two calls in flight, two moves
  of the user (a node entered, left, dismissed or invited, a panel opened), so that
  one is between the effect of the other and its answer; one fault.
- `services`: two pages, two ports, two starts of Core and two changes of the
  target; two browsers, two handlers in flight, two passwords, one crash; two
  installs of one dependency; one chat view with two clicks and one lost link.
- `panes`: the local node under its two keys, one run (two keys are what it takes
  to lose one layout while another is stored); two panes of two tabs, one kept
  tab; three chunks per session, one outage, replay from chunk 2 instead of 20,
  so that there are chunks before, in and after the replay.
- `registries`: two apps, so that one can be toggled while the loop waits for the
  other's manifest, and two PUTs, so that two overlap; three ids, one of them the
  page's own and one with the prefix of its app; conditions over two atoms with
  up to three levels of operators; three offers of a menu; two keys, two edits,
  one read of the settings in flight.
- `console`: two tabs, two ids of runs that are used again, three requests and two
  moves, enough for a change
  of focus and back while both restores are in flight; three touches; four
  directories and two fetches; two requests for approval, two breaks of the link;
  two chats, three texts.
- `agents`: two activations of the loop and two messages, all that the globals can
  confuse; one output, two browsers and a buffer of two for an operation; four
  shells over two losses; three hosts with four requests and one respawn.
- `relay`: two peers with two writes; two sockets, one client, three processes;
  a hub and two leaves with one surface and two titles; two agents of two labels,
  two instances; two pages with two terminals and two edits; one viewer at
  either relay, three chunks, one reconnect; one agent over two connections and
  one restart with five instances and two surfaces, so that the first connection
  can still be read after the second has reported; two extensions, two scans.

### Fairness

Only what the platform gives: timers fire, fetch calls settle (every call has a
timeout: `AbortSignal.timeout`, the 15 s timers of the routes), the browser
retries a stream it has lost and reports the end of one it has read, a WebSocket
that is being closed ends up closed, Next.js cancels the stream of an aborted
request, lines between two processes are delivered, a provider's stream ends, a
killed process exits, what is decrypted resolves. Nothing is assumed of the user.
Of Core and the network nothing is assumed but by properties that ask for
recovery, and these only from a moment `calm` (or `settled`) on, which is a choice
of the environment and need not come. `EditsPersist` speaks only of a console that
is left alone: the timer of the auto-save is re-armed by each change, so a console
that keeps changing need not be stored at all.

## Proofs

Every theorem is about all values of the constants, with the assumptions the
modules name. They are `AppsAssumption`, `RunsAssumption`, `NodesAssumption`,
`ChatAssumption` (there is an app, a run; `NoStream`, `NoNode` are no streams, no
nodes) and those of the MC modules: `MeshBounds`, `ServicesBounds`,
`AgentsBounds`, `PanesBounds`, `RelayBounds`, `OwnersBounds`, `SettingsBounds`,
`ConsoleBounds`, `ConsoleNames`, `ConsoleTabs`, which say that bounds are numbers,
that the absent is none of what can be present, that an agent has a label, that no
leaf or terminal is called what a relay calls itself or a leaf, and that a page
starts with a list of tabs. The specification of a theorem is the one its run
checks, wherever the run composes several components.

| Theorem | Property | Inductive invariant |
|---|---|---|
| `LinksProofs` `OneLiveStreamCorrect`, `QuietAfterDisconnectCorrect`, `NeverStrandedCorrect` | of the same name | `StreamInv`, `RecoveryInv` |
| `Implementation`, `StatusHeldCorrect`, `ProbeTimerHasStreamCorrect` | safety part of `CoreLink`; two step properties | `StreamInv /\ NothingUnwanted` |
| `EventStreamImplemented` | `ImplementsEventStream` | `BridgeInv /\ SentInv` |
| `WritableUnlessCleanedUpCorrect`, `OrphanOnlyAfterEarlyAbortCorrect` | | `BridgeInv` |
| `ServicesProofs` `SessionsHoldCorrect`, `StreamFollowsCallsCorrect`, `TargetSurvivesRestartCorrect`, `OutcomesAreTheirOwnCorrect`, `RunsAreKnownCorrect` | of the same name | `ServicesInv` |
| `PanesProofs` `ActiveHasLayoutCorrect`, `SavedLayoutsKeptCorrect` | of the same name | `Inv` |
| `LayoutIsWholeCorrect`, `NoGapCorrect` | of the same name | `BenchInv`, `OutputInv` |
| `RegistriesProofs` `RegisteredAsEnabledCorrect`, `PanelsFollowViewsCorrect`, `MirrorsServerCorrect` | of the same name | `SyncInv`, `MirrorInv` |
| `RegistriesHoldTheActiveCorrect` | `RegistriesHoldTheActive` | `ContribInv` |
| `EditsKeptCorrect` | `EditsKept` | `SettingsInv` |
| `AgentsProofs` `ShellsKnownCorrect`, `SubscribersAgreeCorrect`, `HostIsCurrentCorrect` | of the same name | `NodeInv`, `OpsInv`, `HostInv` |
| `TargetFollowsEnteredCorrect`, `PanelShowsNodeAskedCorrect` | of the same name | `RoutingInv` |
| `ChatTurnsAreOwed` | the half of `TurnsAreOwed` about chats | `ChatInv` |
| `ConsoleProofs` `ConsoleFollowsCorrect` | `ConsoleFollows` | `ConsoleInv`: `TermInv`, `MobileInv`, `PickerInv`, `TreeInv`, `CenterInv`, `ChatInv` |
| `RelayProofs` `NodesAgreeCorrect`, `ReportIsTrueCorrect` | of the same name | `StateInv`, `LoaderInv` |
| `OwnInstanceListed` | the half of `AgentsListed` about sessions | `SessInv` |
| `NodesShownCorrect` | `RunningIsShown` and `PeersTrue` of the half about nodes | `NodesInv` |
| `ShellsKeptCorrect` | the half of `ShellsFound` about shells | `ProcInv`, `RecoverInv` |
| `RelaysAgreeCorrect` | the half of `RelaysAgree` about surfaces | `SurfInv` |
| `AgentsListedCorrect` | `AgentsListed` | `NodesInv /\ ConfirmedInv`, `SessInv` |
| `RelayOutputProofs` `OutputArrivesCorrect` | the half of `ShellsFound` about output | `OutputInv` |
| `ShellsFoundCorrect` | `ShellsFound`, both halves | |

None of the properties is inductive by itself. What the invariants add, and why:

- **Streams.** `on` and a probe open a stream only if `HasStream` is false, which
  leaves no second live stream only because a live one is the current one, and
  `disconnect` leaves none only because there is no other to close; the 2 s timer
  has a stream because whatever closes the stream clears it. `NeverStranded` needs
  that the current stream is never a closed one (`CurrentIsLive`): an error that
  is left to a backoff which is not scheduled then falls on a stream that the
  browser retries by itself. Only a fatal answer leaves a closed stream behind,
  hence the premise `faults = {}`, and `RecoveryInv` keeps both. `Implementation`
  needs besides that nothing is under way before somebody subscribes
  (`NothingUnwanted`).
- **Route.** While the probe is in flight there is no socket and no timer and only
  an abort cleans up (`BeforeSocket`), a socket that lives is in `coreWs` until
  then (`Held`), an early abort is an abort, which cleans up (`Abortion`), and
  what the browser was sent is an announcement, then messages, then a farewell
  that only a clean-up writes (`SentInv`).
- **Mesh.** A panel asks for the node it has rendered with, with the target of the
  moment. That the two agree when its effect runs needs that the provider, the
  console and the client have the same node after every step (`RoutingInv`:
  `activeNode` and `target` are `entered`), which is only so because `setActiveNode`
  sets both and a new client starts with the first; a call in flight then goes to
  the node it asks about (`PanelRouted`).
- **Services.** Each part has its own invariant. One handler at a time writes the
  password file, before any browser has a session, unless two first setups
  overlapped (`OneWriter`); file and memory agree unless one was changed alone
  (`Stored`), and the page that moved the target last has still to reconnect or has
  done so since (`StreamFollowsCalls` itself, with the types, in `CoreInv`); an
  install reports its success once, before which none is counted (`ReportedOnce`),
  and while it has a status to report, the record that is running is its own
  (`OwnRecord`); a view serves one click at a time and knows the run it stops
  (`OneClick`, `StoppedIsDead`); the answer of `run.list` names runs that live, or
  whose end is noted (`ListedLives`).
- **Layouts.** Once the console has restored, the memory has a layout for every
  node the storage has one for (`Covered`): `Restore` merges the two, no edit
  removes a key, and a reload forgets that anything was restored.
  `SavedLayoutsKept` follows, because a save replaces what is stored by that.
- **Workbench and output.** Panes have different ids and no tab in common, ids are
  below the counter, and a pane shows one of its tabs unless they were renamed
  (`BenchInv`). From the moment its replay is answered, each chunk of the past is
  printed, in the replay or on its way, as long as the stream has held
  (`NothingLost`).
- **Plugin sync.** The invariant says how far the loop has come (`InLoop`): what
  it has collected is what is registered of the apps before the one it waits for,
  that one is not registered, and, if nothing changed or failed meanwhile, the
  collected apps are the enabled ones. `LoopCollects` and `LoopFollows` carry
  both from one wait to the next. `MirrorInv` says that of an app that is not
  `doubtful` at most one request is in flight, its answer is what the server
  stores, and until a PUT is answered the page knows what the server stores.
- **Registries.** An id that one app claims is the app's exactly while the app is
  registered (`Owned`), at any time. While a sync that nothing disturbed runs,
  what it has not come to is the rest of the list (`RestIsTodo`), what it has
  collected is in the order of the list (`InOrder`), and the apps it is done with
  are registered and collected exactly if they are enabled (`DoneAsEnabled`).
- **Settings.** Of a key that is not exempt, an edit is in `dirtyMap` or stored;
  what is still to be sent is as in `dirtyMap`, and what was saved is also what
  Core stores (`SavesKeep`); what is typed for a plugin and was not overwritten is
  what its save sends (`TypingKept`).
- **Agents.** A shell lives under the handle the node has of it, or is being
  killed, or has lost its place to the close event of another (`Held`, `Handles`);
  in a behaviour whose killed shells close at once none is being killed when another
  is made, so none loses its place (`prompt => Prompt`). A subscriber of an operation
  has seen what the others have, and a result is last on the link (`Agree`,
  `ResultLast`). There is one host process (`OneProcess`), and what it has activated is
  what was last read from the disk or is asked for again (`Activated`), which is what
  the disk has, but for a file that the watcher came too late for (`UpToDate`).
  While the chat shows 'running', a message, a running activation, one that waits
  for a tool, or a written result is there to end the turn, whatever results of
  tools are on their way to the adapter besides (`TurnOwed`).
- **Console.** A terminal's session is that of the run it saw focused last, and
  every render compares the two, so whatever answer binds the active tab, the
  other views forget theirs; a view that started and has nothing to show has a call
  in flight, and only a picker attaches and stops (`TermInv`). A press starts one
  timer, and clearing a modifier its timer (`ModInv`); a touch that scrolled was no
  tap, and has scrolled what was applied of its distance (`TouchInv`); what the last
  look at the viewport found is what it is (`KeyboardInv`). What is expanded was
  fetched or is being fetched (`PickerInv`, `TreeInv`). Of an approval that waits the
  request or a list that will have it is on its way, of one that is resolved the
  result, and requests come before results (`CenterInv`). What is typed is written
  to one run, and the last turn of a chat that waits is being worked on, on its way,
  or lost with a link (`ChatInv` of `ConsoleProofs`).
- **Relay.** While only one node writes and no change was lost, the other has
  nothing newer, every change on a wire is as old as what the writer has or
  older, and the last one on the way is what it has (`OneWriter`, `Follows`);
  the file has the entry (`SavedIsEntry`). Of scans that did not cross one runs at
  a time; what its diagnostics say is so for the directories left and the ids it
  has activated (`LoaderInv`). A stopped instance has no socket, a socket at most
  one instance, which came with the registration, and that of a socket that is
  open while the relay is up is there (`SessInv`).
- **Shells.** The handle of an instance is a process of its own that lives, so no
  exit of another takes it away; of an instance that was not restarted, nor started
  twice at a time, one process starts or runs, and one that was stopped and lives
  is of an instance that was deleted (`ProcInv`). While a start is pending the
  socket whose chunk caused it is open, so the shell is remembered for its browser,
  and a browser that is not connected, nor away, has asked for nothing yet
  (`RecoverInv`).
- **Surfaces.** At any time a surface is one of three things (`Phase`). The hub has
  it no more, and whatever is left of it on a leaf or on the way down ends with a
  close (`Gone`). Or it has not got it yet: the publish is the first of what its
  leaf has sent of it, and the only one (`Coming`). Or it has it (`Shared`): then
  no publish goes up and no close comes down, the surface is on each leaf it is for
  or on its way there unless that leaf has closed it (`There`), and unless the leaf
  has sent something of it up, which the hub will answer to all, the last that comes
  down to it has the title of the hub (`Agrees`). That the hub sends every update it
  applies to all leaves, the one it came from included, is what makes the last one
  win everywhere. Tabs follow their surface in every step (`TabsTrue`).
- **Output of the relay.** There is a past of each relay (`PastOf`): all it ever
  sent to terminals, of which its buffer is the end (`Kept`) and what a terminal
  was sent is a stretch (`Streamed`). The past is an existential of the invariant:
  the relay has trimmed it from its buffer, so no variable of the model has it.
  What a process wrote at its home and what came from the other relay are each in
  order in it (`Ordered`, `InTurn`), hence nothing is in it more than once, or twice
  at the leaf, which has its own output back from the hub. A terminal that has
  asked or waits has been sent nothing since it connected (`Attends`), so a replay
  is the first it gets and the only one. While the link holds, the output of a leaf
  is on its way up or at the hub, and then on its way down or back; that of the
  hub from the moment the leaf has subscribed (`NoneLost`: `WentUp`, `CameDown`).
- **Nodes.** What a queue may hold is known (`Told`, `Listens`): a connection that
  is not registered has asked for that and no more, an exit is of a process that
  is not alive, a goodbye is last and what its agent still has came over a later
  connection. A surface is under a node of the agent of its process that is no
  older than the process (`Placed`), so the surfaces that go with a node are of
  nothing that is alive; a process that runs or is announced has one (`AliveShown`,
  `SurfKnown`). None of that needs the order of two connections.
  `ReportedIsFound` does, and claims nothing of a named agent without it. For the
  others (`Sure`) the argument differs: of an `ordered` agent nothing is left of a
  connection once the next one is registered (`InOrder`), so only the connection it
  uses confirms anything, its node is its own, and no other agent's report or
  goodbye touches it; the program's own agent reports the same id over every
  connection, so an old report does no harm (`Confirmed`). Each step of a browser or
  the relay leaves a confirmed surface where it is, and orphans or deletes it only if
  the relay has no instance of its process (`Stays`): that is what opening a surface
  does, and why `Found` says less of such a process.

Only model-checked, and why:

- The liveness properties (`ImplementsCoreLink` and `DirectImplementsCoreLink`
  beyond their safety part, `RouteSettles`, `DirectSettles`, `KeysArrive`,
  `ArchivedPageAgrees`, `BarCatchesUp`, `EditsPersist`, `Settles`,
  `TabsSettle`): they rest on fairness and `ENABLED`.
- `ShownAsDeclared` and `PiecesDoNotMatter` (the providers' half of
  `TurnsAreOwed`): what a recursive function or a fold computes for every input
  needs induction over the input.
- `PagesShowSurfaces` (the half of `RelaysAgree` about pages): a page sorts and
  filters what it is sent with folds, see above.

## What the models show

Four texts of the repository are refuted by a run (`findings` in `PROJECT.json`):

1. `_backoffScheduled` of the proxy client survives the stream it was set for
   (`proxy-core-client.ts:381`): the first error of the next stream is left to a
   backoff that is not scheduled.
2. A message, or the tool result itself, starts a second activation of the
   adapter's loop next to the one that waits (`adapter/index.js:408`).
3. A toggle that is answered while a sync waits for a manifest is dropped by the
   sync's lock (`plugin-sync.ts:38`): the app stays registered, or absent, until
   something else notifies.
4. Entering a node asks `node.info` of the node that was left, because the effect
   that asks is declared before the one that sets the target
   (`use-console-controller.ts:183`).

The models also keep, and the properties are stated around, the following
behaviour. Most of it no text of the repository speaks against.

**Link.** A `node.health` answer after `disconnect()` sets the status to `connected`.
The close event of a forgotten socket makes the direct client forget the current
one (`core-client.ts:233`). A request of the events route that is aborted during
its health probe opens a WebSocket that nothing closes (`events/route.ts:99`).

**Mesh.** If a node is entered when the 500 ms timer fires, the provider's own id
becomes the remote's. The node bar polls through the node entered. `reset()` of
`useCoreCall` does not invalidate the call in flight; nothing uses it.

**Servers.** A Core that the server starts listens on 9090 whatever the target is;
overlapping starts, and a start whose probe is not answered within a second although
a Core listens (`start/route.ts:90`), leave `coreProcess` the one that exits because
the port is taken. `setCoreTargetUrl` is not persisted. A page that is left before
its frame keeps its stream at the old Core, and so does every other page: the mover
is the only one `StreamFollowsCalls` can speak of. Two overlapping first setups can
leave a browser with a session that is void, and a truncated password file answers
409 and 401 for ever (`setup/route.ts:23`). An install's status goes to the first
record that is running, and "success" is recorded when the process was started. If
the report of a success is not answered, the `catch` reports a failure
(`dependency-panel.tsx:140`), so that the record of an install that succeeded says
"failed"; an answer that refuses the record is not looked at (`:99`), and the install
goes on without one: its status then goes to the record of another. Both are exceptions of
`OutcomesAreTheirOwn`; that there are no more records of success than successes holds
without exception (`SuccessesAreEarned`).

**Runs.** A second Apply while a stop is in flight orphans the run of the first; the
hook ignores `session.stopped`; after a reload nobody stops the old adapter.

**Chat.** `sendToolResult` has no caller: a turn that asks for a tool waits for ever,
so `TurnEnds` is limited to turns without tools. Enter in the field of a chat
writes the text without a newline to the active run: it is not shown, and the next
message that the button sends is then no JSON. Every chat reads the answers of
every adapter. Of the providers, tool input of Anthropic is ignored and two tool
calls of OpenAI merge.

**Terminals.** The picker is not followed up when a pick fails or its last session is
stopped: the view stays at "Starting..." (`terminal/index.tsx:334`, `:351`). Two
loops have no end. While `run.info` fails, a restore creates a run, binds the tab to
it, and the binding starts the next restore, which creates the next run
(`:94`, `:125`, `:166`), with no other request in flight. And two restores that are in
flight after a quick switch of tabs rebind the active tab and invalidate each other's
session (`:159`). `TabsSettle` says that there is no third. Keys written by two flushes may
arrive in the other order, and a `cd` command overtakes keys in the buffer. A
chunk of output can be printed twice, and after an outage the terminal does not
replay; `NoGap` is conditional on an unbroken stream, a replay that succeeds, and
a Core that pushes before the subscription.

**Layouts.** A node entered before the first restore is saved alone: the stored
layouts of all others are lost, so `SavedLayoutsKept` starts with the restore. On
a reconnect the restore reads the runs and the plugin sync of the previous link
(`use-console-controller.ts:404`, `:414`). `UNSPLIT_PANE` keeps the old active tab
id while the tabs get new ones; a kept tab that was reopened stays listed closed.

**Registries.** A state that cannot be loaded counts as enabled
(`app-registry.ts:93`); a GET that is answered after a later PUT overwrites what
the PUT has set. A sync of an empty list leaves everything registered. An id that
a plugin shares with the page's own is overwritten, and lost when the plugin goes;
`unregisterManifest` removes only entries whose id begins with that of the app
(`contribution-registry.ts:64`). `!!a` is always true for the page's evaluator; the
archived parser has it right. Every edit of a plugin's setting is overwritten by
the read that its own render triggers; a save that fails leaves the button
disabled.

**Picker, tree, approvals, phone.** The tree is kept by the page's Core, one for all
nodes of the mesh; a directory expanded while the link is down does not load until
it is toggled. An approval that is resolved while the page is offline stays shown.
In overlay mode only the first opening of the keyboard is noticed; Ctrl stays on
over an input of several characters.

**Archive, relay.** Deletions of the state bus are never sent and a snapshot on
connect is always empty. The program's own agent reports under its configured id
(`node-runtime.ts:243`), so that its reports never move its surfaces, nor does the
loss of its connection orphan them; with an agent that does take the relay's id, only
the first surface's tab moves with it. Opening a surface whose process the relay has
no instance of orphans it, or deletes it if it is not kept (`relay-server.ts:3705`),
although its agent has just reported the process: the main shell of the own agent, or
any process after the relay has restarted. An old connection's late report moves
surfaces to the dead node (agents outside `ordered`). When a socket closes, only its first instance goes. On a
restart instances get new ids. A leaf's own output is shown twice to its viewers
until the link first breaks, and a leaf's viewer of a hub's surface gets nothing
more after a reconnect. A terminal made by POST may yield two tabs; a page that
closes the last surface leaves it on the others.

**Archive, agent.** The late close event of a killed shell unlinks the pid file of
the next one and forgets the shell (`forgotten`; the code does not wait for it). A
manifest that changes between the first scan and the start of the watcher is not
read again until another change (`node-runtime.ts:209-215`; `missed`). The manager of the extension host
gives a request's answer to whoever asked last (`extension-host-manager.ts:390`);
a host that was respawned is not told to activate again; a reload re-reads
manifests but not code.

## Not modelled

Texts, costs, titles, geometry, styles and rendering; listener sets and event
delivery inside a page; hashing, signatures and encryption; the pty inside Core.
The stream and reconnect managers of `app/lib/capability` and the message store
are not modelled because nothing uses them. The desktop and mobile shells and the
scripts are process start and packaging. Of the archive, the REST files, the parser
of Claude's own output, the stand-alone agent, the page beyond its tabs and the
legacy configuration are left out. Two browser tabs of one origin, which share
`localStorage`, are not modelled: `saved` has one writer.

## Plan

1. The rest of the archived relay: reassembly of chunks, requests from outside,
   the configuration it pushes, its REST files.
2. The archived parser and the stand-alone agent beside `ClaudeChat`.
3. A second page over the same `localStorage`.
