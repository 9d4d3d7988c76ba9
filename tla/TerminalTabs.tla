----------------------------- MODULE TerminalTabs -----------------------------
(***************************************************************************)
(* Terminal tabs: which run a tab is bound to, and which session each      *)
(* mounted TerminalView shows (plugins/terminal/index.tsx, the binding in  *)
(* use-console-controller.ts, createInstance in lib/use-ws.ts).            *)
(*                                                                         *)
(* Every tab of a pane stays mounted, and every TerminalView follows the   *)
(* run of the FOCUSED tab (focus-context.tsx), not that of its own tab.    *)
(* When that run changes a view forgets its session and asks Core to       *)
(* restore, list or create one.  The answer, which may come after another  *)
(* change, binds whatever tab is active by then.                           *)
(*                                                                         *)
(* One action is one callback with the renders and effects it causes.      *)
(* The model has one pane; a split only adds other ways to move the focus. *)
(* A session is named by its run.  Titles, directories and pty modes are   *)
(* left out.                                                               *)
(***************************************************************************)
EXTENDS Naturals, FiniteSets, Bags, SequencesExt

CONSTANTS
  Tabs,         \* tab ids, used again only when nothing refers to them
  Runs,         \* run ids, of terminals, used again only when nothing refers to them
  NoRun,        \* no instanceId, no coreSessionId
  Layouts,      \* tab lists a page starts with
  MaxRequests,  \* bound: requests to Core in flight
  MaxMoves      \* bound: steps of the user, of a link that is lost and of runs that end

VARIABLES
  order,      \* the pane's tabs
  active,     \* activeTabId
  kind,       \* viewType of each tab
  binding,    \* instanceId of each tab
  view,       \* state of the TerminalView of each terminal tab
  run,        \* state of each run in Core
  requests,   \* calls in flight (a bag)
  connected,  \* coreStatus = 'connected'
  moves,      \* counts towards MaxMoves
  asked       \* tabs whose picker the user used (history)

tabVars == <<order, active, kind>>
vars == <<order, active, kind, binding, view, run, requests, connected, moves,
          asked>>

ViewState == [inst: Runs \cup {NoRun},     \* prevInstanceId
              session: Runs \cup {NoRun},  \* coreSessionId
              auto: BOOLEAN,               \* autoCreated
              picker: SUBSET Runs,         \* availableSessions
              error: BOOLEAN]              \* error

NewView == [inst |-> NoRun, session |-> NoRun, auto |-> FALSE, picker |-> {},
            error |-> FALSE]

\* restore and list are started by the effect; attach by the picker
Request == [what: {"restore", "attach", "list", "create", "stop"},
            tab: Tabs, run: Runs \cup {NoRun}]

Open == Range(order)
Mounted == {t \in Open : kind[t] = "terminal"}
Focused == binding[active]
Pending == BagToSet(requests)

TypeOK ==
  /\ order \in Seq(Tabs) /\ order # <<>> /\ IsInjective(order)
  /\ active \in Open
  /\ kind \in [Tabs -> {"empty", "terminal"}]
  /\ binding \in [Tabs -> Runs \cup {NoRun}]
  /\ view \in [Tabs -> ViewState]
  /\ run \in [Runs -> {"none", "running", "exited"}]
  /\ IsABag(requests) /\ Pending \subseteq Request
  /\ BagCardinality(requests) <= MaxRequests
  /\ connected \in BOOLEAN
  /\ moves \in 0..MaxMoves
  /\ asked \subseteq Tabs

-----------------------------------------------------------------------------
(* Rendering *)

\* Mutant: a view keeps its session when the focused run changes.
InvalidateKeepsSession(w, i) ==
  IF w.inst = i THEN w ELSE [w EXCEPT !.inst = i, !.auto = FALSE]

\* The first effect: another run is focused.
Invalidate(w, i) ==
  IF w.inst = i THEN w
  ELSE [w EXCEPT !.inst = i, !.session = NoRun, !.auto = FALSE]

\* The guards of the second effect
Starts(w, online) == w.session = NoRun /\ online /\ ~w.auto

\* Mutant: the view asks for the run that was focused before.
OpeningPrevious(t, i) ==
  [what |-> IF view[t].inst = NoRun THEN "list" ELSE "restore", tab |-> t,
   run |-> view[t].inst]

\* What a view asks for when run i is focused
Opening(t, i) ==
  [what |-> IF i = NoRun THEN "list" ELSE "restore", tab |-> t, run |-> i]

\* The state after a callback has left tabs ts of kinds ks, bindings bs,
\* active tab act, views vs, requests rs and the link online: the views are rendered and
\* their effects run until nothing changes any more.
RenderWith(online, ts, ks, bs, act, vs, rs) ==
  LET i == bs[act]
      mounted == {t \in Range(ts) : ks[t] = "terminal"}
      seen(t) == Invalidate(vs[t], i)
      starting == {t \in mounted : Starts(seen(t), online)}
      rs2 == rs (+) SetToBag({Opening(t, i) : t \in starting})
  IN  /\ connected' = online
      /\ order' = ts
      /\ active' = act
      /\ kind' = ks
      /\ binding' = bs
      /\ view' = [t \in Tabs |->
                    IF t \notin mounted THEN NewView
                    ELSE [seen(t) EXCEPT !.auto = @ \/ t \in starting]]
      /\ requests' = rs2
      /\ BagCardinality(rs2) <= MaxRequests

Render(ts, ks, bs, act, vs, rs) == RenderWith(connected, ts, ks, bs, act, vs, rs)

\* A page starts with a layout it restored from localStorage, or a new one.
Init ==
  /\ order \in Layouts
  /\ active \in Open
  /\ kind \in [Tabs -> {"empty", "terminal"}]
  /\ binding \in [Tabs -> Runs \cup {NoRun}]
  /\ run \in [Runs -> {"none", "running", "exited"}]
  /\ \A t \in Tabs :
       /\ t \notin Open => kind[t] = "empty"
       /\ kind[t] = "empty" => binding[t] = NoRun
       /\ binding[t] # NoRun => run[binding[t]] # "none"
  /\ view = [t \in Tabs |-> NewView]
  /\ requests = EmptyBag
  /\ connected = FALSE
  /\ moves = 0
  /\ asked = {}

-----------------------------------------------------------------------------
(* The user and the link *)

Move == moves < MaxMoves /\ moves' = moves + 1

\* Another tab is clicked (SET_ACTIVE_TAB).
SelectTab(t) ==
  /\ Move
  /\ t \in Open \ {active}
  /\ Render(order, kind, binding, t, view, requests)
  /\ UNCHANGED <<run, asked>>

Fresh(t) == t \notin Open /\ \A r \in Pending : r.tab # t

\* The + button: an empty tab, which becomes the active one
AddTab(t) ==
  /\ Move
  /\ Fresh(t)
  /\ Render(Append(order, t), [kind EXCEPT ![t] = "empty"],
            [binding EXCEPT ![t] = NoRun], t, view, requests)
  /\ asked' = asked \ {t}
  /\ UNCHANGED run

\* handleRequestView with the terminal: the tab keeps no binding.
ChooseTerminal ==
  /\ Move
  /\ kind[active] = "empty"
  /\ Render(order, [kind EXCEPT ![active] = "terminal"],
            [binding EXCEPT ![active] = NoRun], active, view, requests)
  /\ UNCHANGED <<run, asked>>

ActiveAfter(t, rest) == IF active = t THEN Last(rest) ELSE active

\* CLOSE_TAB.  The runs go on, and so do the requests of the closed view.
CloseTab(t) ==
  /\ Move
  /\ t \in Open
  /\ \/ \E i \in DOMAIN order :
          LET rest == RemoveAt(order, i)
          IN  /\ order[i] = t /\ Len(order) > 1
              /\ Render(rest, [kind EXCEPT ![t] = "empty"],
                        [binding EXCEPT ![t] = NoRun],
                        ActiveAfter(t, rest), view, requests)
     \/ /\ order = <<t>>
        /\ kind[t] # "empty"
        /\ \E u \in Tabs :
             /\ Fresh(u)
             /\ Render(<<u>>, [x \in Tabs |-> "empty"], [x \in Tabs |-> NoRun],
                       u, view, requests)
  /\ asked' = asked \cap Range(order')
  /\ UNCHANGED run

\* The status of the link to Core changes.  Only its loss counts as a move.
LinkChanges ==
  /\ IF connected THEN Move ELSE UNCHANGED moves
  /\ RenderWith(~connected, order, kind, binding, active, view, requests)
  /\ UNCHANGED <<run, asked>>

RunExits(r) ==
  /\ Move
  /\ run[r] = "running"
  /\ run' = [run EXCEPT ![r] = "exited"]
  /\ UNCHANGED <<tabVars, binding, view, requests, connected, asked>>

Create(t) == [what |-> "create", tab |-> t, run |-> NoRun]

\* createSession, up to its request; createInstance refuses without a link.
CreateSession(t, vs, rs) ==
  Render(order, kind, binding, active, [vs EXCEPT ![t].error = ~connected],
         IF connected THEN rs (+) SetToBag({Create(t)}) ELSE rs)

\* The picker is on the screen of the active tab.
Picking(t) ==
  /\ Move
  /\ t = active /\ t \in Mounted
  /\ view[t].session = NoRun /\ view[t].picker # {}
  /\ asked' = asked \cup {t}
  /\ UNCHANGED run

PickSession(t, r) ==
  /\ Picking(t)
  /\ r \in view[t].picker
  /\ Render(order, kind, binding, active, [view EXCEPT ![t].picker = {}],
            requests (+) SetToBag({[what |-> "attach", tab |-> t, run |-> r]}))

PickNew(t) ==
  /\ Picking(t)
  /\ CreateSession(t, [view EXCEPT ![t].picker = {}], requests)

PickStop(t, r) ==
  /\ Picking(t)
  /\ r \in view[t].picker
  /\ Render(order, kind, binding, active, view,
            requests (+) SetToBag({[what |-> "stop", tab |-> t, run |-> r]}))

-----------------------------------------------------------------------------
(* Answers of Core *)

Answered(what, t, r) == [what |-> what, tab |-> t, run |-> r]

\* setCoreSessionId and bindCurrentTabInstance.  Setting the state of a view
\* that is not mounted any more has no effect; the binding has.
Show(t, r, rest) ==
  Render(order, kind, [binding EXCEPT ![active] = r], active,
         [view EXCEPT ![t].session = r], rest)

\* run.info for a restore or for a session that was picked.  It may fail
\* whatever the state of the run.
InfoAnswered(what, t, r, ok) ==
  LET q == Answered(what, t, r)
      rest == requests (-) SetToBag({q})
  IN  /\ BagIn(q, requests)
      /\ ok => run[r] = "running"
      /\ IF ok THEN Show(t, r, rest)
         ELSE IF what = "restore" THEN CreateSession(t, view, rest)
         ELSE Render(order, kind, binding, active, view, rest)
      /\ UNCHANGED <<run, moves, asked>>

\* Mutant: a picker with nothing in it is offered.
OffersAnyway(ok, live) == ok

Offers(ok, live) == ok /\ live # {}

\* run.list: a picker, or a new session if there is nothing to pick
ListAnswered(t, ok) ==
  LET q == Answered("list", t, NoRun)
      rest == requests (-) SetToBag({q})
      live == {r \in Runs : run[r] = "running"}
  IN  /\ BagIn(q, requests)
      /\ IF Offers(ok, live)
         THEN Render(order, kind, binding, active,
                     [view EXCEPT ![t].picker = live], rest)
         ELSE CreateSession(t, view, rest)
      /\ UNCHANGED <<run, moves, asked>>

\* The id of a run of which the page knows nothing stands for a new one: runs
\* are created for as long as the page asks.
Unknown(r) ==
  /\ r \notin Range(binding) /\ \A q \in Pending : q.run # r
  /\ \A t \in Tabs : r \notin {view[t].inst, view[t].session} \cup view[t].picker

Created(t, r) ==
  LET q == Create(t)
  IN  /\ BagIn(q, requests)
      /\ Unknown(r)
      /\ run' = [run EXCEPT ![r] = "running"]
      /\ Show(t, r, requests (-) SetToBag({q}))
      /\ UNCHANGED <<moves, asked>>

CreateFails(t) ==
  LET q == Create(t)
  IN  /\ BagIn(q, requests)
      /\ Render(order, kind, binding, active, [view EXCEPT ![t].error = TRUE],
                requests (-) SetToBag({q}))
      /\ UNCHANGED <<run, moves, asked>>

StopAnswered(t, r, ok) ==
  LET q == Answered("stop", t, r)
  IN  /\ BagIn(q, requests)
      /\ run' = IF ok THEN [run EXCEPT ![r] = "exited"] ELSE run
      /\ Render(order, kind, binding, active,
                IF ok THEN [view EXCEPT ![t].picker = @ \ {r}] ELSE view,
                requests (-) SetToBag({q}))
      /\ UNCHANGED <<moves, asked>>

Answer ==
  \E t \in Tabs :
    \/ \E r \in Runs, ok \in BOOLEAN :
         \/ InfoAnswered("restore", t, r, ok)
         \/ InfoAnswered("attach", t, r, ok)
         \/ StopAnswered(t, r, ok)
    \/ \E ok \in BOOLEAN : ListAnswered(t, ok)
    \/ \E r \in Runs : Created(t, r)
    \/ CreateFails(t)

Next ==
  \/ \E t \in Tabs :
       \/ SelectTab(t)
       \/ AddTab(t)
       \/ CloseTab(t)
       \/ PickNew(t)
       \/ \E r \in Runs : PickSession(t, r) \/ PickStop(t, r)
  \/ ChooseTerminal
  \/ LinkChanges
  \/ \E r \in Runs : RunExits(r)
  \/ Answer

(* Every call settles: HTTP calls have a timeout. *)
Spec == Init /\ [][Next]_vars /\ WF_vars(Answer)

-----------------------------------------------------------------------------
(***************************************************************************)
(* Properties                                                              *)
(***************************************************************************)

\* A terminal never stands beside a focused tab that is bound to another
\* run, however late the answer that gave it its session.
SessionIsFocused ==
  \A t \in Mounted : view[t].session # NoRun => view[t].session = Focused

\* A terminal without a session is waiting for an answer, offers a picker or
\* shows an error; it is never left at 'Starting...'.  (The picker leaves it
\* there: a failed pick and the stop of the last session are not followed up.)
NeverStuck ==
  \A t \in Mounted \ asked :
    connected /\ view[t].session = NoRun /\ view[t].picker = {} /\ ~view[t].error
    => \E q \in Pending : q.tab = t

\* Requests in flight at once ask for different runs.
Crossed == \E q, p \in Pending : q.run # p.run

\* run.info does not find the run of a tab running, or fails.
RestoreFails == \E t \in Tabs, r \in Runs : InfoAnswered("restore", t, r, FALSE)

\* Tabs stop being rebound once the user stops, but for two loops: while
\* run.info fails, each run that is created in answer is asked for in turn; and
\* requests for different runs that go on crossing each other.
TabsSettle ==
  <>[](~Crossed) /\ <>[][~RestoreFails]_vars => <>[][UNCHANGED binding]_vars
=============================================================================
