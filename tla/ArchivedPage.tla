----------------------------- MODULE ArchivedPage -----------------------------
(***************************************************************************)
(* The tabs of a node on the pages of the archived system (app/page.tsx    *)
(* and console/stage/workbench-state.ts), with the relay that keeps them   *)
(* (relay-server.ts).  A terminal is a tab of a page and a surface of the  *)
(* relay.  A page sends its whole list of tabs after every edit, and the   *)
(* relay, which appends the tabs of new surfaces to it, sends its own to   *)
(* the other pages; surfaces are announced one by one besides.             *)
(*                                                                         *)
(* One node.  A tab is its id, its process and its surface; a list without *)
(* tabs stands for a pane with its "New" placeholder alone.  The relay     *)
(* takes what a page sends at once: all that is late is what a page has    *)
(* not heard yet, and the answers to its POSTs.  Left out: splits, which   *)
(* the next list that arrives joins again, titles, tabs that are no        *)
(* terminals, and what becomes of the process of a closed tab.             *)
(***************************************************************************)
EXTENDS Naturals, Sequences, SequencesExt

CONSTANTS
  Pages,
  MaxTerminals,  \* bound: processes,
  MaxSurfaces,   \* bound:   and surfaces
  MaxPageEdits   \* bound: steps of the users, and connections lost

VARIABLES
  tabs,       \* of each page: its tabs,
  activeTab,  \*   activeTabId,
  inNode,     \*   whether it has entered the node,
  online,     \*   whether its socket is open,
  creating,   \*   the POSTs /api/instances: "asked", or the answer,
  publishing, \*   surfacePublishInFlight: the process and the tab,
  received,   \*   and the messages it has not heard yet
  stored,     \* stateWorkbenchStore
  surfaces,   \* surfaceManager: [id, inst]
  subs,       \* the pages subscribed to the tabs, to the node and to each surface
  made, published, \* processes and surfaces made
  pageEdits,
  crossed,    \* a list came that does not show the surfaces there are (history)
  behind      \* pages that missed messages and have not subscribed since (history)

pageVars == <<tabs, activeTab, inNode, online, creating, publishing, received, stored, surfaces,
              subs, made, published, pageEdits, crossed, behind>>
theRelay == <<received, stored, surfaces, subs, published, crossed>>

None == 0
Numbers == 1..MaxSurfaces
SurfaceTab(s) == [id |-> <<"surface", s.id>>, inst |-> s.inst, surf |-> s.id]
IdOf(s) == <<"surface", s>>
NoTab == <<"none", 0>>
NobodyIn == [tabs |-> {}, node |-> {}, surface |-> [s \in Numbers |-> {}]]

ArchivedPageInit ==
  /\ tabs = [p \in Pages |-> <<>>] /\ activeTab = [p \in Pages |-> NoTab]
  /\ inNode = [p \in Pages |-> FALSE] /\ online = [p \in Pages |-> TRUE]
  /\ creating = [p \in Pages |-> <<>>] /\ publishing = [p \in Pages |-> {}]
  /\ received = [p \in Pages |-> <<>>]
  /\ stored = <<>> /\ surfaces = {} /\ subs = NobodyIn
  /\ made = 0 /\ published = 0 /\ pageEdits = 0 /\ crossed = FALSE /\ behind = {}

-----------------------------------------------------------------------------
(* The tabs of a pane *)
Shows(tab, s) == tab.surf = s \/ tab.id = IdOf(s)
Tracks(list, s) == \E i \in DOMAIN list : Shows(list[i], s)
Ids(list) == {list[i].id : i \in DOMAIN list}
ActiveIn(list, id) ==
  IF id \in Ids(list) THEN id ELSE IF list = <<>> THEN NoTab ELSE list[1].id

\* surface.published, and each entry of surface.list: skip, merge or add.
WithSurface(list, s) ==
  LET same == {i \in DOMAIN list : list[i].inst = s.inst /\ list[i].surf = None} IN
  IF Tracks(list, s.id) THEN list
  ELSE IF same # {} THEN [list EXCEPT ![CHOOSE i \in same : \A j \in same : i <= j].surf = s.id]
  ELSE Append(list, SurfaceTab(s))

\* collectAllTabs and buildStateFromTabs: what is compared is not the surface,
\* and an empty list never replaces another.
Replaced(own, list) ==
  IF \/ list = <<>>
     \/ Len(own) = Len(list) /\ \A i \in DOMAIN own : own[i].id = list[i].id /\ own[i].inst = list[i].inst
  THEN own ELSE list

-----------------------------------------------------------------------------
(* The relay: r is what it keeps, with the messages it has sent *)
Message(type) == [type |-> type]
Tabs(list) == [type |-> "tabs", list |-> list]
About(type, id) == [type |-> type, id |-> id]
Published(s) == [type |-> "published", surface |-> s]

Relay == [stored |-> stored, surfaces |-> surfaces, subs |-> subs, published |-> published,
          crossed |-> crossed, received |-> received]

Tell(r, ps, m) ==
  [r EXCEPT !.received = [p \in Pages |-> IF p \in ps THEN Append(@[p], m) ELSE @[p]]]

\* Mutant: the list goes to the other pages, and is not kept.
OnlyRelayed(r, p, list) == Tell(r, r.subs.tabs \ {p}, Tabs(list))

\* workbench.tabs
TakeTabs(r, p, list) ==
  LET known == {s.id : s \in r.surfaces} IN
  Tell([r EXCEPT !.stored = list,
                 !.crossed = @ \/ {s \in Numbers : Tracks(list, s)} # known],
       r.subs.tabs \ {p}, Tabs(list))

\* A new surface of a process, whether or not it has one: its tab is appended
\* to the list, and it is announced to the pages of the node.
Announce(r, inst, ps, ns) ==
  LET s == [id |-> r.published + 1, inst |-> inst]
      list == Append(r.stored, SurfaceTab(s))
      kept == [r EXCEPT !.stored = list, !.surfaces = @ \cup {s}, !.published = s.id]
  IN Tell(Tell(kept, ps, Tabs(list)), ns, Published(s))

\* surface.publish: the page is subscribed to the surface, and always told of it.
TakePublish(r, p, inst) ==
  Announce([r EXCEPT !.subs.surface[r.published + 1] = @ \cup {p}], inst,
           r.subs.tabs \ {p}, r.subs.node \cup {p})

\* surface.close tells the pages that are subscribed to the surface, then those
\* that have the tabs.
TakeClose(r, p, s) ==
  LET left == SelectSeq(r.stored, LAMBDA t : ~Shows(t, s))
      told == Tell([r EXCEPT !.surfaces = {t \in @ : t.id # s}, !.subs.surface[s] = {},
                             !.stored = left],
                   r.subs.surface[s] \ {p}, About("closed", s))
  IN IF ~\E t \in r.surfaces : t.id = s THEN r
     ELSE IF left = r.stored THEN told ELSE Tell(told, r.subs.tabs, Tabs(left))

\* workbench.subscribe removes tabs without a surface first.
TakeSubscribe(r, p) ==
  LET kept == SelectSeq(r.stored, LAMBDA t : \E s \in r.surfaces :
                          IF t.surf # None THEN t.surf = s.id ELSE t.id = IdOf(s.id))
      reconciled == IF kept = r.stored THEN r
                    ELSE Tell([r EXCEPT !.stored = kept], r.subs.tabs, Tabs(kept))
  IN Tell([reconciled EXCEPT !.subs.tabs = @ \cup {p}], {p}, Tabs(kept))

\* surface.subscribeNode subscribes to the surfaces there are as well.
TakeSubscribeNode(r, p) ==
  LET known == {s.id : s \in r.surfaces} IN
  Tell([r EXCEPT !.subs.node = @ \cup {p},
                 !.subs.surface = [s \in Numbers |-> IF s \in known THEN @[s] \cup {p} ELSE @[s]]],
       {p}, [type |-> "list", surfaces |-> r.surfaces])

\* workbench.unsubscribe and surface.unsubscribeNode; a closed socket as well
Forget(r, p) ==
  [r EXCEPT !.subs = [tabs |-> @.tabs \ {p}, node |-> @.node \ {p},
                      surface |-> [s \in Numbers |-> @.surface[s] \ {p}]]]

Take(r, p, m) ==
  CASE m.type = "tabs" -> TakeTabs(r, p, m.list)
    [] m.type = "publish" -> TakePublish(r, p, m.id)
    [] m.type = "close" -> TakeClose(r, p, m.id)
    [] m.type = "subscribe" -> TakeSubscribe(r, p)
    [] m.type = "subscribeNode" -> TakeSubscribeNode(r, p)
    [] m.type = "unsubscribe" -> Forget(r, p)

Becomes(r) ==
  /\ stored' = r.stored /\ surfaces' = r.surfaces /\ subs' = r.subs
  /\ published' = r.published /\ crossed' = r.crossed /\ received' = r.received

\* sendMessage does nothing, and says nothing, without a socket.
Send(p, msgs) ==
  IF online[p] THEN Becomes(FoldLeft(LAMBDA r, m : Take(r, p, m), Relay, msgs))
  ELSE UNCHANGED theRelay

-----------------------------------------------------------------------------
(* The user *)
Edit(p) == inNode[p] /\ pageEdits < MaxPageEdits /\ pageEdits' = pageEdits + 1

\* ADD_TAB, or SET_TAB_VIEW of the placeholder: a terminal, which creates its
\* process as soon as it is shown.
NewTerminal(p) ==
  LET id == <<p, pageEdits>>
      list == Append(tabs[p], [id |-> id, inst |-> None, surf |-> None])
  IN /\ Edit(p) /\ made < MaxTerminals
     /\ tabs' = [tabs EXCEPT ![p] = list] /\ activeTab' = [activeTab EXCEPT ![p] = id]
     /\ Send(p, <<Tabs(list)>>)
     /\ creating' = [creating EXCEPT ![p] = Append(@, <<"asked">>)]
     /\ UNCHANGED <<inNode, online, publishing, made, behind>>

\* activeWorkbenchDispatch closes the surface of the tab as well.
CloseTab(p, i) ==
  LET list == RemoveAt(tabs[p], i)
      t == tabs[p][i]
      next == IF activeTab[p] # t.id THEN activeTab[p]
              ELSE IF list = <<>> THEN NoTab ELSE list[Len(list)].id
      msgs == (IF t.surf = None THEN <<>> ELSE <<About("close", t.surf)>>) \o <<Tabs(list)>>
  IN /\ Edit(p)
     /\ tabs' = [tabs EXCEPT ![p] = list] /\ activeTab' = [activeTab EXCEPT ![p] = next]
     /\ Send(p, msgs)
     /\ UNCHANGED <<inNode, online, creating, publishing, made, behind>>

SelectTab(p, i) ==
  /\ Edit(p) /\ activeTab' = [activeTab EXCEPT ![p] = tabs[p][i].id] /\ activeTab' # activeTab
  /\ UNCHANGED <<tabs, inNode, online, creating, publishing, theRelay, made, behind>>

\* handleEnterNode
EnterNode(p) ==
  /\ ~inNode[p] /\ inNode' = [inNode EXCEPT ![p] = TRUE]
  /\ Send(p, <<Message("subscribe"), Message("subscribeNode")>>)
  /\ behind' = IF online[p] THEN behind \ {p} ELSE behind \cup {p}
  /\ UNCHANGED <<tabs, activeTab, online, creating, publishing, made, pageEdits>>

LeaveNode(p) ==
  /\ Edit(p) /\ inNode' = [inNode EXCEPT ![p] = FALSE]
  /\ Send(p, <<Message("unsubscribe")>>)
  /\ UNCHANGED <<tabs, activeTab, online, creating, publishing, made, behind>>

\* handleRefreshNode, and every 30 s: in the other order.
Refresh(p) ==
  /\ inNode[p] /\ online[p] /\ received[p] = <<>> /\ behind' = behind \ {p}
  /\ Send(p, <<Message("subscribeNode"), Message("subscribe")>>)
  /\ UNCHANGED <<tabs, activeTab, inNode, online, creating, publishing, made, pageEdits>>

-----------------------------------------------------------------------------
\* POST /api/instances makes a process and its surface; what a page does when it
\* cannot ask (instance.create) makes a process alone.
Create(p, withSurface) ==
  LET asked == {i \in DOMAIN creating[p] : creating[p][i] = <<"asked">>}
      n == made + 1
  IN /\ asked # {} /\ n <= MaxTerminals /\ made' = n
     /\ creating' = [creating EXCEPT ![p][CHOOSE i \in asked : \A j \in asked : i <= j] =
                       <<"answer", n, IF withSurface THEN published + 1 ELSE None>>]
     /\ IF withSurface
        THEN published < MaxSurfaces /\ Becomes(Announce(Relay, n, subs.tabs, subs.node))
        ELSE UNCHANGED theRelay
     /\ UNCHANGED <<tabs, activeTab, inNode, online, publishing, pageEdits, behind>>

\* publishSurfaceForTab: its message, unless one is in flight
Publish(p, t, inst) ==
  IF t.surf = None /\ <<inst, t.id>> \notin publishing[p] THEN <<About("publish", inst)>> ELSE <<>>

\* handleBindCurrentTabInstance: the answer goes to the tab that is active by
\* then; without a surface of its own the page publishes one.
Answered(p) ==
  LET a == Head(creating[p])
      at == {i \in DOMAIN tabs[p] : tabs[p][i].id = activeTab[p]}
      i == CHOOSE i \in at : TRUE
      list == [tabs[p] EXCEPT ![i].inst = a[2], ![i].surf = IF a[3] = None THEN @ ELSE a[3]]
      publish == IF a[3] = None THEN Publish(p, tabs[p][i], a[2]) ELSE <<>>
  IN /\ creating[p] # <<>> /\ a[1] = "answer"
     /\ creating' = [creating EXCEPT ![p] = Tail(@)]
     /\ IF at = {} THEN UNCHANGED <<tabs, publishing, theRelay>>
        ELSE /\ tabs' = [tabs EXCEPT ![p] = list]
             /\ IF inNode[p] /\ online[p]
                THEN /\ publish = <<>> \/ published < MaxSurfaces
                     /\ Send(p, <<Tabs(list)>> \o publish)
                     /\ publishing' = IF publish = <<>> THEN publishing
                                      ELSE [publishing EXCEPT ![p] = @ \cup {<<a[2], tabs[p][i].id>>}]
                ELSE UNCHANGED <<publishing, theRelay>>
     /\ UNCHANGED <<activeTab, inNode, online, made, pageEdits, behind>>

\* handleEnsureSurfacePublished: a terminal that is shown, of a process without
\* a surface as far as this page knows.
EnsurePublished(p, i) ==
  LET t == tabs[p][i] IN
  /\ inNode[p] /\ online[p] /\ t.id = activeTab[p] /\ t.inst # None
  /\ Publish(p, t, t.inst) # <<>> /\ published < MaxSurfaces
  /\ Send(p, Publish(p, t, t.inst))
  /\ publishing' = [publishing EXCEPT ![p] = @ \cup {<<t.inst, t.id>>}]
  /\ UNCHANGED <<tabs, activeTab, inNode, online, creating, made, pageEdits, behind>>

-----------------------------------------------------------------------------
(* The page hears of the relay. *)
Arrives(p, type, list) ==
  /\ received[p] # <<>> /\ Head(received[p]).type = type
  /\ received' = [received EXCEPT ![p] = Tail(@)]
  /\ tabs' = [tabs EXCEPT ![p] = list]
  /\ activeTab' = [activeTab EXCEPT ![p] = ActiveIn(list, @)]
  /\ UNCHANGED <<inNode, online, creating, stored, surfaces, subs, crossed, made, published,
                 pageEdits, behind>>

HearTabs(p) == Arrives(p, "tabs", Replaced(tabs[p], Head(received[p]).list)) /\ UNCHANGED publishing

HearPublished(p) ==
  LET s == Head(received[p]).surface IN
  /\ Arrives(p, "published", WithSurface(tabs[p], s))
  /\ publishing' = [publishing EXCEPT ![p] = {k \in @ : k[1] # s.inst}]

\* The surfaces come in the order they were made; tabs of others stay, for they
\* are stripped of nothing.
HearList(p) ==
  /\ Arrives(p, "list",
          FoldLeft(WithSurface, tabs[p],
                   SetToSortSeq(Head(received[p]).surfaces, LAMBDA a, b : a.id < b.id)))
  /\ UNCHANGED publishing

\* surface.closed: the last tab stays.
HearClosed(p) ==
  LET gone == {i \in DOMAIN tabs[p] : Shows(tabs[p][i], Head(received[p]).id)} IN
  /\ Arrives(p, "closed",
          IF gone = {} \/ Len(tabs[p]) = 1 THEN tabs[p]
          ELSE RemoveAt(tabs[p], CHOOSE i \in gone : \A j \in gone : i <= j))
  /\ UNCHANGED publishing

-----------------------------------------------------------------------------
\* The socket of a page closes, with all that is on the way; nothing subscribes
\* again before the next Refresh.  What is in flight is forgotten after 5 s.
Lose(p) ==
  /\ online[p] /\ pageEdits < MaxPageEdits /\ pageEdits' = pageEdits + 1
  /\ online' = [online EXCEPT ![p] = FALSE] /\ behind' = behind \cup {p}
  /\ Becomes([Forget(Relay, p) EXCEPT !.received[p] = <<>>])
  /\ publishing' = [publishing EXCEPT ![p] = {}]
  /\ UNCHANGED <<tabs, activeTab, inNode, creating, made>>

Reconnect(p) ==
  /\ ~online[p] /\ online' = [online EXCEPT ![p] = TRUE]
  /\ UNCHANGED <<tabs, activeTab, inNode, creating, publishing, theRelay, made, pageEdits, behind>>

\* A reload: the layouts were saved, and no node is entered.
Reload(p) ==
  /\ Edit(p) /\ inNode' = [inNode EXCEPT ![p] = FALSE] /\ behind' = behind \cup {p}
  /\ creating' = [creating EXCEPT ![p] = <<>>] /\ publishing' = [publishing EXCEPT ![p] = {}]
  /\ Becomes([Forget(Relay, p) EXCEPT !.received[p] = <<>>])
  /\ UNCHANGED <<tabs, activeTab, online, made>>

ArchivedPageNext ==
  \E p \in Pages :
    \/ NewTerminal(p) \/ EnterNode(p) \/ LeaveNode(p) \/ Refresh(p) \/ Answered(p)
    \/ \E i \in DOMAIN tabs[p] : CloseTab(p, i) \/ SelectTab(p, i) \/ EnsurePublished(p, i)
    \/ HearTabs(p) \/ HearPublished(p) \/ HearList(p) \/ HearClosed(p)
    \/ \E withSurface \in BOOLEAN : Create(p, withSurface)
    \/ Lose(p) \/ Reconnect(p) \/ Reload(p)

-----------------------------------------------------------------------------
Quiet == \A p \in Pages : received[p] = <<>> /\ creating[p] = <<>>

\* Once nothing is on the way, the pages in the node show every surface of the
\* relay, as long as no page sent a list of before it heard of a surface: lists,
\* announcements and answers come in whatever order (page.tsx:398, 438, 1762).
PagesShowSurfaces ==
  Quiet /\ ~crossed => \A p \in Pages : inNode[p] /\ online[p] /\ p \notin behind =>
    \A s \in surfaces : Tracks(tabs[p], s.id)
=============================================================================
