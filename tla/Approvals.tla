------------------------------- MODULE Approvals -------------------------------
(***************************************************************************)
(* The approval center of a page (overlays/approval-center.tsx, and the    *)
(* same again in plugins/approvals): it shows the requests that wait in    *)
(* Core, told of by events and by a list it asks for when it mounts and    *)
(* when the link comes back, and answers them.                             *)
(*                                                                         *)
(* Core is external: a request waits until somebody resolves it, here or   *)
(* elsewhere, and both are told to every page that is connected; a call    *)
(* is answered, fails, or is lost with the link.  Titles, bodies and the   *)
(* error line are left out.                                                *)
(***************************************************************************)
EXTENDS Naturals, Sequences, FiniteSets

CONSTANTS
  Asked,        \* requests for an approval
  NoRequest,
  MaxBreaks,    \* bound: losses of the link
  MaxResponses  \* bound: clicks

VARIABLES
  waiting,    \* each request in Core
  linked,     \* core.isConnected
  told,       \* events on their way to the page
  lists,      \* approval.list: calls in flight, with what each found
  approvals,  \* shown
  acting,     \* the request whose buttons are disabled
  respond,    \* notify.respond: calls in flight
  breaks, responses,
  unlisted,   \* a list failed while the link was up (history)
  unaware     \* requests resolved when the page was not told, or had asked for a list (history)

approvalVars == <<waiting, linked, told, lists, approvals, acting, respond, breaks, responses,
                  unlisted, unaware>>

Pending == {r \in Asked : waiting[r] = "pending"}
NewList == [made |-> FALSE, found |-> {}]

ApprovalsInit ==
  /\ waiting = [r \in Asked |-> "unasked"] /\ linked = TRUE /\ told = <<>>
  /\ lists = <<NewList>>  \* hydrateFromCore on mount
  /\ approvals = {} /\ acting = NoRequest /\ respond = {}
  /\ breaks = 0 /\ responses = 0 /\ unlisted = FALSE /\ unaware = {}

-----------------------------------------------------------------------------
(* Core *)
Tell(type, r) == told' = IF linked THEN Append(told, [type |-> type, of |-> r]) ELSE told

Ask(r) ==
  /\ waiting[r] = "unasked" /\ waiting' = [waiting EXCEPT ![r] = "pending"] /\ Tell("request", r)
  /\ UNCHANGED <<linked, lists, approvals, acting, respond, breaks, responses, unlisted, unaware>>

Resolved(r) ==
  /\ waiting' = [waiting EXCEPT ![r] = "resolved"] /\ Tell("result", r)
  /\ unaware' = IF ~linked \/ \E i \in DOMAIN lists : r \in lists[i].found
                THEN unaware \cup {r} ELSE unaware

\* Answered by another page, or given up
ResolveElsewhere(r) ==
  /\ r \in Pending /\ Resolved(r)
  /\ UNCHANGED <<linked, lists, approvals, acting, respond, breaks, responses, unlisted>>

MakeList(i) ==
  /\ ~lists[i].made /\ lists' = [lists EXCEPT ![i] = [made |-> TRUE, found |-> Pending]]
  /\ UNCHANGED <<waiting, linked, told, approvals, acting, respond, breaks, responses, unlisted, unaware>>

-----------------------------------------------------------------------------
(* The page *)
Gone(i) == lists' = [j \in 1..Len(lists) - 1 |-> IF j < i THEN lists[j] ELSE lists[j + 1]]

\* Mutant: a list replaces what is shown.
HydratedAnew(found) == found

\* hydrateFromCore adds what is not shown, and never removes.
Hydrated(found) == approvals \cup found

ListArrives(i) ==
  /\ lists[i].made /\ Gone(i) /\ approvals' = Hydrated(lists[i].found)
  /\ UNCHANGED <<waiting, linked, told, acting, respond, breaks, responses, unlisted, unaware>>

\* A list that fails is ignored.
ListFails(i) ==
  /\ Gone(i) /\ unlisted' = (unlisted \/ linked)
  /\ UNCHANGED <<waiting, linked, told, approvals, acting, respond, breaks, responses, unaware>>

\* notify.approval.request and notify.approval.result
HandleEvent ==
  /\ told # <<>> /\ told' = Tail(told)
  /\ approvals' = IF Head(told).type = "request" THEN approvals \cup {Head(told).of}
                  ELSE approvals \ {Head(told).of}
  /\ UNCHANGED <<waiting, linked, lists, acting, respond, breaks, responses, unlisted, unaware>>

\* handleAction: the buttons of one request are disabled at a time.
HandleAction(r) ==
  /\ responses < MaxResponses /\ responses' = responses + 1
  /\ r \in approvals /\ acting # r /\ acting' = r
  /\ respond' = respond \cup {[of |-> r, made |-> FALSE, id |-> responses]}
  /\ UNCHANGED <<waiting, linked, told, lists, approvals, breaks, unlisted, unaware>>

\* Core takes an answer; a request that does not wait any more is an error.
Respond(c) ==
  /\ c \in respond /\ ~c.made /\ c.of \in Pending /\ Resolved(c.of)
  /\ respond' = (respond \ {c}) \cup {[c EXCEPT !.made = TRUE]}
  /\ UNCHANGED <<linked, lists, approvals, acting, breaks, responses, unlisted>>

Responded(c) ==
  /\ c \in respond /\ c.made /\ respond' = respond \ {c} /\ acting' = NoRequest
  /\ approvals' = approvals \ {c.of}
  /\ UNCHANGED <<waiting, linked, told, lists, breaks, responses, unlisted, unaware>>

RespondFails(c) ==
  /\ c \in respond /\ respond' = respond \ {c} /\ acting' = NoRequest
  /\ UNCHANGED <<waiting, linked, told, lists, approvals, breaks, responses, unlisted, unaware>>

\* What is on its way is lost with the link.
Break ==
  /\ linked /\ breaks < MaxBreaks /\ breaks' = breaks + 1 /\ linked' = FALSE /\ told' = <<>>
  /\ unaware' = unaware \cup {told[i].of : i \in {j \in DOMAIN told : told[j].type = "result"}}
  /\ UNCHANGED <<waiting, lists, approvals, acting, respond, responses, unlisted>>

\* connectionStatus: the page asks for a list again.
Relink ==
  /\ ~linked /\ linked' = TRUE /\ lists' = Append(lists, NewList)
  /\ UNCHANGED <<waiting, told, approvals, acting, respond, breaks, responses, unlisted, unaware>>

ApprovalsNext ==
  \/ HandleEvent \/ Break \/ Relink
  \/ \E r \in Asked : Ask(r) \/ ResolveElsewhere(r) \/ HandleAction(r)
  \/ \E i \in DOMAIN lists : MakeList(i) \/ ListArrives(i) \/ ListFails(i)
  \/ \E c \in respond : Respond(c) \/ Responded(c) \/ RespondFails(c)

-----------------------------------------------------------------------------
Quiet == linked /\ told = <<>> /\ lists = <<>> /\ respond = {}

\* Once all is quiet every request that waits is shown, over losses of the link
\* and lists that are made before an event and arrive after it, unless a list
\* failed while the link was up (approval-center.tsx:38); and what is shown
\* waits, unless it was resolved while the page was not told or had asked for
\* a list (approval-center.tsx:106).
WaitingIsShown ==
  Quiet =>
    /\ ~unlisted => Pending \subseteq approvals
    /\ approvals \ unaware \subseteq Pending

\* Disabled buttons are those of an answer on its way (approval-center.tsx:114).
ActingIsInFlight == acting # NoRequest => \E c \in respond : c.of = acting
=============================================================================
