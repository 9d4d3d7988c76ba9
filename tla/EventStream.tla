----------------------------- MODULE EventStream -----------------------------
(***************************************************************************)
(* What a browser sees of one answer of GET /api/core/events, and all that *)
(* ProxyCoreClient assumes of it: at most one announcement, Core's         *)
(* messages only after it, at most one farewell, nothing after that.       *)
(***************************************************************************)
EXTENDS Naturals

VARIABLES
  phase,      \* "open", "bridged" once announced, "ended"
  farewell,   \* last event before the end: "none", "offline", "error"
  delivered   \* messages of Core delivered so far

vars == <<phase, farewell, delivered>>

Init ==
  /\ phase = "open"
  /\ farewell = "none"
  /\ delivered = 0

Announce ==
  /\ phase = "open"
  /\ phase' = "bridged"
  /\ UNCHANGED <<farewell, delivered>>

Deliver ==
  /\ phase = "bridged"
  /\ delivered' = delivered + 1
  /\ UNCHANGED <<phase, farewell>>

\* Core is offline: only a stream that was never bridged says so.
Offline ==
  /\ phase = "open"
  /\ phase' = "ended"
  /\ farewell' = "offline"
  /\ UNCHANGED delivered

End ==
  /\ phase \in {"open", "bridged"}
  /\ phase' = "ended"
  /\ farewell' \in {"none", "error"}
  /\ UNCHANGED delivered

Next == Announce \/ Deliver \/ Offline \/ End

Spec == Init /\ [][Next]_vars
=============================================================================
