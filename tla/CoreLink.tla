------------------------------ MODULE CoreLink ------------------------------
(***************************************************************************)
(* What a CoreClient promises the components that subscribe to it, without *)
(* the transport that keeps the promise (core-types.ts, CoreClient: on,    *)
(* disconnect, connectionStatus).  The link to Core is                     *)
(*                                                                         *)
(*   idle        nobody has subscribed yet: nothing is opened              *)
(*   recovering  somebody has subscribed and events do not flow            *)
(*   linked      events from Core reach the subscribers                    *)
(*   stopped     disconnect() was called: the link never comes back        *)
(*                                                                         *)
(* Once the network and Core are calm for good, a link that is wanted is   *)
(* eventually up and is not dropped any more.                              *)
(***************************************************************************)
VARIABLES
  link,    \* state of the event link
  calm     \* Core and the network no longer fail

vars == <<link, calm>>

TypeOK ==
  /\ link \in {"idle", "recovering", "linked", "stopped"}
  /\ calm \in BOOLEAN

Init ==
  /\ link = "idle"
  /\ calm = FALSE

Subscribe ==
  /\ link = "idle"
  /\ link' = "recovering"
  /\ UNCHANGED calm

Establish ==
  /\ link = "recovering"
  /\ link' = "linked"
  /\ UNCHANGED calm

Lose ==
  /\ link = "linked"
  /\ ~calm
  /\ link' = "recovering"
  /\ UNCHANGED calm

Stop ==
  /\ link' = "stopped"
  /\ UNCHANGED calm

Settle ==
  /\ calm' = TRUE
  /\ UNCHANGED link

Next == Subscribe \/ Establish \/ Lose \/ Stop \/ Settle

Safe == Init /\ [][Next]_vars

Spec == Safe /\ WF_vars(calm /\ Establish)
=============================================================================
