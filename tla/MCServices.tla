------------------------------ MODULE MCServices ------------------------------
(***************************************************************************)
(* What servers keep and start for their pages: the routes of the web      *)
(* server, with Core, the sessions of the console, installs and adapters.  *)
(* They share no state.  A behaviour is one of one of them, the subject,   *)
(* while the others stay as they are initially.                            *)
(***************************************************************************)
EXTENDS Integers, Sequences, FiniteSets

CONSTANTS
  Pages, Ports, CorePort, NoPort, MaxSpawns, MaxChanges,
  Users, Handlers, Passwords, NoUser, MaxSecrets, MaxCrashes,
  Panels, MaxInstalls, MaxVanish,
  Chats, Clicks, RunIds, NoRun, NoChat, MaxDowns

ASSUME ServicesBounds ==
  /\ CorePort \in Ports
  /\ MaxSecrets \in Nat /\ MaxCrashes \in Nat /\ MaxInstalls \in Nat
  /\ NoRun \notin RunIds

VARIABLES
  subject,
  target, file, cores, tracked, foreign, section, changes, mover, unstored,
  authFile, authDir, secrets, auth, cookie, screen, crashes, overlapped,
  records, entry, binary, row, install, verify, outcome, vanished, tangled,
  alive, owner, used, linked, chat, apply, kills, instances, active, listing,
  page, stops, downs, rushed, unstopped, stale

Server == INSTANCE ServerRoutes WITH page <- section
Adapters == INSTANCE PageRuns

serverVars == <<target, file, cores, tracked, foreign, section, changes, mover, unstored>>
authVars == <<authFile, authDir, secrets, auth, cookie, screen, crashes, overlapped>>
installVars == <<records, entry, binary, row, install, verify, outcome, vanished, tangled>>
adapterVars == <<alive, owner, used, linked, chat, apply, kills, instances, active,
                 listing, page, stops, downs, rushed, unstopped, stale>>
allVars == <<subject, serverVars, authVars, installVars, adapterVars>>

Init ==
  /\ subject \in {"server", "auth", "install", "adapters"}
  /\ Server!CoreServerInit /\ Server!AuthInit /\ Server!InstallsInit /\ Adapters!PageRunsInit
  /\ subject # "server" => file = NoPort
  /\ subject # "auth" => authDir

ServerStep ==
  /\ subject = "server" /\ Server!CoreServerNext
  /\ UNCHANGED <<subject, authVars, installVars, adapterVars>>

AuthStep ==
  /\ subject = "auth" /\ Server!AuthNext
  /\ UNCHANGED <<subject, serverVars, installVars, adapterVars>>

InstallStep ==
  /\ subject = "install" /\ Server!InstallsNext
  /\ UNCHANGED <<subject, serverVars, authVars, adapterVars>>

AdapterStep ==
  /\ subject = "adapters" /\ Adapters!PageRunsNext
  /\ UNCHANGED <<subject, serverVars, authVars, installVars>>

Next ==
  ServerStep \/ AuthStep \/ InstallStep \/ AdapterStep

Spec == Init /\ [][Next]_allVars

-----------------------------------------------------------------------------
\* Every variable of every part keeps its type.
TypesOK ==
  /\ subject = "server" => Server!CoreServerTypeOK
  /\ subject = "auth" => Server!AuthTypeOK
  /\ subject = "install" => Server!InstallsTypeOK
  /\ subject = "adapters" => Adapters!PageRunsTypeOK

\* The page that changed the target last has its event stream where its calls
\* go, unless it left the settings before it reconnected or no answer came
\* (connection-section.tsx:156).
StreamFollowsCalls == subject = "server" => Server!StreamFollowsCalls

\* A restart of the server keeps the Core it talks to, unless file or memory was
\* changed alone (core-target.ts:61).
TargetSurvivesRestart == Server!TargetSurvivesRestart

\* A session that a browser was given stays valid until it logs out, unless two
\* first setups overlapped (app-ui-auth.ts:136).
SessionsHold == subject = "auth" => Server!SessionsHold

\* No more records say "success" than installs succeeded, and a record says of
\* its install what became of it, unless installs or their records were mixed up
\* or the report of a success got no answer (install-manager.ts:60).
OutcomesAreTheirOwn ==
  subject = "install" => Server!SuccessesAreEarned /\ Server!OutcomesAreTheirOwn

\* An adapter that lives belongs to a view that knows it, or will be stopped
\* (use-adapter-lifecycle.ts:34), and a run the list says is running lives
\* (use-ws.ts:94).
RunsAreKnown == subject = "adapters" => Adapters!AdaptersAreOwned /\ Adapters!ListedIsAlive
=============================================================================
