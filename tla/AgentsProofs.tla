------------------------------ MODULE AgentsProofs ------------------------------
(***************************************************************************)
(* Proofs about what runs for a console somewhere else, for every number   *)
(* of browsers, shells, processes, requests and lost connections           *)
(* (MCAgents): the shells an agent node keeps, what the subscribers of a   *)
(* remote operation know, the one extension host with its manifests, and   *)
(* the turns of a chat with its adapter.  Each invariant holds whatever    *)
(* the subject, since the others stay as they are initially.  And about    *)
(* how a call of the page gets to one of the nodes (MeshRouting).          *)
(***************************************************************************)
EXTENDS MCAgents, MeshRouting, SequenceTheorems, FiniteSetTheorems, TLAPS

-----------------------------------------------------------------------------
(* The shells of a node *)

NodeTypes ==
  /\ ws \in {"none", "connecting", "open", "registering", "registered", "late", "closing"}
  /\ shell \in [Node!Shells -> [for: {"none", "main", "orphan", "remote"},
                                state: {"none", "running", "killed", "gone"}]]
  /\ closing \in BOOLEAN
  /\ shellProc \in 0..MaxShells /\ pidFile \in 0..MaxShells /\ remoteShell \in 0..MaxShells
  /\ forgotten \subseteq Node!Shells

LiveMain(s, p) == s[p].for = "main" /\ s[p].state \in {"running", "killed"}
RunsFor(s, p, for) == s[p].for = for /\ s[p].state = "running"

\* What holds a shell that runs, of each kind: its place, and for the main one
\* the pid file too, which otherwise names the orphan a crash left behind; none
\* if the close event of another has emptied the place.
Held ==
  /\ \A p \in Node!Shells \ forgotten :
       /\ RunsFor(shell, p, "main") => shellProc = p /\ pidFile = p
       /\ RunsFor(shell, p, "orphan") => pidFile = p /\ \A q \in Node!Shells : ~LiveMain(shell, q)
       /\ RunsFor(shell, p, "remote") => remoteShell = p
  /\ \A p \in Node!Shells : shell[p].for = "none" <=> shell[p].state = "none"
  /\ \A p \in forgotten : shell[p].for # "none"

Handles ==
  /\ shellProc # 0 => RunsFor(shell, shellProc, "main")
  /\ remoteShell # 0 => RunsFor(shell, remoteShell, "remote")
  /\ pidFile # 0 => shell[pidFile].for \in {"main", "orphan"}

\* If killed shells close in time: how far the connection is says which shells
\* there can be, a main one only from the registration on, none once the socket
\* has closed, and no killed one of a terminal but while there is no socket.
Prompt ==
  /\ ws \in {"connecting", "open", "registering", "late"} => \A p \in Node!Shells : ~LiveMain(shell, p)
  /\ ws = "none" => \A p \in Node!Shells : ~RunsFor(shell, p, "main") /\ ~RunsFor(shell, p, "remote")
  /\ ws # "none" => \A p \in Node!Shells : ~(shell[p].for = "remote" /\ shell[p].state = "killed")
  /\ reconnect => ~closing /\ ws = "none"
  /\ \A p, q \in Node!Shells : LiveMain(shell, p) /\ LiveMain(shell, q) => p = q
  /\ forgotten = {}

NodeInv == NodeTypes /\ Held /\ Handles /\ (prompt => Prompt)

-----------------------------------------------------------------------------
(* What is done to the shells *)

LEMMA NewShellIsUnmade ==
  ASSUME Node!Unmade # {}
  PROVE  Node!NewShell \in Node!Shells /\ shell[Node!NewShell].state = "none"
BY DEF Node!NewShell, Node!Unmade

\* Killing shells leaves what they are for, and lets none run that did not.
LEMMA KillKeeps ==
  ASSUME NodeTypes, NEW ps, NEW p \in Node!Shells
  PROVE  /\ Node!Kill(shell, ps)[p].for = shell[p].for
         /\ Node!Kill(shell, ps)[p].state =
              IF p \in ps /\ shell[p].state = "running" THEN "killed" ELSE shell[p].state
BY DEF Node!Kill, NodeTypes

LEMMA KillType ==
  ASSUME NodeTypes, NEW ps
  PROVE  Node!Kill(shell, ps) \in [Node!Shells -> [for: {"none", "main", "orphan", "remote"},
                                                   state: {"none", "running", "killed", "gone"}]]
BY DEF Node!Kill, NodeTypes

LEMMA ShellsAreNamed ==
  /\ 0 \notin Node!Shells /\ 0 \in 0..MaxShells
  /\ \A p \in Node!Shells : p \in 0..MaxShells
  /\ \A p \in 0..MaxShells : p # 0 => p \in Node!Shells
BY AgentsBounds DEF Node!Shells

-----------------------------------------------------------------------------
(* Each step keeps the invariant. *)

LEMMA NodeInitial == Node!NodeInit => NodeInv
<1> SUFFICES ASSUME Node!NodeInit
             PROVE  NodeInv
  OBVIOUS
<1>1. /\ ws = "connecting" /\ closing = FALSE /\ reconnect = FALSE /\ forgotten = {}
      /\ shell \in [Node!Shells -> [for: {"none", "main", "orphan", "remote"},
                                    state: {"none", "running", "killed", "gone"}]]
      /\ \A p \in Node!Shells : shell[p].for = "none" /\ shell[p].state = "none"
      /\ shellProc = 0 /\ pidFile = 0 /\ remoteShell = 0
  BY DEF Node!NodeInit
<1> QED
  BY <1>1, ShellsAreNamed DEF NodeInv, NodeTypes, Prompt, Held, Handles, LiveMain, RunsFor

LEMMA NodeUnchanged == NodeInv /\ UNCHANGED nodeVars => NodeInv'
BY DEF nodeVars, NodeInv, NodeTypes, Prompt, Held, Handles, LiveMain, RunsFor, Node!Shells

\* Steps of the connection alone
LEMMA ConnectionStays ==
  ASSUME NodeInv,
         Node!Connect \/ Node!Opens \/ Node!Welcome \/ Node!Input \/ Node!Stdin \/ Node!ShutDown
  PROVE  NodeInv'
<1>1. UNCHANGED <<shell, shellProc, pidFile, remoteShell, prompt, forgotten>>
  BY DEF Node!Connect, Node!Opens, Node!Welcome, Node!Input, Node!Stdin, Node!ShutDown
<1>2. NodeTypes'
  BY DEF NodeInv, NodeTypes, Node!Connect, Node!Opens, Node!Welcome, Node!Input, Node!Stdin, Node!ShutDown
<1>3. Held' /\ Handles'
  BY <1>1 DEF NodeInv, Held, Handles, LiveMain, RunsFor
<1>4. ASSUME prompt
      PROVE  Prompt'
  <2> USE <1>1, <1>4 DEF NodeInv, NodeTypes, Prompt, LiveMain, RunsFor
  <2>1. CASE Node!Connect
    BY <2>1 DEF Node!Connect
  <2>2. CASE Node!Opens
    BY <2>2 DEF Node!Opens
  <2>3. CASE Node!Welcome
    BY <2>3 DEF Node!Welcome
  <2>4. CASE Node!Input \/ Node!Stdin
    BY <2>4 DEF Node!Input, Node!Stdin
  <2>5. CASE Node!ShutDown
    BY <2>5 DEF Node!ShutDown
  <2> QED
    BY <2>1, <2>2, <2>3, <2>4, <2>5
<1> QED
  BY <1>1, <1>2, <1>3, <1>4 DEF NodeInv

\* The main shell is killed, and with it, when the connection closes, the one
\* of the terminal.
LEMMA KillStays ==
  ASSUME NodeInv, NEW terminal \in {0, remoteShell},
         shell' = Node!Kill(shell, {shellProc, terminal}), shellProc' = 0,
         remoteShell' = IF terminal = 0 THEN remoteShell ELSE 0,
         pidFile' = IF shellProc # 0 THEN 0 ELSE pidFile,
         UNCHANGED <<closing, prompt, forgotten>>
  PROVE  /\ Held' /\ Handles'
         /\ shell' \in [Node!Shells -> [for: {"none", "main", "orphan", "remote"},
                                       state: {"none", "running", "killed", "gone"}]]
         /\ \A p \in Node!Shells :
              /\ shell'[p].for = shell[p].for
              /\ shell'[p].state = IF p \in {shellProc, terminal} /\ shell[p].state = "running"
                                  THEN "killed" ELSE shell[p].state
<1> USE DEF NodeInv, LiveMain, RunsFor
<1>1. shell' \in [Node!Shells -> [for: {"none", "main", "orphan", "remote"},
                                 state: {"none", "running", "killed", "gone"}]]
  BY KillType
<1>2. \A p \in Node!Shells :
        /\ shell'[p].for = shell[p].for
        /\ shell'[p].state = IF p \in {shellProc, terminal} /\ shell[p].state = "running"
                            THEN "killed" ELSE shell[p].state
  BY KillKeeps
<1>3. Held'
  <2>1. \A p \in Node!Shells \ forgotten : ~RunsFor(shell', p, "main")
    BY <1>2 DEF Held
  <2>2. shellProc # 0 => \A p \in Node!Shells \ forgotten : ~RunsFor(shell, p, "orphan")
    BY ShellsAreNamed DEF Held, Handles, NodeTypes
  <2>3. \A p \in Node!Shells : /\ LiveMain(shell', p) => LiveMain(shell, p)
                               /\ RunsFor(shell', p, "orphan") => RunsFor(shell, p, "orphan")
    BY <1>2, ShellsAreNamed DEF NodeTypes
  <2>4. \A p \in Node!Shells \ forgotten : RunsFor(shell', p, "remote") => remoteShell' = p
    BY <1>2, ShellsAreNamed DEF Held, NodeTypes
  <2>5. /\ \A p \in Node!Shells : shell'[p].for = "none" <=> shell'[p].state = "none"
        /\ \A p \in forgotten : shell'[p].for # "none"
    BY <1>2 DEF Held, NodeTypes
  <2>6. \A p \in Node!Shells \ forgotten :
          RunsFor(shell', p, "orphan") => pidFile' = p /\ \A q \in Node!Shells : ~LiveMain(shell', q)
    BY <2>2, <2>3 DEF Held
  <2> QED
    BY <2>1, <2>4, <2>5, <2>6 DEF Held
<1>4. Handles'
  BY <1>2, ShellsAreNamed DEF Handles, NodeTypes
<1> QED
  BY <1>1, <1>2, <1>3, <1>4

LEMMA BeginShutdownStays ==
  ASSUME NodeInv, Node!BeginShutdown
  PROVE  NodeInv'
<1>1. /\ shell' = Node!Kill(shell, {shellProc}) /\ shellProc' = 0
      /\ pidFile' = IF shellProc # 0 THEN 0 ELSE pidFile
      /\ UNCHANGED <<ws, closing, reconnect, remoteShell, prompt, forgotten>>
  BY DEF Node!BeginShutdown
<1>2. shell' = Node!Kill(shell, {shellProc, 0})
  BY <1>1, ShellsAreNamed DEF Node!Kill
<1>3. /\ Held' /\ Handles'
      /\ shell' \in [Node!Shells -> [for: {"none", "main", "orphan", "remote"},
                                    state: {"none", "running", "killed", "gone"}]]
      /\ \A p \in Node!Shells :
           /\ shell'[p].for = shell[p].for
           /\ shell'[p].state = IF p \in {shellProc, 0} /\ shell[p].state = "running"
                               THEN "killed" ELSE shell[p].state
  BY <1>1, <1>2, KillStays
<1>4. NodeTypes'
  BY <1>1, <1>3, ShellsAreNamed DEF NodeInv, NodeTypes
<1>5. prompt => Prompt'
  <2> SUFFICES ASSUME prompt
               PROVE  Prompt'
    OBVIOUS
  <2> USE DEF LiveMain, RunsFor
  <2>1. \A p \in Node!Shells : /\ LiveMain(shell', p) => LiveMain(shell, p)
                               /\ RunsFor(shell', p, "main") => RunsFor(shell, p, "main")
                               /\ RunsFor(shell', p, "remote") => RunsFor(shell, p, "remote")
    BY <1>3
  <2>2. \A p \in Node!Shells : shell'[p].for = "remote" /\ shell'[p].state = "killed"
                              => shell[p].for = "remote" /\ shell[p].state = "killed"
    BY <1>3, ShellsAreNamed DEF NodeInv, NodeTypes, Handles
  <2> QED
    BY <1>1, <2>1, <2>2 DEF NodeInv, Prompt
<1> QED
  BY <1>1, <1>3, <1>4, <1>5 DEF NodeInv

LEMMA ClosesStays ==
  ASSUME NodeInv, Node!Closes
  PROVE  NodeInv'
<1>1. /\ shell' = Node!Kill(shell, {shellProc, remoteShell}) /\ shellProc' = 0 /\ remoteShell' = 0
      /\ pidFile' = IF shellProc # 0 THEN 0 ELSE pidFile
      /\ ws' = "none" /\ reconnect' = ~closing
      /\ UNCHANGED <<closing, prompt, forgotten>>
  BY DEF Node!Closes, Node!KillShells, Node!Reconnects
<1>2. /\ Held' /\ Handles'
      /\ shell' \in [Node!Shells -> [for: {"none", "main", "orphan", "remote"},
                                    state: {"none", "running", "killed", "gone"}]]
      /\ \A p \in Node!Shells :
           /\ shell'[p].for = shell[p].for
           /\ shell'[p].state = IF p \in {shellProc, remoteShell} /\ shell[p].state = "running"
                               THEN "killed" ELSE shell[p].state
  BY <1>1, KillStays
<1>3. NodeTypes'
  BY <1>1, <1>2, ShellsAreNamed DEF NodeInv, NodeTypes
<1>4. prompt => Prompt'
  <2> SUFFICES ASSUME prompt
               PROVE  Prompt'
    OBVIOUS
  <2> USE DEF LiveMain, RunsFor
  <2>1. \A p \in Node!Shells : LiveMain(shell', p) => LiveMain(shell, p)
    BY <1>2
  <2>2. \A p \in Node!Shells : ~RunsFor(shell', p, "main") /\ ~RunsFor(shell', p, "remote")
    BY <1>2 DEF NodeInv, Held, Prompt
  <2> QED
    BY <1>1, <2>1, <2>2 DEF NodeInv, Prompt
<1> QED
  BY <1>1, <1>2, <1>3, <1>4 DEF NodeInv

\* The registration makes the main shell; the one there is, and what the pid
\* file names, are killed.
LEMMA RegisteredStays ==
  ASSUME NodeInv, Node!Registered
  PROVE  NodeInv'
<1> USE DEF NodeInv, LiveMain, RunsFor
<1>1. /\ ws \in {"registering", "late"} /\ ws' \in {"closing", "registered"}
      /\ UNCHANGED <<closing, reconnect, remoteShell, prompt, forgotten>>
  BY DEF Node!Registered
<1>2. prompt => ~reconnect
  BY <1>1 DEF Prompt
<1>3. CASE upstream
  <2>1. UNCHANGED <<shell, shellProc, pidFile>>
    BY <1>3 DEF Node!Registered
  <2> QED
    BY <1>1, <1>2, <2>1 DEF NodeTypes, Prompt, Held, Handles
<1>4. CASE ~upstream
  <2> DEFINE new == Node!NewShell
             killed == Node!Kill(shell, {shellProc, pidFile} \ {0})
  <2>1. /\ Node!Unmade # {}
        /\ shell' = [killed EXCEPT ![new] = [for |-> "main", state |-> "running"]]
        /\ shellProc' = new /\ pidFile' = new
    BY <1>4 DEF Node!Registered, Node!SpawnShell, Node!Make
  <2>2. new \in Node!Shells /\ shell[new].state = "none" /\ new # 0 /\ new \in 0..MaxShells
    BY <2>1, NewShellIsUnmade, ShellsAreNamed
  <2>3. /\ killed \in [Node!Shells -> [for: {"none", "main", "orphan", "remote"},
                                       state: {"none", "running", "killed", "gone"}]]
        /\ \A p \in Node!Shells :
             /\ killed[p].for = shell[p].for
             /\ killed[p].state = IF p \in {shellProc, pidFile} /\ shell[p].state = "running"
                                  THEN "killed" ELSE shell[p].state
    BY KillType, KillKeeps, ShellsAreNamed
  <2> HIDE DEF new, killed
  <2>4. /\ shell' \in [Node!Shells -> [for: {"none", "main", "orphan", "remote"},
                                       state: {"none", "running", "killed", "gone"}]]
        /\ shell'[new] = [for |-> "main", state |-> "running"]
        /\ \A p \in Node!Shells : p # new =>
             /\ shell'[p].for = shell[p].for
             /\ shell'[p].state = IF p \in {shellProc, pidFile} /\ shell[p].state = "running"
                                  THEN "killed" ELSE shell[p].state
    BY <2>1, <2>2, <2>3
  <2>5. new \notin forgotten
    BY <2>2 DEF Held, NodeTypes
  <2>6. NodeTypes'
    BY <1>1, <2>1, <2>2, <2>4 DEF NodeTypes
  <2>7. prompt => Prompt'
    <3> SUFFICES ASSUME prompt
                 PROVE  Prompt'
      OBVIOUS
    <3>1. \A p \in Node!Shells : ~LiveMain(shell, p)
      BY <1>1 DEF Prompt
    <3> QED
      BY <1>1, <1>2, <2>4, <3>1, ShellsAreNamed DEF Prompt, Handles, NodeTypes
  <2>8. Held'
    <3>1. \A p \in Node!Shells \ forgotten' :
            /\ RunsFor(shell', p, "main") => p = new
            /\ ~RunsFor(shell', p, "orphan")
            /\ RunsFor(shell', p, "remote") => remoteShell' = p
      BY <1>1, <2>4 DEF Held
    <3>2. /\ \A p \in Node!Shells : shell'[p].for = "none" <=> shell'[p].state = "none"
          /\ \A p \in forgotten' : shell'[p].for # "none"
      BY <1>1, <2>4, <2>5 DEF Held, NodeTypes
    <3> QED
      BY <2>1, <3>1, <3>2 DEF Held
  <2>9. Handles'
    BY <1>1, <2>1, <2>2, <2>4, ShellsAreNamed DEF Handles, NodeTypes
  <2> QED
    BY <1>1, <2>6, <2>7, <2>8, <2>9
<1> QED
  BY <1>3, <1>4

\* A shell of a terminal is made while the node holds none.
LEMMA RelayShellSpawnStays ==
  ASSUME NodeInv, Node!RelayShellSpawn
  PROVE  NodeInv'
<1> USE DEF NodeInv, LiveMain, RunsFor
<1>1. /\ ws \in {"registered", "late", "closing"}
      /\ UNCHANGED <<ws, closing, reconnect, shellProc, pidFile, prompt, forgotten>>
  BY DEF Node!RelayShellSpawn, Node!Ending
<1>2. CASE Node!SendStdin
  <2>1. UNCHANGED <<shell, remoteShell>>
    BY <1>2 DEF Node!RelayShellSpawn
  <2> QED
    BY <1>1, <2>1 DEF NodeTypes, Prompt, Held, Handles
<1>3. CASE ~Node!SendStdin
  <2> DEFINE new == Node!NewShell
  <2>1. /\ Node!Unmade # {} /\ remoteShell = 0
        /\ shell' = [shell EXCEPT ![new] = [for |-> "remote", state |-> "running"]]
        /\ remoteShell' = new
    BY <1>3 DEF Node!RelayShellSpawn, Node!Make
  <2>2. new \in Node!Shells /\ shell[new].state = "none" /\ new # 0 /\ new \in 0..MaxShells
    BY <2>1, NewShellIsUnmade, ShellsAreNamed
  <2> HIDE DEF new
  <2>3. /\ shell' \in [Node!Shells -> [for: {"none", "main", "orphan", "remote"},
                                       state: {"none", "running", "killed", "gone"}]]
        /\ shell'[new] = [for |-> "remote", state |-> "running"]
        /\ \A p \in Node!Shells : p # new => shell'[p] = shell[p]
    BY <2>1, <2>2 DEF NodeTypes
  <2>4. NodeTypes'
    BY <1>1, <2>1, <2>2, <2>3 DEF NodeTypes
  <2>5. prompt => Prompt'
    BY <1>1, <2>3 DEF Prompt
  <2>6. Held'
    <3>1. \A p \in Node!Shells \ forgotten' :
            /\ RunsFor(shell', p, "main") => shellProc' = p /\ pidFile' = p
            /\ RunsFor(shell', p, "orphan") => RunsFor(shell, p, "orphan")
            /\ RunsFor(shell', p, "remote") => remoteShell' = p
      BY <1>1, <2>1, <2>3, ShellsAreNamed DEF Held
    <3>2. \A p \in Node!Shells : LiveMain(shell', p) => LiveMain(shell, p)
      BY <2>3
    <3>3. /\ \A p \in Node!Shells : shell'[p].for = "none" <=> shell'[p].state = "none"
          /\ \A p \in forgotten' : shell'[p].for # "none"
      BY <1>1, <2>2, <2>3 DEF Held, NodeTypes
    <3> QED
      BY <1>1, <3>1, <3>2, <3>3 DEF Held
  <2>7. Handles'
    BY <1>1, <2>1, <2>2, <2>3, ShellsAreNamed DEF Handles, Held, NodeTypes
  <2> QED
    BY <1>1, <2>4, <2>5, <2>6, <2>7
<1> QED
  BY <1>2, <1>3

\* A shell closes: if another has its place, that one is forgotten, which does
\* not happen to a node whose killed shells close in time.
LEMMA ShellClosesStays ==
  ASSUME NodeInv, NEW p \in Node!Shells, Node!ShellCloses(p)
  PROVE  NodeInv'
<1> USE DEF NodeInv, LiveMain, RunsFor
<1>1. /\ shell[p].state \in {"running", "killed"}
      /\ shell' = [shell EXCEPT ![p].state = "gone"]
      /\ IF shell[p].for = "main" THEN shellProc' = 0 /\ pidFile' = 0
         ELSE UNCHANGED <<shellProc, pidFile>>
      /\ remoteShell' = IF shell[p].for = "remote" THEN 0 ELSE remoteShell
      /\ forgotten' = forgotten \cup ({Node!Place(shell[p].for)} \ {0, p})
      /\ UNCHANGED <<ws, closing, reconnect, prompt>>
  BY DEF Node!ShellCloses
<1>2. /\ shell' \in [Node!Shells -> [for: {"none", "main", "orphan", "remote"},
                                     state: {"none", "running", "killed", "gone"}]]
      /\ shell'[p].state = "gone" /\ shell'[p].for = shell[p].for
      /\ \A q \in Node!Shells : q # p => shell'[q] = shell[q]
  BY <1>1 DEF NodeTypes
<1>3. /\ shell[p].for = "main" => Node!Place(shell[p].for) = shellProc
      /\ shell[p].for = "remote" => Node!Place(shell[p].for) = remoteShell
      /\ shell[p].for \notin {"main", "remote"} => Node!Place(shell[p].for) = 0
  BY DEF Node!Place
<1>4. \A q \in forgotten' \ forgotten :
        q \in Node!Shells /\ RunsFor(shell, q, shell[p].for) /\ q # p /\ shell[p].for \in {"main", "remote"}
  BY <1>1, <1>3, ShellsAreNamed DEF Handles, NodeTypes
<1>5. /\ shell[p].for = "main" /\ shellProc \notin {0, p} => shellProc \in forgotten'
      /\ shell[p].for = "remote" /\ remoteShell \notin {0, p} => remoteShell \in forgotten'
      /\ forgotten \subseteq forgotten'
  BY <1>1, <1>3
<1>6. NodeTypes'
  BY <1>1, <1>2, <1>4, ShellsAreNamed DEF NodeTypes
<1>7. prompt => Prompt'
  <2> SUFFICES ASSUME prompt
               PROVE  Prompt'
    OBVIOUS
  <2>1. forgotten' \ forgotten = {}
    <3>1. shell[p].for = "main" => \A q \in Node!Shells : RunsFor(shell, q, "main") => q = p
      BY <1>1 DEF Prompt
    <3>2. shell[p].for = "remote" => \A q \in Node!Shells : RunsFor(shell, q, "remote") => q = p
      BY <1>1 DEF Prompt, Held
    <3> QED
      BY <1>4, <3>1, <3>2
  <2> QED
    BY <1>1, <1>2, <1>5, <2>1 DEF Prompt
<1>8. Held'
  <2>1. \A q \in Node!Shells \ forgotten' :
          /\ RunsFor(shell', q, "main") => shellProc' = q /\ pidFile' = q
          /\ RunsFor(shell', q, "orphan") => pidFile' = q /\ \A r \in Node!Shells : ~LiveMain(shell', r)
          /\ RunsFor(shell', q, "remote") => remoteShell' = q
    <3> SUFFICES ASSUME NEW q \in Node!Shells, q \notin forgotten'
                 PROVE  /\ RunsFor(shell', q, "main") => shellProc' = q /\ pidFile' = q
                        /\ RunsFor(shell', q, "orphan") => pidFile' = q /\ \A r \in Node!Shells : ~LiveMain(shell', r)
                        /\ RunsFor(shell', q, "remote") => remoteShell' = q
      OBVIOUS
    <3>1. q \notin forgotten /\ q # 0
      BY <1>5, ShellsAreNamed
    <3>2. RunsFor(shell', q, "main") => shellProc' = q /\ pidFile' = q
      BY <1>1, <1>2, <1>5, <3>1 DEF Held
    <3>3. RunsFor(shell', q, "orphan") => pidFile' = q /\ \A r \in Node!Shells : ~LiveMain(shell', r)
      BY <1>1, <1>2, <3>1 DEF Held
    <3>4. RunsFor(shell', q, "remote") => remoteShell' = q
      BY <1>1, <1>2, <1>5, <3>1 DEF Held
    <3> QED
      BY <3>2, <3>3, <3>4
  <2>2. \A q \in Node!Shells : shell'[q].for = "none" <=> shell'[q].state = "none"
    BY <1>1, <1>2 DEF Held
  <2>3. \A q \in forgotten' : shell'[q].for # "none"
    <3>1. shell[p].for # "none"
      BY <1>1 DEF Held
    <3> QED
      BY <1>2, <1>4, <3>1 DEF Held, NodeTypes
  <2> QED
    BY <2>1, <2>2, <2>3 DEF Held
<1>9. Handles'
  BY <1>1, <1>2, ShellsAreNamed DEF Handles, NodeTypes
<1> QED
  BY <1>1, <1>6, <1>7, <1>8, <1>9

\* The main shell that runs becomes the orphan the pid file names.
LEMMA CrashStays ==
  ASSUME NodeInv, Node!Crash
  PROVE  NodeInv'
<1> USE DEF NodeInv, LiveMain, RunsFor
<1>1. /\ ws' = "connecting" /\ reconnect' = FALSE /\ shellProc' = 0 /\ remoteShell' = 0
      /\ UNCHANGED <<closing, pidFile, prompt, forgotten>>
      /\ shell' = [p \in Node!Shells |->
                     CASE shell[p].for = "remote" -> [shell[p] EXCEPT !.state = "gone"]
                       [] shell[p].for = "main" -> [shell[p] EXCEPT !.for = "orphan"]
                       [] OTHER -> shell[p]]
  BY DEF Node!Crash
<1>2. \A p \in Node!Shells :
        /\ shell[p].for = "remote" => shell'[p] = [shell[p] EXCEPT !.state = "gone"]
        /\ shell[p].for = "main" => shell'[p] = [shell[p] EXCEPT !.for = "orphan"]
        /\ shell[p].for \notin {"remote", "main"} => shell'[p] = shell[p]
  BY <1>1
<1>3. \A p \in Node!Shells :
        shell'[p] \in [for: {"none", "main", "orphan", "remote"},
                       state: {"none", "running", "killed", "gone"}]
  BY <1>2 DEF NodeTypes
<1>4. shell' \in [Node!Shells -> [for: {"none", "main", "orphan", "remote"},
                                  state: {"none", "running", "killed", "gone"}]]
  BY <1>1, <1>3
<1>5. NodeTypes'
  BY <1>1, <1>4, AgentsBounds DEF NodeTypes
<1>6. \A p \in Node!Shells :
        /\ shell'[p].for # "main"
        /\ shell'[p].for = "orphan" => shell[p].for \in {"main", "orphan"}
        /\ shell[p].for \in {"main", "orphan"} => shell'[p].for = "orphan"
        /\ shell'[p].for = "remote" => shell'[p].state = "gone"
        /\ shell'[p].for = "orphan" => shell'[p].state = shell[p].state
        /\ shell'[p].for = "none" <=> shell[p].for = "none"
        /\ shell'[p].state = "none" <=> shell[p].state = "none"
  <2>1. \A p \in Node!Shells : /\ shell[p] \in [for: {"none", "main", "orphan", "remote"},
                                                 state: {"none", "running", "killed", "gone"}]
                               /\ shell[p].for = "none" <=> shell[p].state = "none"
    BY DEF NodeTypes, Held
  <2> QED
    BY <1>2, <2>1
<1>7. prompt => Prompt'
  BY <1>1, <1>6 DEF Prompt
<1>8. Held'
  <2>1. /\ \A p \in Node!Shells : shell'[p].for = "none" <=> shell'[p].state = "none"
        /\ \A p \in forgotten' : shell'[p].for # "none"
    BY <1>1, <1>6 DEF Held, NodeTypes
  <2> QED
    BY <1>1, <1>6, <2>1 DEF Held
<1>9. Handles'
  BY <1>1, <1>6, ShellsAreNamed DEF Handles, NodeTypes
<1> QED
  BY <1>1, <1>5, <1>7, <1>8, <1>9

LEMMA NodeStays ==
  ASSUME NodeInv, Node!NodeNext
  PROVE  NodeInv'
BY ConnectionStays, BeginShutdownStays, ClosesStays, RegisteredStays, RelayShellSpawnStays,
   ShellClosesStays, CrashStays DEF Node!NodeNext

\* No shell of a node is forgotten over reconnects and a crash, but one that had
\* its place when another closed; which none has if killed shells close their
\* pipes before the node reconnects (node-runtime.ts:525).
THEOREM ShellsKnownCorrect == AgentsSpec => []ShellsKnown
<1>1. AgentsInit => NodeInv
  BY NodeInitial DEF AgentsInit
<1>2. NodeInv /\ [AgentsNext]_agentsVars => NodeInv'
  <2> SUFFICES ASSUME NodeInv, [AgentsNext]_agentsVars
               PROVE  NodeInv'
    OBVIOUS
  <2>1. CASE NodeStep
    BY <2>1, NodeStays DEF NodeStep
  <2>2. CASE ChatStep \/ OpStep \/ HostStep \/ ProviderStep
    BY <2>2, NodeUnchanged DEF ChatStep, OpStep, HostStep, ProviderStep
  <2>3. CASE UNCHANGED agentsVars
    BY <2>3, NodeUnchanged DEF agentsVars
  <2> QED
    BY <2>1, <2>2, <2>3 DEF AgentsNext
<1>3. NodeInv => ShellsKnown
  BY DEF NodeInv, NodeTypes, Held, Prompt, RunsFor, ShellsKnown, Node!ShellsKnown
<1> QED
  BY <1>1, <1>2, <1>3, PTL DEF AgentsSpec

-----------------------------------------------------------------------------
(* A remote operation *)

Results == {"none", "ok", "error"}
AgentMessage ==
  [type : {"status", "output", "result"}, status : Node!Statuses, output : Nat, result : Results]
Operation ==
  [kind : Node!Kinds, remote : BOOLEAN, status : Node!Statuses \cup {"absent"}, buffer : Seq(Nat),
   result : Results]
View == [status : Node!Statuses \cup {"unknown"}, outputs : Seq(Nat), result : Results]

OpsTypes ==
  /\ op \in Operation /\ seen \in [Browsers -> View] /\ subscribers \subseteq Browsers
  /\ fromAgent \in Seq(AgentMessage) /\ toAgent \in Seq({"start", "input"})
  /\ emitted \in Nat /\ runner \in {"idle", "waiting", "done"}

\* s ends t, position by position.
EndsWith(t, s) == Len(s) <= Len(t) /\ \A i \in 1..Len(s) : s[i] = t[Len(t) - Len(s) + i]

Agree ==
  /\ \A b \in subscribers :
       /\ seen[b].status = op.status /\ seen[b].result = op.result
       /\ EndsWith(seen[b].outputs, op.buffer)
  /\ \A b \in Browsers : b \notin subscribers => seen[b] = Node!Nothing
  /\ ~Node!Known => subscribers = {} /\ op = Node!NoOp /\ toAgent = <<>> /\ runner = "idle"

\* The agent sends the result last, and once it is known no status follows
\* that could take it back.
ResultLast ==
  /\ \A i \in DOMAIN toAgent : toAgent[i] = "start" => i = 1 /\ runner = "idle"
  /\ runner = "idle" => fromAgent = <<>> /\ op.result = "none"
  /\ runner = "idle" /\ toAgent # <<>> => toAgent[1] = "start"
  /\ runner = "idle" /\ op.remote /\ link = "first" => toAgent # <<>>
  /\ op.result # "none" => runner = "done" /\ Node!Ended(op)
  /\ op.result # "none" => \A j \in DOMAIN fromAgent : fromAgent[j].type # "status"
  /\ \A i, j \in DOMAIN fromAgent :
       fromAgent[i].type = "result" /\ fromAgent[j].type = "status" => j < i
  /\ \A i \in DOMAIN fromAgent : fromAgent[i].type = "result" => runner = "done"

OpsInv == OpsTypes /\ Agree /\ ResultLast

-----------------------------------------------------------------------------
(* Ends of sequences *)

LEMMA EndsWithIsSuffix ==
  ASSUME NEW S, NEW s \in Seq(S), NEW t \in Seq(S), EndsWith(t, s)
  PROVE  Node!IsSuffix(s, t)
<1> DEFINE r == Node!Reverse(s)  q == Node!Reverse(t)
<1>1. Len(s) \in Nat /\ Len(t) \in Nat /\ Len(s) <= Len(t)
  BY DEF EndsWith
<1>2. /\ r = [i \in 1..Len(s) |-> s[(Len(s) - i) + 1]]
      /\ q = [i \in 1..Len(t) |-> t[(Len(t) - i) + 1]]
  BY DEF Node!Reverse
<1>3. r \in Seq(S) /\ Len(r) = Len(s) /\ q \in Seq(S) /\ Len(q) = Len(t)
  BY <1>1, <1>2, SeqDef, LenProperties
<1>4. ASSUME NEW i \in 1..Len(s) PROVE r[i] = q[i]
  <2>1. (Len(s) - i) + 1 \in 1..Len(s)
    BY <1>1
  <2>2. s[(Len(s) - i) + 1] = t[Len(t) - Len(s) + ((Len(s) - i) + 1)]
    BY <2>1 DEF EndsWith
  <2>3. Len(t) - Len(s) + ((Len(s) - i) + 1) = (Len(t) - i) + 1
    BY <1>1
  <2> QED
    BY <1>1, <1>2, <2>2, <2>3
<1> HIDE DEF r, q
<1>5. SubSeq(r, 1, Len(r)) = SubSeq(q, 1, Len(r))
  BY <1>1, <1>3, <1>4
<1>6. Node!IsPrefix(r, q)
  BY <1>1, <1>3, <1>5 DEF Node!IsPrefix
<1> QED
  BY <1>6 DEF Node!IsSuffix, r, q

LEMMA EndsWithEmpty == ASSUME NEW S, NEW t \in Seq(S) PROVE EndsWith(t, <<>>)
BY DEF EndsWith

LEMMA EndsWithAppend ==
  ASSUME NEW S, NEW s \in Seq(S), NEW t \in Seq(S), NEW n \in S, EndsWith(t, s)
  PROVE  EndsWith(Append(t, n), Append(s, n))
BY DEF EndsWith

LEMMA EndsWithTail ==
  ASSUME NEW S, NEW s \in Seq(S), NEW t \in Seq(S), s # <<>>, EndsWith(t, s)
  PROVE  EndsWith(t, Tail(s))
BY DEF EndsWith

LEMMA EndsWithConcat ==
  ASSUME NEW S, NEW s \in Seq(S), NEW t \in Seq(S)
  PROVE  EndsWith(t \o s, s)
BY DEF EndsWith

-----------------------------------------------------------------------------
(* Each step keeps the invariant. *)

LEMMA OpsInitial == Node!OpsInit => OpsInv
<1> SUFFICES ASSUME Node!OpsInit
             PROVE  OpsInv
  OBVIOUS
<1>1. /\ op = Node!NoOp /\ subscribers = {} /\ seen = [b \in Browsers |-> Node!Nothing]
      /\ toAgent = <<>> /\ fromAgent = <<>> /\ runner = "idle" /\ emitted = 0
  BY DEF Node!OpsInit
<1>2. Node!NoOp \in Operation /\ Node!Nothing \in View /\ Node!NoOp.result = "none" /\ ~Node!NoOp.remote
  BY DEF Node!NoOp, Node!Nothing, Operation, View, Node!Kinds, Results
<1>3. OpsTypes
  BY <1>1, <1>2 DEF OpsTypes
<1>4. Agree
  BY <1>1 DEF Agree
<1>5. ResultLast
  BY <1>1, <1>2 DEF ResultLast
<1> QED
  BY <1>3, <1>4, <1>5 DEF OpsInv

LEMMA OpsUnchanged == OpsInv /\ UNCHANGED opsVars => OpsInv'
BY DEF opsVars, OpsInv, OpsTypes, Agree, ResultLast, Node!Known, Node!Ended

\* A part of a subscriber's view.
LEMMA StatusOfView ==
  ASSUME NEW s \in View, NEW told \in Node!Statuses
  PROVE  /\ [s EXCEPT !.status = told] \in View
         /\ [s EXCEPT !.status = told].status = told
         /\ [s EXCEPT !.status = told].outputs = s.outputs
         /\ [s EXCEPT !.status = told].result = s.result
BY DEF View

LEMMA StartStays ==
  ASSUME OpsInv, NEW b \in Browsers, NEW kind \in Node!Kinds, NEW remote \in BOOLEAN,
         Node!Start(b, kind, remote)
  PROVE  OpsInv'
<1> DEFINE told == IF remote THEN "running" ELSE "starting"
<1> told \in Node!Statuses
  BY DEF Node!Statuses
<1>1. /\ ~Node!Known
      /\ op' = [Node!NoOp EXCEPT !.kind = kind, !.remote = remote, !.status = told]
      /\ subscribers' = {b}
      /\ toAgent' = IF remote THEN Append(toAgent, "start") ELSE toAgent
      /\ UNCHANGED <<fromAgent, runner, emitted, link>>
  BY DEF Node!Start
<1>2. seen' = [c \in Browsers |-> IF c \in {b} THEN [seen[c] EXCEPT !.status = told] ELSE seen[c]]
  BY DEF Node!Start, Node!Tell
<1>3. /\ subscribers = {} /\ op = Node!NoOp /\ toAgent = <<>> /\ runner = "idle" /\ fromAgent = <<>>
      /\ seen[b] = Node!Nothing
  BY <1>1 DEF OpsInv, Agree, ResultLast
<1> HIDE DEF told
<1>4. /\ op' \in Operation /\ op'.status = told /\ op'.result = "none" /\ op'.buffer = <<>>
      /\ op'.remote = remote
  <2>1. op' = [kind |-> kind, remote |-> remote, status |-> told, buffer |-> <<>>, result |-> "none"]
    BY <1>1 DEF Node!NoOp
  <2>2. <<>> \in Seq(Nat) /\ "none" \in Results /\ told \in Node!Statuses \cup {"absent"}
    BY DEF Results
  <2> QED
    BY <2>1, <2>2 DEF Operation
<1>5. /\ seen' \in [Browsers -> View]
      /\ seen'[b].status = told /\ seen'[b].result = "none" /\ seen'[b].outputs = <<>>
      /\ \A c \in Browsers : c # b => seen'[c] = seen[c]
  BY <1>2, <1>3, StatusOfView DEF OpsInv, OpsTypes, Node!Nothing
<1>6. /\ toAgent' \in Seq({"start", "input"}) /\ (remote => toAgent' # <<>>)
      /\ \A i \in DOMAIN toAgent' : i = 1 /\ toAgent'[i] = "start"
  <2>1. CASE remote
    <3>1. toAgent' = Append(toAgent, "start") /\ toAgent \in Seq({"start", "input"}) /\ toAgent = <<>>
      BY <1>1, <1>3, <2>1 DEF OpsInv, OpsTypes
    <3> QED
      BY <3>1
  <2>2. CASE ~remote
    BY <1>1, <1>3, <2>2 DEF OpsInv, OpsTypes
  <2> QED
    BY <2>1, <2>2
<1>7. OpsTypes'
  <2>1. subscribers' \subseteq Browsers /\ UNCHANGED <<fromAgent, emitted, runner>>
    BY <1>1
  <2> QED
    BY <2>1, <1>4, <1>5, <1>6 DEF OpsInv, OpsTypes
<1>8. Agree'
  <2>1. op'.status # "absent"
    BY <1>4 DEF Node!Statuses
  <2>2. EndsWith(seen'[b].outputs, op'.buffer)
    <3>1. <<>> \in Seq(Nat)
      OBVIOUS
    <3>2. EndsWith(<<>>, <<>>)
      BY <3>1, EndsWithEmpty
    <3> QED
      BY <1>4, <1>5, <3>2
  <2>3. \A c \in Browsers : c \notin subscribers' => seen'[c] = Node!Nothing
    BY <1>1, <1>3, <1>5 DEF OpsInv, Agree
  <2> QED
    BY <1>1, <1>4, <1>5, <2>1, <2>2, <2>3 DEF Agree, Node!Known
<1>9. ResultLast'
  BY <1>1, <1>3, <1>4, <1>6 DEF ResultLast
<1> QED
  BY <1>7, <1>8, <1>9 DEF OpsInv

\* One that joins is told the status, what is buffered, and the result.
LEMMA SubscribeStays ==
  ASSUME OpsInv, NEW b \in Browsers, Node!Subscribe(b)
  PROVE  OpsInv'
<1> DEFINE result == IF Node!Ended(op) /\ op.result # "none" THEN op.result ELSE seen[b].result
           joined == [seen[b] EXCEPT !.status = op.status, !.outputs = @ \o op.buffer, !.result = result]
<1>1. /\ Node!Known /\ subscribers' = subscribers \cup {b}
      /\ UNCHANGED <<op, toAgent, fromAgent, runner, emitted, link>>
  BY DEF Node!Subscribe
<1>2. seen' = [c \in Browsers |-> IF c \in {b} THEN joined ELSE seen[c]]
  BY DEF Node!Subscribe, Node!Tell, Node!Replay
<1>3. op \in Operation /\ seen[b] \in View /\ op.status \in Node!Statuses
  BY <1>1 DEF OpsInv, OpsTypes, Operation, Node!Known
<1>4. result = op.result
  <2>1. op.result # "none" => Node!Ended(op)
    BY DEF OpsInv, ResultLast
  <2>2. b \in subscribers => seen[b].result = op.result
    BY DEF OpsInv, Agree
  <2>3. b \notin subscribers => seen[b].result = "none"
    BY DEF OpsInv, Agree, Node!Nothing
  <2> QED
    BY <2>1, <2>2, <2>3
<1> HIDE DEF result
<1>5. /\ joined \in View /\ joined.status = op.status /\ joined.result = op.result
      /\ EndsWith(joined.outputs, op.buffer)
  <2>1. /\ seen[b].outputs \in Seq(Nat) /\ op.buffer \in Seq(Nat) /\ op.result \in Results
    BY <1>3 DEF View, Operation
  <2>2. /\ joined.status = op.status /\ joined.result = op.result
        /\ joined.outputs = seen[b].outputs \o op.buffer
    BY <1>3, <1>4 DEF View
  <2>3. joined \in View
    <3>1. seen[b].outputs \o op.buffer \in Seq(Nat)
      BY <2>1
    <3>2. result \in Results /\ op.status \in Node!Statuses \cup {"unknown"}
      BY <1>3, <1>4, <2>1
    <3> QED
      BY <1>3, <3>1, <3>2 DEF View
  <2>4. EndsWith(seen[b].outputs \o op.buffer, op.buffer)
    BY <2>1, EndsWithConcat
  <2> QED
    BY <2>2, <2>3, <2>4
<1> HIDE DEF joined
<1>6. /\ seen' \in [Browsers -> View] /\ seen'[b] = joined
      /\ \A c \in Browsers : c # b => seen'[c] = seen[c]
  BY <1>2, <1>5 DEF OpsInv, OpsTypes
<1>7. OpsTypes'
  BY <1>1, <1>6 DEF OpsInv, OpsTypes
<1>8. Agree'
  BY <1>1, <1>5, <1>6 DEF OpsInv, OpsTypes, Agree, Node!Known
<1>9. ResultLast'
  BY <1>1 DEF OpsInv, ResultLast, Node!Ended
<1> QED
  BY <1>7, <1>8, <1>9 DEF OpsInv

LEMMA SocketClosesStays ==
  ASSUME OpsInv, NEW b \in Browsers, Node!SocketCloses(b)
  PROVE  OpsInv'
<1>1. /\ subscribers' = subscribers \ {b} /\ seen' = [seen EXCEPT ![b] = Node!Nothing]
      /\ b \in subscribers /\ UNCHANGED <<op, toAgent, fromAgent, runner, emitted, link>>
  BY DEF Node!SocketCloses
<1>2. Node!Nothing \in View
  BY DEF Node!Nothing, View, Results
<1>3. /\ seen' \in [Browsers -> View] /\ seen'[b] = Node!Nothing
      /\ \A c \in Browsers : c # b => seen'[c] = seen[c]
  BY <1>1, <1>2 DEF OpsInv, OpsTypes
<1>4. OpsTypes'
  BY <1>1, <1>3 DEF OpsInv, OpsTypes
<1>5. Agree'
  BY <1>1, <1>3 DEF OpsInv, OpsTypes, Agree, Node!Known
<1>6. ResultLast'
  BY <1>1 DEF OpsInv, ResultLast, Node!Ended
<1> QED
  BY <1>4, <1>5, <1>6 DEF OpsInv

\* The manager tells its subscribers what it does to the operation: a status...
LEMMA EmitStatusAgrees ==
  ASSUME OpsTypes, Agree, Node!Known, NEW told \in Node!Statuses, Node!EmitStatus(told),
         UNCHANGED subscribers
  PROVE  /\ op' \in Operation /\ op'.status = told /\ op'.result = op.result /\ op'.remote = op.remote
         /\ seen' \in [Browsers -> View] /\ Agree'
<1>1. op' = [op EXCEPT !.status = told]
  BY DEF Node!EmitStatus
<1>2. seen' = [b \in Browsers |-> IF b \in subscribers THEN [seen[b] EXCEPT !.status = told] ELSE seen[b]]
  BY DEF Node!EmitStatus, Node!Tell
<1>3. /\ op' \in Operation /\ op'.status = told /\ op'.result = op.result /\ op'.buffer = op.buffer
      /\ op'.remote = op.remote
  BY <1>1 DEF OpsTypes, Operation
<1>4. \A b \in Browsers :
        /\ b \in subscribers => /\ seen'[b] \in View /\ seen'[b].status = told
                                /\ seen'[b].outputs = seen[b].outputs /\ seen'[b].result = seen[b].result
        /\ b \notin subscribers => seen'[b] = seen[b]
  BY <1>2, StatusOfView DEF OpsTypes
<1>5. seen' \in [Browsers -> View]
  BY <1>2, <1>4 DEF OpsTypes
<1>6. Agree'
  BY <1>3, <1>4 DEF OpsTypes, Agree, Node!Known, Node!Statuses
<1> QED
  BY <1>3, <1>5, <1>6

\* ... a further output, the buffer giving up its oldest ...
LEMMA EmitOutputAgrees ==
  ASSUME OpsTypes, Agree, Node!Known, NEW n \in Nat, Node!EmitOutput(n), UNCHANGED subscribers
  PROVE  /\ op' \in Operation /\ op'.status = op.status /\ op'.result = op.result
         /\ seen' \in [Browsers -> View] /\ Agree'
<1> DEFINE longer == Append(op.buffer, n)
<1>1. op' = [op EXCEPT !.buffer = Node!Trim(longer)]
  BY DEF Node!EmitOutput
<1>2. seen' = [b \in Browsers |-> IF b \in subscribers
                                  THEN [seen[b] EXCEPT !.outputs = Append(seen[b].outputs, n)]
                                  ELSE seen[b]]
  BY DEF Node!EmitOutput, Node!Tell
<1>3. /\ op.buffer \in Seq(Nat) /\ longer \in Seq(Nat) /\ longer # <<>> /\ Tail(longer) \in Seq(Nat)
  BY DEF OpsTypes, Operation
<1> HIDE DEF longer
<1>4. Node!Trim(longer) \in {longer, Tail(longer)}
  BY DEF Node!Trim
<1>5. /\ op' \in Operation /\ op'.status = op.status /\ op'.result = op.result
      /\ op'.buffer \in {longer, Tail(longer)}
  BY <1>1, <1>3, <1>4 DEF OpsTypes, Operation
<1>6. ASSUME NEW b \in subscribers
      PROVE  /\ seen'[b] \in View /\ seen'[b].status = op.status /\ seen'[b].result = op.result
             /\ EndsWith(seen'[b].outputs, op'.buffer)
  <2>1. /\ b \in Browsers /\ seen[b] \in View /\ seen[b].outputs \in Seq(Nat)
        /\ seen[b].status = op.status /\ seen[b].result = op.result
        /\ EndsWith(seen[b].outputs, op.buffer)
    BY DEF OpsTypes, Agree, View
  <2>2. seen'[b] = [seen[b] EXCEPT !.outputs = Append(seen[b].outputs, n)]
    BY <1>2, <2>1
  <2>3. Append(seen[b].outputs, n) \in Seq(Nat)
    BY <2>1
  <2>4. /\ seen'[b] \in View /\ seen'[b].status = op.status /\ seen'[b].result = op.result
        /\ seen'[b].outputs = Append(seen[b].outputs, n)
    BY <2>1, <2>2, <2>3 DEF View
  <2>5. EndsWith(Append(seen[b].outputs, n), longer)
    BY <1>3, <2>1, EndsWithAppend DEF longer
  <2>6. EndsWith(Append(seen[b].outputs, n), Tail(longer))
    BY <1>3, <2>3, <2>5, EndsWithTail
  <2> QED
    BY <1>5, <2>4, <2>5, <2>6
<1>7. \A b \in Browsers : b \notin subscribers => seen'[b] = seen[b]
  BY <1>2
<1>8. seen' \in [Browsers -> View]
  BY <1>2, <1>6, <1>7 DEF OpsTypes
<1>9. Agree'
  BY <1>5, <1>6, <1>7 DEF OpsTypes, Agree, Node!Known
<1> QED
  BY <1>5, <1>8, <1>9

\* ... or the result.
LEMMA CompleteAgrees ==
  ASSUME OpsTypes, Agree, Node!Known, NEW result \in Results, Node!Complete(result),
         UNCHANGED subscribers
  PROVE  /\ op' \in Operation /\ Node!Ended(op)'
         /\ seen' \in [Browsers -> View] /\ Agree'
<1> DEFINE told == IF result = "ok" THEN "completed" ELSE "failed"
<1> told \in Node!Statuses /\ told \in {"completed", "failed"}
  BY DEF Node!Statuses
<1>1. op' = [op EXCEPT !.status = told, !.result = result]
  BY DEF Node!Complete
<1>2. seen' = [b \in Browsers |-> IF b \in subscribers
                                  THEN [seen[b] EXCEPT !.status = told, !.result = result]
                                  ELSE seen[b]]
  BY DEF Node!Complete, Node!Tell
<1> HIDE DEF told
<1>3. /\ op' \in Operation /\ op'.status = told /\ op'.result = result /\ op'.buffer = op.buffer
  BY <1>1 DEF OpsTypes, Operation
<1>4. ASSUME NEW b \in subscribers
      PROVE  /\ seen'[b] \in View /\ seen'[b].status = told /\ seen'[b].result = result
             /\ seen'[b].outputs = seen[b].outputs
  BY <1>2 DEF OpsTypes, View
<1>5. \A b \in Browsers : b \notin subscribers => seen'[b] = seen[b]
  BY <1>2
<1>6. seen' \in [Browsers -> View]
  BY <1>2, <1>4, <1>5 DEF OpsTypes
<1>7. Agree'
  BY <1>3, <1>4, <1>5 DEF OpsTypes, Agree, Node!Known, Node!Statuses
<1> QED
  BY <1>3, <1>6, <1>7 DEF Node!Ended

LEMMA CancelStays ==
  ASSUME OpsInv, Node!Cancel
  PROVE  OpsInv'
<1>1. /\ Node!Known /\ op.status \notin {"completed", "failed", "cancelled"} /\ Node!EmitStatus("cancelled")
      /\ UNCHANGED <<subscribers, toAgent, fromAgent, runner, emitted, link>>
  BY DEF Node!Cancel
<1>2. /\ op' \in Operation /\ op'.status = "cancelled" /\ op'.result = op.result
      /\ op'.remote = op.remote
      /\ seen' \in [Browsers -> View] /\ Agree'
  BY <1>1, EmitStatusAgrees DEF OpsInv, Node!Statuses
<1>3. op.result = "none"
  BY <1>1 DEF OpsInv, ResultLast, Node!Ended
<1>4. OpsTypes'
  BY <1>1, <1>2 DEF OpsInv, OpsTypes
<1>5. ResultLast'
  BY <1>1, <1>2, <1>3 DEF OpsInv, ResultLast
<1> QED
  BY <1>2, <1>4, <1>5 DEF OpsInv

LEMMA ForwardInputStays ==
  ASSUME OpsInv, Node!ForwardInput
  PROVE  OpsInv'
<1>1. /\ Node!Known /\ op.remote /\ link = "first" /\ toAgent' = Append(toAgent, "input")
      /\ UNCHANGED <<op, subscribers, seen, fromAgent, runner, emitted, link>>
  BY DEF Node!ForwardInput
<1>2. toAgent' \in Seq({"start", "input"}) /\ toAgent' # <<>>
      /\ \A i \in DOMAIN toAgent' : toAgent'[i] = "start" => i \in DOMAIN toAgent /\ toAgent[i] = "start"
  BY <1>1 DEF OpsInv, OpsTypes
<1>3. OpsTypes'
  BY <1>1, <1>2 DEF OpsInv, OpsTypes
<1>4. Agree'
  BY <1>1 DEF OpsInv, Agree, Node!Known
<1>5. runner = "idle" => toAgent'[1] = "start"
  BY <1>1, <1>2 DEF OpsInv, OpsTypes, ResultLast
<1>6. ResultLast'
  BY <1>1, <1>2, <1>5 DEF OpsInv, ResultLast, Node!Ended
<1> QED
  BY <1>3, <1>4, <1>6 DEF OpsInv

\* What a handler sends comes after what was sent before.
LEMMA SendsAfter ==
  ASSUME OpsTypes, NEW msgs \in Seq(AgentMessage), Node!Sends(msgs)
  PROVE  /\ fromAgent' \in Seq(AgentMessage) /\ emitted' \in Nat
         /\ \A i \in DOMAIN fromAgent' :
              \/ i \in DOMAIN fromAgent /\ fromAgent'[i] = fromAgent[i]
              \/ /\ i > Len(fromAgent) /\ i - Len(fromAgent) \in DOMAIN msgs
                 /\ fromAgent'[i] = msgs[i - Len(fromAgent)]
<1>1. fromAgent' \in {fromAgent, fromAgent \o msgs}
  BY DEF Node!Sends
<1>2. emitted' \in Nat
  BY DEF Node!Sends, OpsTypes
<1>3. CASE fromAgent' = fromAgent
  BY <1>2, <1>3 DEF OpsTypes
<1>4. CASE fromAgent' = fromAgent \o msgs
  BY <1>2, <1>4 DEF OpsTypes
<1> QED
  BY <1>1, <1>3, <1>4

LEMMA MessageTypes ==
  /\ \A told \in Node!Statuses : Node!Status(told) \in AgentMessage /\ Node!Status(told).type = "status"
  /\ \A n \in Nat : Node!Output(n) \in AgentMessage /\ Node!Output(n).type = "output"
  /\ \A result \in Results : Node!Result(result) \in AgentMessage /\ Node!Result(result).type = "result"
BY DEF AgentMessage, Node!Status, Node!Output, Node!Result, Results, Node!Statuses

\* An answer ends with its result, if it has one.
LEMMA AnswersShape ==
  ASSUME OpsTypes
  PROVE  /\ Node!Answers \in Seq(AgentMessage)
         /\ \A i, j \in DOMAIN Node!Answers :
              Node!Answers[i].type = "result" /\ Node!Answers[j].type = "status" => j < i
         /\ op.kind = "echo" => \A i \in DOMAIN Node!Answers : Node!Answers[i].type # "result"
<1> DEFINE isRunning == Node!Status("running")  hasFailed == Node!Status("failed")
           output == Node!Output(emitted + 1) error == Node!Result("error") ok == Node!Result("ok")
<1>1. /\ isRunning \in AgentMessage /\ isRunning.type = "status"
      /\ hasFailed \in AgentMessage /\ hasFailed.type = "status"
      /\ output \in AgentMessage /\ output.type = "output"
      /\ error \in AgentMessage /\ error.type = "result"
      /\ ok \in AgentMessage /\ ok.type = "result"
  BY MessageTypes DEF OpsTypes, Node!Statuses, Results
<1>2. op.kind \in {"echo", "info", "unknown", "adapter", "none"}
  BY DEF OpsTypes, Operation, Node!Kinds
<1>3. /\ op.kind = "none" => Node!Answers = <<hasFailed, error>>
      /\ op.kind = "unknown" => Node!Answers = <<isRunning, hasFailed, error>>
      /\ op.kind = "info" => Node!Answers = <<isRunning, output, ok>>
      /\ op.kind = "adapter" => Node!Answers = <<isRunning, isRunning, output, ok>>
      /\ op.kind = "echo" => Node!Answers = <<isRunning>>
  BY DEF Node!Answers
<1> HIDE DEF isRunning, hasFailed, output, error, ok
<1>4. CASE op.kind = "none"
  <2>1. Node!Answers = <<hasFailed, error>>
    BY <1>3, <1>4
  <2>2. /\ Node!Answers \in Seq(AgentMessage) /\ DOMAIN Node!Answers = 1..2
        /\ Node!Answers[1] = hasFailed /\ Node!Answers[2] = error
    BY <1>1, <2>1
  <2>3. \A i \in 1..2 : i = 1 \/ i = 2
    OBVIOUS
  <2> QED
    BY <1>1, <1>4, <2>2, <2>3
<1>5. CASE op.kind = "unknown"
  <2>1. Node!Answers = <<isRunning, hasFailed, error>>
    BY <1>3, <1>5
  <2>2. /\ Node!Answers \in Seq(AgentMessage) /\ DOMAIN Node!Answers = 1..3
        /\ Node!Answers[1] = isRunning /\ Node!Answers[2] = hasFailed /\ Node!Answers[3] = error
    BY <1>1, <2>1
  <2>3. \A i \in 1..3 : i = 1 \/ i = 2 \/ i = 3
    OBVIOUS
  <2> QED
    BY <1>1, <1>5, <2>2, <2>3
<1>6. CASE op.kind = "info"
  <2>1. Node!Answers = <<isRunning, output, ok>>
    BY <1>3, <1>6
  <2>2. /\ Node!Answers \in Seq(AgentMessage) /\ DOMAIN Node!Answers = 1..3
        /\ Node!Answers[1] = isRunning /\ Node!Answers[2] = output /\ Node!Answers[3] = ok
    BY <1>1, <2>1
  <2>3. \A i \in 1..3 : i = 1 \/ i = 2 \/ i = 3
    OBVIOUS
  <2> QED
    BY <1>1, <1>6, <2>2, <2>3
<1>7. CASE op.kind = "adapter"
  <2>1. Node!Answers = <<isRunning, isRunning, output, ok>>
    BY <1>3, <1>7
  <2>2. /\ Node!Answers \in Seq(AgentMessage) /\ DOMAIN Node!Answers = 1..4
        /\ Node!Answers[1] = isRunning /\ Node!Answers[2] = isRunning /\ Node!Answers[3] = output /\ Node!Answers[4] = ok
    BY <1>1, <2>1
  <2>3. \A i \in 1..4 : i = 1 \/ i = 2 \/ i = 3 \/ i = 4
    OBVIOUS
  <2> QED
    BY <1>1, <1>7, <2>2, <2>3
<1>8. CASE op.kind = "echo"
  <2>1. Node!Answers = <<isRunning>>
    BY <1>3, <1>8
  <2>2. Node!Answers \in Seq(AgentMessage) /\ DOMAIN Node!Answers = 1..1 /\ Node!Answers[1] = isRunning
    BY <1>1, <2>1
  <2> QED
    BY <1>1, <2>2
<1> QED
  BY <1>2, <1>4, <1>5, <1>6, <1>7, <1>8

LEMMA RunnerStartStays ==
  ASSUME OpsInv, Node!RunnerStart
  PROVE  OpsInv'
<1>1. /\ toAgent # <<>> /\ Head(toAgent) = "start" /\ toAgent' = Tail(toAgent)
      /\ runner' = (IF op.kind = "echo" THEN "waiting" ELSE "done") /\ Node!Sends(Node!Answers)
      /\ UNCHANGED <<op, subscribers, seen, link>>
  BY DEF Node!RunnerStart
<1>2. toAgent[1] = "start" /\ 1 \in DOMAIN toAgent /\ toAgent \in Seq({"start", "input"})
  BY <1>1 DEF OpsInv, OpsTypes
<1>3. fromAgent = <<>> /\ op.result = "none"
  BY <1>2 DEF OpsInv, ResultLast
<1>4. /\ fromAgent' \in Seq(AgentMessage) /\ emitted' \in Nat
      /\ \A i \in DOMAIN fromAgent' : i \in DOMAIN Node!Answers /\ fromAgent'[i] = Node!Answers[i]
  BY <1>1, <1>3, SendsAfter, AnswersShape DEF OpsInv
<1>5. /\ toAgent' \in Seq({"start", "input"})
      /\ \A i \in DOMAIN toAgent' : toAgent'[i] # "start"
  BY <1>1, <1>2 DEF OpsInv, ResultLast
<1>6. OpsTypes'
  BY <1>1, <1>4, <1>5 DEF OpsInv, OpsTypes
<1>7. Agree'
  BY <1>1 DEF OpsInv, Agree, Node!Known
<1>8. ResultLast'
  BY <1>1, <1>3, <1>4, <1>5, AnswersShape DEF OpsInv, ResultLast
<1> QED
  BY <1>6, <1>7, <1>8 DEF OpsInv

LEMMA RunnerInputStays ==
  ASSUME OpsInv, Node!RunnerInput
  PROVE  OpsInv'
<1> DEFINE msgs == <<Node!Output(emitted + 1)>>
<1>1. /\ toAgent # <<>> /\ Head(toAgent) = "input" /\ toAgent' = Tail(toAgent)
      /\ Node!Sends(msgs)
      /\ UNCHANGED <<op, subscribers, seen, link, runner>>
  BY DEF Node!RunnerInput
<1>2. msgs \in Seq(AgentMessage) /\ \A i \in DOMAIN msgs : msgs[i].type = "output"
  BY MessageTypes DEF OpsInv, OpsTypes
<1> HIDE DEF msgs
<1>3. toAgent[1] # "start" /\ toAgent \in Seq({"start", "input"})
  BY <1>1 DEF OpsInv, OpsTypes
<1>4. runner # "idle"
  BY <1>1, <1>3 DEF OpsInv, ResultLast
<1>5. /\ fromAgent' \in Seq(AgentMessage) /\ emitted' \in Nat
      /\ \A i \in DOMAIN fromAgent' :
           (i \in DOMAIN fromAgent /\ fromAgent'[i] = fromAgent[i]) \/ fromAgent'[i].type = "output"
  BY <1>1, <1>2, SendsAfter DEF OpsInv
<1>6. /\ toAgent' \in Seq({"start", "input"})
      /\ \A i \in DOMAIN toAgent' : toAgent'[i] # "start"
  BY <1>1, <1>3 DEF OpsInv, ResultLast
<1>7. OpsTypes'
  BY <1>1, <1>5, <1>6 DEF OpsInv, OpsTypes
<1>8. Agree'
  BY <1>1, <1>4 DEF OpsInv, Agree, Node!Known
<1>9. ResultLast'
  BY <1>1, <1>4, <1>5, <1>6 DEF OpsInv, ResultLast, Node!Ended
<1> QED
  BY <1>7, <1>8, <1>9 DEF OpsInv

LEMMA EchoTimerStays ==
  ASSUME OpsInv, Node!EchoTimer
  PROVE  OpsInv'
<1> DEFINE msgs == <<Node!Output(emitted + 1), Node!Result("ok")>>
<1>1. /\ runner = "waiting" /\ runner' = "done" /\ Node!Sends(msgs)
      /\ UNCHANGED <<op, subscribers, seen, toAgent, link>>
  BY DEF Node!EchoTimer
<1>2. msgs \in Seq(AgentMessage) /\ \A i \in DOMAIN msgs : msgs[i].type # "status"
  BY MessageTypes DEF OpsInv, OpsTypes, Results
<1> HIDE DEF msgs
<1>3. /\ op.result = "none" /\ \A i \in DOMAIN fromAgent : fromAgent[i].type # "result"
      /\ \A i \in DOMAIN toAgent : toAgent[i] # "start"
  BY <1>1 DEF OpsInv, ResultLast
<1>4. /\ fromAgent' \in Seq(AgentMessage) /\ emitted' \in Nat
      /\ \A i \in DOMAIN fromAgent' :
           \/ i \in DOMAIN fromAgent /\ fromAgent'[i] = fromAgent[i]
           \/ i > Len(fromAgent) /\ fromAgent'[i].type # "status"
  BY <1>1, <1>2, SendsAfter DEF OpsInv
<1>5. \A j \in DOMAIN fromAgent : j <= Len(fromAgent)
  BY DEF OpsInv, OpsTypes
<1>6. OpsTypes'
  BY <1>1, <1>4 DEF OpsInv, OpsTypes
<1>7. Agree'
  BY <1>1 DEF OpsInv, Agree, Node!Known
<1>8. \A i, j \in DOMAIN fromAgent' :
        fromAgent'[i].type = "result" /\ fromAgent'[j].type = "status" => j < i
  <2> SUFFICES ASSUME NEW i \in DOMAIN fromAgent', NEW j \in DOMAIN fromAgent',
                      fromAgent'[i].type = "result", fromAgent'[j].type = "status"
               PROVE  j < i
    OBVIOUS
  <2>1. i \in Nat /\ j \in Nat /\ Len(fromAgent) \in Nat
    BY <1>4 DEF OpsInv, OpsTypes
  <2>2. j \in DOMAIN fromAgent /\ i > Len(fromAgent)
    BY <1>3, <1>4
  <2> QED
    BY <1>5, <2>1, <2>2
<1>9. ResultLast'
  BY <1>1, <1>3, <1>8 DEF ResultLast
<1> QED
  BY <1>6, <1>7, <1>9 DEF OpsInv

LEMMA RelayReceivesStays ==
  ASSUME OpsInv, Node!RelayReceives
  PROVE  OpsInv'
<1> DEFINE m == Head(fromAgent)
<1>1. /\ fromAgent # <<>> /\ fromAgent' = Tail(fromAgent)
      /\ \/ m.type = "status" /\ Node!EmitStatus(m.status)
         \/ m.type = "output" /\ Node!EmitOutput(m.output)
         \/ m.type = "result" /\ Node!Complete(m.result)
      /\ UNCHANGED <<subscribers, toAgent, link, runner, emitted>>
  BY DEF Node!RelayReceives
<1>2. runner # "idle" /\ Node!Known
  BY <1>1 DEF OpsInv, ResultLast, Agree
<1>3. /\ m \in AgentMessage /\ m = fromAgent[1] /\ 1 \in DOMAIN fromAgent
      /\ fromAgent' \in Seq(AgentMessage)
      /\ \A i \in DOMAIN fromAgent' : /\ i + 1 \in DOMAIN fromAgent /\ i \in Nat /\ i >= 1
                                      /\ fromAgent'[i] = fromAgent[i + 1]
  BY <1>1 DEF OpsInv, OpsTypes
<1> HIDE DEF m
<1>4. \A i, j \in DOMAIN fromAgent' :
        fromAgent'[i].type = "result" /\ fromAgent'[j].type = "status" => j < i
  <2> SUFFICES ASSUME NEW i \in DOMAIN fromAgent', NEW j \in DOMAIN fromAgent',
                      fromAgent'[i].type = "result", fromAgent'[j].type = "status"
               PROVE  j < i
    OBVIOUS
  <2>1. j + 1 < i + 1
    BY <1>3 DEF OpsInv, ResultLast
  <2> QED
    BY <1>3, <2>1
<1>5. \A i \in DOMAIN fromAgent' : fromAgent'[i].type = "result" => runner = "done"
  BY <1>3 DEF OpsInv, ResultLast
<1>6. CASE m.type = "status" /\ Node!EmitStatus(m.status)
  <2>1. op.result = "none"
    BY <1>3, <1>6 DEF OpsInv, ResultLast
  <2>2. /\ op' \in Operation /\ op'.result = "none" /\ op'.remote = op.remote
        /\ seen' \in [Browsers -> View] /\ Agree'
    BY <1>1, <1>2, <1>3, <1>6, <2>1, EmitStatusAgrees DEF OpsInv, AgentMessage
  <2>3. OpsTypes'
    BY <1>1, <1>3, <2>2 DEF OpsInv, OpsTypes
  <2>4. ResultLast'
    BY <1>1, <1>2, <1>4, <1>5, <2>2 DEF OpsInv, ResultLast
  <2> QED
    BY <2>2, <2>3, <2>4 DEF OpsInv
<1>7. CASE m.type = "output" /\ Node!EmitOutput(m.output)
  <2>1. /\ op' \in Operation /\ op'.status = op.status /\ op'.result = op.result
        /\ seen' \in [Browsers -> View] /\ Agree'
    BY <1>1, <1>2, <1>3, <1>7, EmitOutputAgrees DEF OpsInv, AgentMessage
  <2>2. OpsTypes'
    BY <1>1, <1>3, <2>1 DEF OpsInv, OpsTypes
  <2>3. op.result # "none" => \A j \in DOMAIN fromAgent' : fromAgent'[j].type # "status"
    BY <1>3 DEF OpsInv, ResultLast
  <2>4. ResultLast'
    BY <1>1, <1>2, <1>4, <1>5, <2>1, <2>3 DEF OpsInv, ResultLast, Node!Ended
  <2> QED
    BY <2>1, <2>2, <2>4 DEF OpsInv
<1>8. CASE m.type = "result" /\ Node!Complete(m.result)
  <2>1. /\ op' \in Operation /\ Node!Ended(op)'
        /\ seen' \in [Browsers -> View] /\ Agree'
    BY <1>1, <1>2, <1>3, <1>8, CompleteAgrees DEF OpsInv, AgentMessage
  <2>2. OpsTypes'
    BY <1>1, <1>3, <2>1 DEF OpsInv, OpsTypes
  <2>3. \A j \in DOMAIN fromAgent' : fromAgent'[j].type # "status"
    <3> SUFFICES ASSUME NEW j \in DOMAIN fromAgent', fromAgent'[j].type = "status"
                 PROVE  FALSE
      OBVIOUS
    <3>1. j + 1 < 1
      BY <1>3, <1>8 DEF OpsInv, ResultLast
    <3> QED
      BY <1>3, <3>1
  <2>4. runner = "done"
    BY <1>3, <1>8 DEF OpsInv, ResultLast
  <2>5. ResultLast'
    BY <1>1, <1>4, <1>5, <2>1, <2>3, <2>4 DEF OpsInv, ResultLast
  <2> QED
    BY <2>1, <2>2, <2>5 DEF OpsInv
<1> QED
  BY <1>1, <1>6, <1>7, <1>8

LEMMA AgentLinkStays ==
  ASSUME OpsInv, Node!AgentLost \/ Node!AgentReturns
  PROVE  OpsInv'
<1>1. CASE Node!AgentLost
  <2>1. /\ link' = "lost" /\ toAgent' = <<>> /\ fromAgent' = <<>>
        /\ UNCHANGED <<op, subscribers, seen, runner, emitted>>
    BY <1>1 DEF Node!AgentLost
  <2> QED
    BY <2>1 DEF OpsInv, OpsTypes, Agree, ResultLast, Node!Known, Node!Ended
<1>2. CASE Node!AgentReturns
  <2>1. link' = "again" /\ UNCHANGED <<op, subscribers, seen, toAgent, fromAgent, runner, emitted>>
    BY <1>2 DEF Node!AgentReturns
  <2> QED
    BY <2>1 DEF OpsInv, OpsTypes, Agree, ResultLast, Node!Known, Node!Ended
<1> QED
  BY <1>1, <1>2

LEMMA OpsStays ==
  ASSUME OpsInv, Node!OpsNext
  PROVE  OpsInv'
BY StartStays, SubscribeStays, SocketClosesStays, CancelStays, ForwardInputStays, RunnerStartStays,
   RunnerInputStays, EchoTimerStays, RelayReceivesStays, AgentLinkStays DEF Node!OpsNext

\* Whenever it joined, a subscriber of an operation knows the status, the
\* result and the buffered output that the others know
\* (remote-operation-manager.ts:11).
THEOREM SubscribersAgreeCorrect == AgentsSpec => []SubscribersAgree
<1>1. AgentsInit => OpsInv
  BY OpsInitial DEF AgentsInit
<1>2. OpsInv /\ [AgentsNext]_agentsVars => OpsInv'
  <2> SUFFICES ASSUME OpsInv, [AgentsNext]_agentsVars
               PROVE  OpsInv'
    OBVIOUS
  <2>1. CASE OpStep
    BY <2>1, OpsStays DEF OpStep
  <2>2. CASE ChatStep \/ NodeStep \/ HostStep \/ ProviderStep
    BY <2>2, OpsUnchanged DEF ChatStep, NodeStep, HostStep, ProviderStep
  <2>3. CASE UNCHANGED agentsVars
    BY <2>3, OpsUnchanged DEF agentsVars
  <2> QED
    BY <2>1, <2>2, <2>3 DEF AgentsNext
<1>3. OpsInv => SubscribersAgree
  <2> SUFFICES ASSUME OpsInv, NEW b \in subscribers
               PROVE  /\ seen[b].status = op.status /\ seen[b].result = op.result
                      /\ Node!IsSuffix(op.buffer, seen[b].outputs)
    BY DEF SubscribersAgree, Node!SubscribersAgree
  <2>1. op.buffer \in Seq(Nat) /\ seen[b].outputs \in Seq(Nat)
    BY DEF OpsInv, OpsTypes, Operation, View
  <2> QED
    BY <2>1, EndsWithIsSuffix DEF OpsInv, Agree
<1> QED
  BY <1>1, <1>2, <1>3, PTL DEF AgentsSpec

-----------------------------------------------------------------------------
(* The extension host *)

HostMessage == [type : {"ready", "answer"}, tag : Nat, of : Nat]

HostTypes ==
  /\ child \in Nat /\ current \in Nat /\ files \in Nat /\ active \in Nat
  /\ host \in [Host!Hosts -> {"unused", "booting", "up", "dead", "gone"}]
  /\ toHost \in Seq(Nat) /\ fromHost \in Seq(HostMessage)
  /\ handling \subseteq Nat \X Nat

\* A process is forked only after the one before it is gone: a respawn timer
\* runs only while there is none.
OneProcess ==
  /\ \A h \in Host!Hosts : host[h] \in {"booting", "up"} => h = child
  /\ mgr = "crashed" => child = 0
  /\ fromHost # <<>> => child # 0
  /\ respawns \in {0, 1}
  /\ respawns # 0 => child = 0 /\ mgr \in {"crashed", "stopped"}
  /\ down = "stopped" /\ ~late => ~Host!Alive(child) /\ mgr \in {"stopped", "crashed"}
  /\ down = "stopped" /\ ~late /\ mgr = "crashed" => respawns = 0
  /\ start = "no" => /\ child = 0 /\ fromHost = <<>> /\ respawns = 0
                     /\ \A h \in Host!Hosts : host[h] = "unused"
  /\ start # "no" => 1 \in Host!Hosts /\ host[1] # "unused"

\* The first process, from its start to its activation, and through the reloads:
\* whenever it is behind the files, something is under way that catches up, or
\* the change that it is behind is one that the watcher was not there to see.
NoAnswer == \A i \in DOMAIN fromHost : fromHost[i].type # "answer"
First == down = "no" /\ child = 1 /\ host[1] \in {"booting", "up"}
UpToDate(version) == version = files <=> ~missed
Alone == toHost = <<>> /\ \E r, v \in Nat : handling = {<<r, v>>} /\ UpToDate(v)

Activated ==
  /\ start # "done" => ~reloadTimer
  /\ missed => start \notin {"no", "waiting"} /\ ~reloadTimer
  /\ First /\ toHost # <<>> => ~missed
  /\ First => active <= files /\ \A h \in handling : h[2] <= files
  /\ First /\ start = "waiting" => toHost = <<>> /\ handling = {} /\ NoAnswer
  /\ First /\ start = "activating" =>
       \/ toHost = <<>> /\ handling = {} /\ UpToDate(active)
       \/ NoAnswer /\ Len(toHost) = 1 /\ handling = {}
       \/ NoAnswer /\ Alone
  /\ First /\ start = "done" /\ ~overlapped /\ ~failed =>
       \/ reloadTimer
       \/ toHost # <<>>
       \/ handling = {} /\ UpToDate(active)
       \/ Alone

HostInv == HostTypes /\ OneProcess /\ Activated

-----------------------------------------------------------------------------
(* Each step keeps the invariant. *)

LEMMA HostInitial == Host!HostInit => HostInv
<1> SUFFICES ASSUME Host!HostInit
             PROVE  HostInv
  OBVIOUS
<1>1. /\ mgr = "stopped" /\ child = 0 /\ host = [h \in Host!Hosts |-> "unused"]
      /\ current = 0 /\ handling = {} /\ toHost = <<>> /\ fromHost = <<>>
      /\ respawns = 0 /\ start = "no" /\ down = "no" /\ files = 1 /\ active = 0 /\ reloadTimer = FALSE
      /\ missed = FALSE
  BY DEF Host!HostInit
<1>2. HostTypes
  BY <1>1 DEF HostTypes
<1>3. OneProcess
  BY <1>1 DEF OneProcess
<1>4. Activated
  BY <1>1 DEF Activated
<1> QED
  BY <1>2, <1>3, <1>4 DEF HostInv

LEMMA HostUnchanged == HostInv /\ UNCHANGED hostVars => HostInv'
BY DEF hostVars, HostInv, HostTypes, OneProcess, Activated, NoAnswer, First, Alone, UpToDate, Host!Alive

LEMMA HostsAreNumbers == \A h \in Host!Hosts : h \in Nat /\ h # 0
BY AgentsBounds DEF Host!Hosts

\* The next process has a number of its own.
LEMMA ForkedIsNew ==
  ASSUME HostTypes
  PROVE  /\ Host!Forked \in Nat
         /\ (\A h \in Host!Hosts : host[h] = "unused") => Host!Forked = 0
         /\ 1 \in Host!Hosts /\ host[1] # "unused" => Host!Forked # 0
<1> DEFINE forked == {h \in Host!Hosts : host[h] # "unused"}
<1>1. IsFiniteSet(Host!Hosts)
  BY AgentsBounds, FS_Interval DEF Host!Hosts
<1>2. IsFiniteSet(forked)
  BY <1>1, FS_Subset
<1>3. Cardinality(forked) \in Nat /\ (Cardinality(forked) = 0 <=> forked = {})
  BY <1>2, FS_CardinalityType, FS_EmptySet
<1> QED
  <2>1. Host!Forked = Cardinality(forked)
    BY DEF Host!Forked, Host!Cardinality, Cardinality
  <2>2. (\A h \in Host!Hosts : host[h] = "unused") => forked = {}
    OBVIOUS
  <2>3. 1 \in Host!Hosts /\ host[1] # "unused" => forked # {}
    OBVIOUS
  <2> HIDE DEF forked
  <2> QED
    BY <1>3, <2>1, <2>2, <2>3

LEMMA SpawnForks ==
  ASSUME HostTypes, Host!Spawn
  PROVE  /\ child' \in Host!Hosts /\ child' = Host!Forked + 1 /\ mgr' = "starting"
         /\ host' \in [Host!Hosts -> {"unused", "booting", "up", "dead", "gone"}]
         /\ host'[child'] = "booting"
         /\ \A h \in Host!Hosts : h # child' => host'[h] = host[h]
         /\ current' = 0 /\ handling' = {} /\ toHost' = <<>> /\ active' = 0
<1>1. Host!Forked + 1 \in Host!Hosts
  BY ForkedIsNew, AgentsBounds DEF Host!Spawn, Host!Hosts
<1>2. /\ child' = Host!Forked + 1 /\ host' = [host EXCEPT ![Host!Forked + 1] = "booting"]
      /\ mgr' = "starting" /\ current' = 0 /\ handling' = {} /\ toHost' = <<>> /\ active' = 0
  BY DEF Host!Spawn
<1> QED
  BY <1>1, <1>2 DEF HostTypes

LEMMA StartHostStays ==
  ASSUME HostInv, Host!StartHost
  PROVE  HostInv'
<1>1. /\ start = "no" /\ down = "no" /\ start' = "waiting" /\ Host!Spawn
      /\ UNCHANGED <<fromHost, respawns, down, files, reloadTimer, late, missed>>
  BY DEF Host!StartHost
<1>2. /\ child = 0 /\ fromHost = <<>> /\ respawns = 0 /\ \A h \in Host!Hosts : host[h] = "unused"
  BY <1>1 DEF HostInv, OneProcess
<1>3. /\ child' = 1 /\ 1 \in Host!Hosts /\ mgr' = "starting" /\ host'[1] = "booting"
      /\ \A h \in Host!Hosts : h # 1 => host'[h] = "unused"
      /\ host' \in [Host!Hosts -> {"unused", "booting", "up", "dead", "gone"}]
      /\ current' = 0 /\ handling' = {} /\ toHost' = <<>> /\ active' = 0
  BY <1>1, <1>2, SpawnForks, ForkedIsNew DEF HostInv
<1>4. HostTypes'
  BY <1>1, <1>3 DEF HostInv, HostTypes
<1>5. OneProcess'
  BY <1>1, <1>2, <1>3 DEF OneProcess
<1>6. Activated'
  BY <1>1, <1>2, <1>3 DEF HostInv, HostTypes, Activated, NoAnswer
<1> QED
  BY <1>4, <1>5, <1>6 DEF HostInv

LEMMA RespawnTimerStays ==
  ASSUME HostInv, Host!RespawnTimer
  PROVE  HostInv'
<1>1. /\ respawns > 0 /\ respawns' = respawns - 1
      /\ UNCHANGED <<fromHost, start, down, files, reloadTimer, overlapped, late, failed, missed>>
  BY DEF Host!RespawnTimer
<1>2. respawns' = 0 /\ child = 0 /\ fromHost = <<>> /\ start # "no"
  BY <1>1 DEF HostInv, OneProcess
<1>3. CASE mgr = "crashed"
  <2>1. Host!Spawn
    BY <1>3 DEF Host!RespawnTimer, Host!MaySpawn
  <2>2. 1 \in Host!Hosts /\ host[1] # "unused" /\ ~(down = "stopped" /\ ~late)
    BY <1>1, <1>2, <1>3 DEF HostInv, OneProcess
  <2>3. /\ child' \in Host!Hosts /\ child' # 1 /\ child' \in Nat /\ child' # 0 /\ mgr' = "starting"
        /\ host' \in [Host!Hosts -> {"unused", "booting", "up", "dead", "gone"}]
        /\ host'[child'] = "booting"
        /\ \A h \in Host!Hosts : h # child' => host'[h] = host[h]
        /\ current' = 0 /\ handling' = {} /\ toHost' = <<>> /\ active' = 0
    BY <2>1, <2>2, SpawnForks, ForkedIsNew, HostsAreNumbers DEF HostInv
  <2>4. HostTypes'
    BY <1>1, <2>3 DEF HostInv, HostTypes
  <2>5. OneProcess'
    BY <1>1, <1>2, <2>2, <2>3, HostsAreNumbers DEF HostInv, OneProcess
  <2>6. Activated'
    BY <1>1, <2>3 DEF HostInv, Activated, First
  <2> QED
    BY <2>4, <2>5, <2>6 DEF HostInv
<1>4. CASE mgr # "crashed"
  <2>1. UNCHANGED <<mgr, child, host, current, handling, toHost, active>>
    BY <1>4 DEF Host!RespawnTimer, Host!MaySpawn
  <2>2. HostTypes'
    BY <1>1, <2>1 DEF HostInv, HostTypes
  <2>3. OneProcess'
    BY <1>1, <1>2, <2>1 DEF HostInv, OneProcess, Host!Alive
  <2>4. Activated'
    BY <1>1, <2>1 DEF HostInv, Activated, First, NoAnswer, Alone, UpToDate
  <2> QED
    BY <2>2, <2>3, <2>4 DEF HostInv
<1> QED
  BY <1>3, <1>4

\* The process and the queues stay as they are, or the queue to it grows, which
\* a manager that is not shut down does for a reload.
LEMMA StartTimeoutStays ==
  ASSUME HostInv, Host!StartTimeout \/ \E r \in Host!Requests : Host!RequestTimeout(r)
  PROVE  HostInv'
<1>1. /\ start' # "done" => start' = start \/ start' = "failed"
      /\ start' = start \/ start' = "failed"
      /\ start = "no" => start' = "no"
      /\ start = "done" => start' = "done"
      /\ UNCHANGED <<mgr, child, host, current, handling, toHost, fromHost, respawns, down, files,
                     active, reloadTimer, overlapped, late, failed, missed>>
  BY DEF Host!StartTimeout, Host!RequestTimeout, Host!StartAfter
<1>2. HostTypes'
  BY <1>1 DEF HostInv, HostTypes
<1>3. OneProcess'
  BY <1>1 DEF HostInv, OneProcess, Host!Alive
<1>4. Activated'
  BY <1>1 DEF HostInv, Activated, First, NoAnswer, Alone, UpToDate
<1> QED
  BY <1>2, <1>3, <1>4 DEF HostInv

LEMMA BootsStays ==
  ASSUME HostInv, Host!Boots
  PROVE  HostInv'
<1> DEFINE m == [type |-> "ready", tag |-> 0, of |-> 0]
<1>1. /\ child # 0 /\ host[child] = "booting" /\ host' = [host EXCEPT ![child] = "up"]
      /\ fromHost' = Append(fromHost, m)
      /\ UNCHANGED <<mgr, child, current, handling, toHost, respawns, start, down, files, active,
                     reloadTimer, overlapped, late, failed, missed>>
  BY DEF Host!Boots
<1>2. m \in HostMessage /\ m.type = "ready"
  BY DEF HostMessage
<1> HIDE DEF m
<1>3. /\ host' \in [Host!Hosts -> {"unused", "booting", "up", "dead", "gone"}]
      /\ \A h \in Host!Hosts : h # child => host'[h] = host[h]
      /\ child \in Host!Hosts => host'[child] = "up"
  BY <1>1 DEF HostInv, HostTypes
<1>4. /\ fromHost' \in Seq(HostMessage)
      /\ NoAnswer => NoAnswer'
  BY <1>1, <1>2 DEF HostInv, HostTypes, NoAnswer
<1>5. start # "no"
  BY <1>1 DEF HostInv, OneProcess
<1>6. HostTypes'
  BY <1>1, <1>3, <1>4 DEF HostInv, HostTypes
<1>7. OneProcess'
  <2>1. down = "stopped" /\ ~late => host[child] # "booting"
    BY <1>1 DEF HostInv, OneProcess, Host!Alive
  <2> QED
    BY <1>1, <1>3, <1>5, <2>1 DEF HostInv, OneProcess, Host!Alive
<1>8. First' => First
  BY <1>1 DEF First
<1>9. Activated'
  BY <1>1, <1>4, <1>8 DEF HostInv, Activated, Alone, UpToDate
<1> QED
  BY <1>6, <1>7, <1>9 DEF HostInv

\* A message of the process is read: nothing it sends is an answer before its
\* handler ends.
LEMMA HostReceivesStays ==
  ASSUME HostInv, Host!HostReceives
  PROVE  HostInv'
<1> DEFINE r == Head(toHost)
<1>1. /\ child # 0 /\ host[child] = "up" /\ toHost # <<>> /\ toHost' = Tail(toHost) /\ current' = r
      /\ UNCHANGED <<mgr, child, respawns, start, down, files, reloadTimer, late, failed, missed>>
  BY DEF Host!HostReceives
<1>2. r \in Nat /\ toHost' \in Seq(Nat) /\ Len(toHost') = Len(toHost) - 1 /\ Len(toHost) \in Nat
  BY <1>1 DEF HostInv, HostTypes
<1>3. start # "no"
  BY <1>1 DEF HostInv, OneProcess
<1>4. ~(down = "stopped" /\ ~late)
  BY <1>1 DEF HostInv, OneProcess, Host!Alive
<1>5. CASE Host!IsShutdown(r)
  <2>1. /\ host' = [host EXCEPT ![child] = "dead"] /\ fromHost' \in {fromHost, Host!Answer(r, r)}
        /\ UNCHANGED <<handling, active, overlapped>>
    BY <1>5 DEF Host!HostReceives
  <2> HIDE DEF r
  <2>2. Host!Answer(r, r) \in Seq(HostMessage)
    BY <1>2 DEF Host!Answer, HostMessage, HostInv, HostTypes
  <2>3. /\ host' \in [Host!Hosts -> {"unused", "booting", "up", "dead", "gone"}]
        /\ \A h \in Host!Hosts : host'[h] = IF h = child THEN "dead" ELSE host[h]
    BY <2>1 DEF HostInv, HostTypes
  <2>4. HostTypes'
    BY <1>1, <1>2, <2>1, <2>2, <2>3 DEF HostInv, HostTypes
  <2>5. OneProcess'
    BY <1>1, <1>3, <1>4, <2>3 DEF HostInv, OneProcess, Host!Alive
  <2>6. 1 \in Host!Hosts
    BY <1>3 DEF HostInv, OneProcess
  <2>7. ~First'
    BY <1>1, <2>3, <2>6 DEF First
  <2>8. Activated'
    BY <1>1, <2>7 DEF HostInv, Activated
  <2> QED
    BY <2>4, <2>5, <2>8 DEF HostInv
<1>6. CASE ~Host!IsShutdown(r)
  <2>1. /\ handling' = handling \cup {<<r, files>>} /\ active' \in {0, active}
        /\ overlapped' = (overlapped \/ handling # {})
        /\ UNCHANGED <<host, fromHost>>
    BY <1>6 DEF Host!HostReceives
  <2> HIDE DEF r
  <2>2. HostTypes'
    BY <1>1, <1>2, <2>1 DEF HostInv, HostTypes
  <2>3. OneProcess'
    BY <1>1, <2>1 DEF HostInv, OneProcess, Host!Alive
  <2>4. handling = {} => handling' = {<<r, files>>}
    BY <2>1
  <2>5. Len(toHost) = 1 => toHost' = <<>>
    BY <1>2
  <2>6. First' => First
    BY <1>1, <2>1 DEF First
  <2>7. NoAnswer => NoAnswer'
    BY <2>1 DEF NoAnswer
  <2>8. First' /\ start = "activating" => NoAnswer' /\ Alone'
    BY <1>1, <1>2, <2>4, <2>5, <2>6, <2>7 DEF HostInv, HostTypes, Activated, Alone, UpToDate
  <2>9. First' /\ start = "done" /\ ~overlapped' /\ ~failed => toHost' # <<>> \/ Alone'
    BY <1>1, <1>2, <2>1, <2>4, <2>6 DEF HostInv, HostTypes, Activated, Alone, UpToDate
  <2>10. First' => start # "waiting"
    BY <1>1, <2>6 DEF HostInv, Activated
  <2>11. First' => active' <= files' /\ \A h \in handling' : h[2] <= files'
    BY <1>1, <2>1, <2>6 DEF HostInv, HostTypes, Activated
  <2>12. Activated'
    BY <1>1, <2>6, <2>8, <2>9, <2>10, <2>11 DEF HostInv, Activated
  <2> QED
    BY <2>2, <2>3, <2>12 DEF HostInv
<1> QED
  BY <1>5, <1>6

\* A handler ends, with the manifests it scanned.
LEMMA HandlerEndsStays ==
  ASSUME HostInv, Host!HandlerEnds
  PROVE  HostInv'
<1>1. /\ child # 0 /\ host[child] = "up"
      /\ UNCHANGED <<mgr, child, host, current, toHost, respawns, start, down, files, reloadTimer,
                     overlapped, late, failed, missed>>
  BY DEF Host!HandlerEnds
<1>2. PICK h \in handling : handling' = handling \ {h} /\ active' = h[2]
                            /\ fromHost' = Host!Answer(current, h[1])
  BY DEF Host!HandlerEnds
<1>3. h[1] \in Nat /\ h[2] \in Nat /\ current \in Nat
  BY DEF HostInv, HostTypes
<1>4. fromHost' \in Seq(HostMessage)
  BY <1>2, <1>3 DEF Host!Answer, HostMessage, HostInv, HostTypes
<1>5. start # "no"
  BY <1>1 DEF HostInv, OneProcess
<1>6. HostTypes'
  BY <1>1, <1>2, <1>3, <1>4 DEF HostInv, HostTypes
<1>7. OneProcess'
  BY <1>1, <1>5 DEF HostInv, OneProcess, Host!Alive
<1>8. Alone => toHost' = <<>> /\ handling' = {} /\ UpToDate(active)'
  BY <1>1, <1>2 DEF Alone, UpToDate
<1>9. First' => First
  BY <1>1 DEF First
<1>10. handling # {}
  BY <1>2
<1>11. First' => active' <= files' /\ \A g \in handling' : g[2] <= files'
  BY <1>1, <1>2, <1>9 DEF HostInv, Activated
<1>12. Activated'
  BY <1>1, <1>8, <1>9, <1>10, <1>11 DEF HostInv, Activated
<1> QED
  BY <1>6, <1>7, <1>12 DEF HostInv

LEMMA DiesStays ==
  ASSUME HostInv, Host!Dies
  PROVE  HostInv'
<1>1. /\ child # 0 /\ host[child] \in {"booting", "up"} /\ host' = [host EXCEPT ![child] = "dead"]
      /\ UNCHANGED <<mgr, child, current, handling, toHost, fromHost, respawns, start, down, files,
                     active, reloadTimer, overlapped, late, failed, missed>>
  BY DEF Host!Dies, Host!Alive
<1>2. /\ host' \in [Host!Hosts -> {"unused", "booting", "up", "dead", "gone"}]
      /\ \A h \in Host!Hosts : host'[h] = IF h = child THEN "dead" ELSE host[h]
  BY <1>1 DEF HostInv, HostTypes
<1>3. start # "no"
  BY <1>1 DEF HostInv, OneProcess
<1>4. HostTypes'
  BY <1>1, <1>2 DEF HostInv, HostTypes
<1>5. ~(down = "stopped" /\ ~late)
  BY <1>1 DEF HostInv, OneProcess, Host!Alive
<1>6. OneProcess'
  BY <1>1, <1>2, <1>3, <1>5 DEF HostInv, OneProcess, Host!Alive
<1>7. 1 \in Host!Hosts
  BY <1>3 DEF HostInv, OneProcess
<1>8. ~First'
  BY <1>1, <1>2, <1>7 DEF First
<1>9. Activated'
  BY <1>1, <1>8 DEF HostInv, Activated
<1> QED
  BY <1>4, <1>6, <1>9 DEF HostInv

-----------------------------------------------------------------------------
LEMMA SendAppends ==
  ASSUME HostTypes, NEW kind, Host!Send(kind)
  PROVE  /\ toHost' \in Seq(Nat)
         /\ Host!Alive(child) => Len(toHost') = Len(toHost) + 1
         /\ ~Host!Alive(child) => toHost' = toHost
<1>1. Host!NextId \in Nat
  BY DEF Host!Send, Host!Requests
<1>2. toHost' = IF Host!Alive(child) THEN Append(toHost, Host!NextId) ELSE toHost
  BY DEF Host!Send
<1> QED
  BY <1>1, <1>2 DEF HostTypes

\* A process is ready: the first is told to activate.
LEMMA ReadyStays ==
  ASSUME HostInv, Host!Ready
  PROVE  HostInv'
<1>1. /\ fromHost # <<>> /\ fromHost' = Tail(fromHost) /\ mgr' = "running"
      /\ late' = (late \/ down = "stopped")
      /\ UNCHANGED <<child, host, current, handling, respawns, down, files, active, reloadTimer,
                     overlapped, failed, missed>>
  BY DEF Host!Ready
<1>2. child # 0 /\ respawns = 0 /\ start # "no"
  BY <1>1 DEF HostInv, OneProcess
<1>3. fromHost' \in Seq(HostMessage) /\ (NoAnswer => NoAnswer')
  BY <1>1 DEF HostInv, HostTypes, NoAnswer
<1>4. /\ start = "waiting" => /\ Host!Send("activate")
                              /\ start' = IF Host!Alive(child) THEN "activating" ELSE "failed"
      /\ start # "waiting" => UNCHANGED <<toHost, start>>
  BY DEF Host!Ready
<1>5. toHost' \in Seq(Nat)
  BY <1>4, SendAppends DEF HostInv, HostTypes
<1>6. HostTypes'
  BY <1>1, <1>3, <1>5 DEF HostInv, HostTypes
<1>7. OneProcess'
  BY <1>1, <1>2, <1>4 DEF HostInv, OneProcess, Host!Alive
<1>8. CASE start = "waiting"
  <2>1. start' # "waiting" /\ start' # "done"
    BY <1>4, <1>8
  <2>2. First' /\ start' = "activating" => NoAnswer' /\ Len(toHost') = 1 /\ handling' = {}
    <3> SUFFICES ASSUME First'
                 PROVE  NoAnswer' /\ Len(toHost') = 1 /\ handling' = {}
      OBVIOUS
    <3>1. First /\ Host!Alive(child)
      BY <1>1 DEF First, Host!Alive
    <3>2. toHost = <<>> /\ handling = {} /\ NoAnswer
      BY <1>8, <3>1 DEF HostInv, Activated
    <3>3. Len(toHost') = Len(toHost) + 1
      BY <1>4, <1>8, <3>1, SendAppends DEF HostInv
    <3> QED
      BY <1>1, <1>3, <3>2, <3>3
  <2> QED
    BY <1>1, <1>4, <1>6, <1>7, <1>8, <2>1, <2>2 DEF HostInv, Activated, First
<1>9. CASE start # "waiting"
  <2>1. UNCHANGED <<toHost, start>>
    BY <1>4, <1>9
  <2>2. Activated'
    BY <1>1, <1>3, <2>1 DEF HostInv, Activated, First, Alone, UpToDate
  <2> QED
    BY <1>6, <1>7, <2>2 DEF HostInv
<1> QED
  BY <1>8, <1>9

\* The answer that ends start() is the activation's, which is then over.
LEMMA ManagerReceivesStays ==
  ASSUME HostInv, Host!ManagerReceives
  PROVE  HostInv'
<1>1. /\ fromHost # <<>> /\ Head(fromHost).type = "answer" /\ fromHost' = Tail(fromHost)
      /\ (start' = start \/ (start = "activating" /\ start' = "done"))
      /\ UNCHANGED <<mgr, child, host, current, handling, toHost, respawns, down, files,
                     active, reloadTimer, overlapped, late, failed, missed>>
  BY DEF Host!ManagerReceives, Host!StartAfter
<1>2. fromHost' \in Seq(HostMessage) /\ ~NoAnswer
  BY <1>1 DEF HostInv, HostTypes, NoAnswer
<1>3. HostTypes'
  BY <1>1, <1>2 DEF HostInv, HostTypes
<1>4. OneProcess'
  BY <1>1 DEF HostInv, OneProcess, Host!Alive
<1>5. First' => First
  BY <1>1 DEF First
<1>6. First' /\ start = "activating" => toHost = <<>> /\ handling = {} /\ UpToDate(active)
  BY <1>2, <1>5 DEF HostInv, Activated
<1>7. Activated'
  <2>1. CASE start' = start
    BY <1>1, <1>2, <1>5, <1>6, <2>1 DEF HostInv, Activated, Alone, UpToDate
  <2>2. CASE start = "activating" /\ start' = "done"
    BY <1>1, <1>5, <1>6, <2>2 DEF HostInv, Activated, Alone, UpToDate
  <2> QED
    BY <1>1, <2>1, <2>2
<1> QED
  BY <1>3, <1>4, <1>7 DEF HostInv

\* The exit of the process starts the timer of the next, unless the manager was
\* shut down.
LEMMA ChildExitsStays ==
  ASSUME HostInv, Host!ChildExits
  PROVE  HostInv'
<1>1. /\ child # 0 /\ host[child] = "dead" /\ fromHost = <<>>
      /\ host' = [host EXCEPT ![child] = "gone"] /\ child' = 0
      /\ (start' = start \/ (start = "activating" /\ start' = "failed"))
      /\ UNCHANGED <<current, handling, toHost, fromHost, files, active, reloadTimer, overlapped, late,
                     failed, missed>>
  BY DEF Host!ChildExits, Host!StartAfter
<1>2. /\ down \in {"asked", "waiting"} => mgr' = "stopped" /\ down' = "stopped"
      /\ down \notin {"asked", "waiting"} => mgr' = "crashed" /\ down' = down
  BY DEF Host!ChildExits
<1>3. /\ respawns' = respawns \/ respawns' = respawns + 1
      /\ mgr \notin {"running", "starting"} => respawns' = respawns
  BY DEF Host!ChildExits, Host!Respawns
<1>4. respawns = 0 /\ start # "no"
  BY <1>1 DEF HostInv, OneProcess
<1>5. /\ host' \in [Host!Hosts -> {"unused", "booting", "up", "dead", "gone"}]
      /\ \A h \in Host!Hosts : host'[h] = IF h = child THEN "gone" ELSE host[h]
  BY <1>1 DEF HostInv, HostTypes
<1>6. HostTypes'
  BY <1>1, <1>5 DEF HostInv, HostTypes
<1>7. \A h \in Host!Hosts : host'[h] \notin {"booting", "up"}
  BY <1>5 DEF HostInv, OneProcess
<1>8. respawns' \in {0, 1} /\ mgr' \in {"crashed", "stopped"}
  BY <1>2, <1>3, <1>4
<1>9. down' = "stopped" /\ ~late' /\ mgr' = "crashed" => respawns' = 0
  BY <1>1, <1>2, <1>3, <1>4 DEF HostInv, OneProcess
<1>10. OneProcess'
  BY <1>1, <1>4, <1>5, <1>7, <1>8, <1>9 DEF HostInv, OneProcess, Host!Alive
<1>11. Activated'
  BY <1>1 DEF HostInv, Activated, First
<1> QED
  BY <1>6, <1>10, <1>11 DEF HostInv

\* A file changes, and the reload that follows is sent, or is a failed one.
LEMMA ReloadStays ==
  ASSUME HostInv, Host!FileChanges \/ Host!Reload
  PROVE  HostInv'
<1>1. CASE Host!FileChanges
  <2>1. /\ start \notin {"no", "failed"} /\ files' = files + 1 /\ reloadTimer' = (start = "done")
        /\ missed' = (start = "activating" /\ toHost = <<>>)
        /\ UNCHANGED <<mgr, child, host, current, handling, toHost, fromHost, respawns, start, down,
                       active, overlapped, late, failed>>
    BY <1>1 DEF Host!FileChanges
  <2>2. HostTypes'
    BY <2>1 DEF HostInv, HostTypes
  <2>3. OneProcess'
    BY <2>1 DEF HostInv, OneProcess, Host!Alive
  <2>4. (First' <=> First) /\ (NoAnswer' <=> NoAnswer)
    BY <2>1 DEF First, NoAnswer
  <2>5. First => active' < files' /\ \A h \in handling' : h[2] < files'
    BY <2>1 DEF HostInv, HostTypes, Activated
  <2>6. First /\ start = "activating" /\ toHost = <<>> /\ handling = {} => UpToDate(active)'
    <3> SUFFICES ASSUME First, start = "activating", toHost = <<>>
                 PROVE  UpToDate(active)'
      OBVIOUS
    <3>1. missed'
      BY <2>1
    <3>2. active' < files' /\ active' \in Nat /\ files' \in Nat
      BY <2>2, <2>5 DEF HostTypes
    <3> QED
      BY <3>1, <3>2 DEF UpToDate
  <2>7. First /\ start = "activating" /\ Alone => Alone'
    <3> SUFFICES ASSUME First, start = "activating", Alone
                 PROVE  Alone'
      OBVIOUS
    <3>1. PICK r, v \in Nat : handling = {<<r, v>>}
      BY DEF Alone
    <3>2. v < files' /\ missed' /\ toHost' = <<>> /\ handling' = {<<r, v>>}
      BY <2>1, <2>5, <3>1 DEF Alone
    <3> QED
      BY <2>2, <3>2 DEF HostTypes, Alone, UpToDate
  <2>8. First => active' <= files' /\ \A h \in handling' : h[2] <= files'
    BY <2>2, <2>5 DEF HostTypes
  <2>9. First /\ start = "activating" =>
          \/ toHost' = <<>> /\ handling' = {} /\ UpToDate(active)'
          \/ NoAnswer' /\ Len(toHost') = 1 /\ handling' = {}
          \/ NoAnswer' /\ Alone'
    BY <2>1, <2>4, <2>6, <2>7 DEF HostInv, Activated, Alone
  <2>10. Activated'
    BY <2>1, <2>4, <2>8, <2>9 DEF HostInv, Activated
  <2> QED
    BY <2>2, <2>3, <2>10 DEF HostInv
<1>2. CASE Host!Reload
  <2>1. /\ reloadTimer /\ ~reloadTimer'
        /\ UNCHANGED <<mgr, child, host, current, handling, fromHost, respawns, start, down, files,
                       active, overlapped, late, missed>>
    BY <1>2 DEF Host!Reload
  <2>2. /\ toHost' \in Seq(Nat)
        /\ ~failed' => toHost' # <<>>
    <3>1. CASE Host!Running
      <4>1. Host!Send("reload") /\ Host!Alive(child)
        BY <1>2, <3>1 DEF Host!Reload, Host!Running
      <4>2. toHost' \in Seq(Nat) /\ Len(toHost') = Len(toHost) + 1 /\ Len(toHost) \in Nat
        BY <4>1, SendAppends DEF HostInv, HostTypes
      <4> QED
        BY <4>2
    <3>2. CASE ~Host!Running
      BY <1>2, <3>2 DEF Host!Reload, HostInv, HostTypes
    <3> QED
      BY <3>1, <3>2
  <2>3. start = "done"
    BY <2>1 DEF HostInv, Activated
  <2>4. HostTypes'
    BY <2>1, <2>2 DEF HostInv, HostTypes
  <2>5. OneProcess'
    BY <2>1 DEF HostInv, OneProcess, Host!Alive
  <2>6. Activated'
    BY <2>1, <2>2, <2>3 DEF HostInv, Activated, First
  <2> QED
    BY <2>4, <2>5, <2>6 DEF HostInv
<1> QED
  BY <1>1, <1>2

\* Every way to the end of a shutdown leaves no process that lives.
LEMMA ShutdownStays ==
  ASSUME HostInv, Host!Shutdown \/ Host!AskAgain \/ Host!Cleanup
  PROVE  HostInv'
<1>1. start # "no" \/ down # "no"
  BY DEF Host!Shutdown, Host!AskAgain, Host!Cleanup
<1>2. CASE Host!Shutdown
  <2>1. /\ down' # "no" /\ start # "no"
        /\ (start' = start \/ (start = "activating" /\ start' = "failed"))
        /\ UNCHANGED <<child, host, current, handling, fromHost, respawns, files, active, reloadTimer,
                       overlapped, late, failed, missed>>
    BY <1>2 DEF Host!Shutdown, Host!StartAfter
  <2>2. toHost' \in Seq(Nat)
    BY <1>2, SendAppends DEF Host!Shutdown, HostInv, HostTypes
  <2>3. /\ mgr' = mgr \/ mgr' = "stopped"
        /\ down' = "stopped" => mgr' = "stopped" /\ ~Host!Alive(child)
    BY <1>2 DEF Host!Shutdown
  <2>4. HostTypes'
    BY <2>1, <2>2 DEF HostInv, HostTypes
  <2>5. OneProcess'
    BY <2>1, <2>3 DEF HostInv, OneProcess, Host!Alive
  <2>6. Activated'
    BY <2>1 DEF HostInv, Activated, First
  <2> QED
    BY <2>4, <2>5, <2>6 DEF HostInv
<1>3. CASE Host!AskAgain
  <2>1. /\ down' = "waiting" /\ toHost' = Append(toHost, 0)
        /\ UNCHANGED <<mgr, child, host, current, handling, fromHost, respawns, start, files, active,
                       reloadTimer, overlapped, late, failed, missed>>
    BY <1>3 DEF Host!AskAgain
  <2>2. HostTypes'
    BY <2>1 DEF HostInv, HostTypes
  <2>3. OneProcess'
    BY <2>1 DEF HostInv, OneProcess
  <2>4. Activated'
    BY <2>1 DEF HostInv, Activated, First
  <2> QED
    BY <2>2, <2>3, <2>4 DEF HostInv
<1>4. CASE Host!Cleanup
  <2>1. /\ down # "no" /\ down' = "stopped" /\ mgr' = "stopped"
        /\ host' = IF Host!Alive(child) THEN [host EXCEPT ![child] = "dead"] ELSE host
        /\ (start' = start \/ (start = "activating" /\ start' = "failed"))
        /\ UNCHANGED <<child, current, handling, toHost, fromHost, respawns, files, active, reloadTimer,
                       overlapped, late, failed, missed>>
    BY <1>4 DEF Host!Cleanup, Host!StartAfter
  <2>2. /\ host' \in [Host!Hosts -> {"unused", "booting", "up", "dead", "gone"}]
        /\ \A h \in Host!Hosts : host'[h] = IF h = child /\ host[h] \in {"booting", "up"}
                                            THEN "dead" ELSE host[h]
    BY <2>1, HostsAreNumbers DEF HostInv, HostTypes, Host!Alive
  <2>3. HostTypes'
    BY <2>1, <2>2 DEF HostInv, HostTypes
  <2>4. ~Host!Alive(child)'
    BY <2>1, <2>2 DEF HostInv, HostTypes, OneProcess, Host!Alive
  <2>5. OneProcess'
    BY <2>1, <2>2, <2>4 DEF HostInv, OneProcess
  <2>6. Activated'
    BY <2>1 DEF HostInv, Activated, First
  <2> QED
    BY <2>3, <2>5, <2>6 DEF HostInv
<1> QED
  BY <1>2, <1>3, <1>4

LEMMA HostStays ==
  ASSUME HostInv, Host!HostNext
  PROVE  HostInv'
BY StartHostStays, StartTimeoutStays, BootsStays, HostReceivesStays, HandlerEndsStays, DiesStays,
   ReadyStays, ManagerReceivesStays, ChildExitsStays, RespawnTimerStays, ReloadStays, ShutdownStays
   DEF Host!HostNext

\* There is one extension host, none after a shutdown, and its manifests are
\* those on the disk once all is quiet (extension-host-manager.ts:305).
THEOREM HostIsCurrentCorrect == AgentsSpec => []HostIsCurrent
<1>1. AgentsInit => HostInv
  BY HostInitial DEF AgentsInit
<1>2. HostInv /\ [AgentsNext]_agentsVars => HostInv'
  <2> SUFFICES ASSUME HostInv, [AgentsNext]_agentsVars
               PROVE  HostInv'
    OBVIOUS
  <2>1. CASE HostStep
    BY <2>1, HostStays DEF HostStep
  <2>2. CASE ChatStep \/ OpStep \/ NodeStep \/ ProviderStep
    BY <2>2, HostUnchanged DEF ChatStep, OpStep, NodeStep, ProviderStep
  <2>3. CASE UNCHANGED agentsVars
    BY <2>3, HostUnchanged DEF agentsVars
  <2> QED
    BY <2>1, <2>2, <2>3 DEF AgentsNext
<1>3. HostInv => HostIsCurrent
  <2> SUFFICES ASSUME HostInv
               PROVE  Host!OneHost /\ Host!ManifestsCurrent
    BY DEF HostIsCurrent
  <2>1. Host!OneHost
    BY DEF HostInv, OneProcess, Host!OneHost, Host!Alive
  <2>2. Host!ManifestsCurrent
    BY DEF HostInv, Activated, First, Alone, UpToDate, Host!ManifestsCurrent, Host!Alive
  <2> QED
    BY <2>1, <2>2
<1> QED
  BY <1>1, <1>2, <1>3, PTL DEF AgentsSpec
-----------------------------------------------------------------------------
(* What the chat adapter owes *)

ChatTypes ==
  /\ running \in BOOLEAN
  /\ pending \in Runs \cup {NoRun}
  /\ phase \in [Runs -> {"returned", "streaming", "waiting"}]
  /\ stdout \in Seq(Output)
  /\ stdin \in Seq(InputMessage)
  /\ owed \in Int

\* Before the first interrupt, reset or tool there is no run but the one that
\* is running and has the controller, and it owes the one result.
PlainTurns ==
  used = {} =>
    /\ pending = NoRun
    /\ \A r \in Runs : phase[r] # "returned" => running /\ controller = r
    /\ running => controller \in Runs
    /\ owed = IF running THEN 1 ELSE 0

\* A button is clicked only while nothing is on its way, so that only the
\* messages of the user follow it.
ClickedFirst == \A i \in 2..Len(stdin) : stdin[i] = "user_message"

ResultWritten == \E i \in 1..Len(stdout) : IsResult(stdout[i])
Waits == \E r \in Runs : phase[r] = "waiting"

\* What will end the turn, whatever results of tools are on their way; a reset
\* on its way with nothing after it has ended it already.
TurnOwed ==
  chatPhase = "running" /\ alive =>
    /\ Occurs("user_message", stdin) \/ running \/ Waits \/ ResultWritten
    /\ stdin # <<"reset">>

ChatInv == ChatTypes /\ PlainTurns /\ ClickedFirst /\ TurnOwed

LEMMA ChatInitial == ChatInit => ChatInv
<1> SUFFICES ASSUME ChatInit
             PROVE  ChatInv
  OBVIOUS
<1>1. /\ running = FALSE /\ pending = NoRun /\ phase = [r \in Runs |-> "returned"]
      /\ stdout = <<>> /\ owed = 0 /\ stdin = <<>> /\ chatPhase = "idle"
  BY DEF ChatInit, Init
<1>2. ChatTypes
  <2>1. running \in BOOLEAN
    BY <1>1
  <2>2. stdin \in Seq(InputMessage) /\ stdout \in Seq(Output)
    BY <1>1
  <2> QED
    BY <1>1, <2>1, <2>2 DEF ChatTypes
<1>3. PlainTurns
  BY <1>1 DEF PlainTurns
<1>4. ClickedFirst /\ TurnOwed
  BY <1>1 DEF ClickedFirst, TurnOwed
<1> QED
  BY <1>2, <1>3, <1>4 DEF ChatInv

LEMMA ChatUnchanged == ChatInv /\ UNCHANGED allVars => ChatInv'
<1> SUFFICES ASSUME ChatInv, UNCHANGED allVars
             PROVE  ChatInv'
  OBVIOUS
<1>1. UNCHANGED <<running, controller, pending, phase, stdout, owed, used, stdin, alive, chatPhase>>
  BY DEF allVars, chatVars, adapterVars
<1>2. /\ Occurs("user_message", stdin)' <=> Occurs("user_message", stdin)
      /\ Waits' <=> Waits
      /\ ResultWritten' <=> ResultWritten
  BY <1>1 DEF Occurs, Waits, ResultWritten, IsResult
<1> QED
  BY <1>1, <1>2 DEF ChatInv, ChatTypes, PlainTurns, ClickedFirst, TurnOwed

\* A result stays in what is written, and one that is written is there.
LEMMA WriteKeeps ==
  ASSUME NEW more \in Seq(Output), stdout \in Seq(Output), Write(more)
  PROVE  /\ stdout' \in Seq(Output)
         /\ ResultWritten => ResultWritten'
         /\ (\E i \in 1..Len(more) : IsResult(more[i])) => ResultWritten'
<1>1. /\ stdout' = stdout \o more /\ stdout' \in Seq(Output)
      /\ Len(stdout') = Len(stdout) + Len(more)
      /\ \A i \in 1..Len(stdout) : stdout'[i] = stdout[i]
      /\ \A i \in 1..Len(more) : stdout'[Len(stdout) + i] = more[i]
  BY DEF Write
<1>2. Len(stdout) \in Nat /\ Len(more) \in Nat
  OBVIOUS
<1>3. ASSUME NEW i \in 1..Len(stdout), IsResult(stdout[i])
      PROVE  ResultWritten'
  <2>1. i \in 1..Len(stdout') /\ stdout'[i] = stdout[i]
    BY <1>1, <1>2
  <2> QED
    BY <2>1, <1>3 DEF ResultWritten, IsResult
<1>4. ASSUME NEW i \in 1..Len(more), IsResult(more[i])
      PROVE  ResultWritten'
  <2>1. Len(stdout) + i \in 1..Len(stdout') /\ stdout'[Len(stdout) + i] = more[i]
    BY <1>1, <1>2
  <2> QED
    BY <2>1, <1>4 DEF ResultWritten, IsResult
<1> QED
  BY <1>1, <1>3, <1>4 DEF ResultWritten

\* What an append to stdin keeps
LEMMA ToAdapterAppends ==
  ASSUME ChatTypes, alive, NEW m \in InputMessage, ToAdapter(m)
  PROVE  /\ stdin' \in Seq(InputMessage) /\ stdin' = Append(stdin, m)
         /\ Occurs("user_message", stdin) => Occurs("user_message", stdin)'
         /\ m = "user_message" => Occurs("user_message", stdin)'
         /\ m = "user_message" /\ ClickedFirst => ClickedFirst'
         /\ stdin = <<>> => ClickedFirst'
<1>1. /\ stdin' = Append(stdin, m) /\ stdin \in Seq(InputMessage) /\ stdin' \in Seq(InputMessage)
      /\ Len(stdin) \in Nat /\ Len(stdin') = Len(stdin) + 1
      /\ \A i \in 1..Len(stdin) : stdin'[i] = stdin[i]
      /\ stdin'[Len(stdin) + 1] = m
  BY DEF ToAdapter, ChatTypes
<1>2. Occurs("user_message", stdin) => Occurs("user_message", stdin)'
  BY <1>1 DEF Occurs
<1>3. m = "user_message" => Occurs("user_message", stdin)'
  BY <1>1 DEF Occurs
<1>4. m = "user_message" /\ ClickedFirst => ClickedFirst'
  <2> SUFFICES ASSUME m = "user_message", ClickedFirst, NEW i \in 2..Len(stdin')
               PROVE  stdin'[i] = "user_message"
    BY DEF ClickedFirst
  <2>1. i \in 2..Len(stdin) \/ i = Len(stdin) + 1
    BY <1>1
  <2> QED
    BY <1>1, <2>1 DEF ClickedFirst
<1>5. stdin = <<>> => ClickedFirst'
  BY <1>1 DEF ClickedFirst
<1> QED
  BY <1>1, <1>2, <1>3, <1>4, <1>5

\* What a chat sends once the adapter is gone is lost.
LEMMA ChatOfTheDead ==
  ASSUME ChatInv, ~alive, alive' = alive, NEW m \in InputMessage, ToAdapter(m),
         UNCHANGED adapterVars
  PROVE  ChatInv'
<1>1. UNCHANGED <<stdin, running, controller, pending, phase, stdout, owed, used>> /\ ~alive'
  BY DEF ToAdapter, adapterVars
<1> QED
  BY <1>1 DEF ChatInv, ChatTypes, PlainTurns, ClickedFirst, TurnOwed

LEMMA SendMessageStays ==
  ASSUME ChatInv, SendMessage
  PROVE  ChatInv'
<1>1. /\ ToAdapter("user_message") /\ alive' = alive /\ "user_message" \in InputMessage
      /\ UNCHANGED adapterVars
  BY DEF SendMessage, InputMessage
<1>2. CASE ~alive
  BY <1>1, <1>2, ChatOfTheDead
<1>3. CASE alive
  <2>1. /\ stdin' \in Seq(InputMessage) /\ stdin' = Append(stdin, "user_message")
        /\ Occurs("user_message", stdin)' /\ ClickedFirst'
    BY <1>1, <1>3, ToAdapterAppends DEF ChatInv
  <2>2. stdin' # <<"reset">>
    <3>1. stdin'[Len(stdin')] = "user_message"
      BY <2>1 DEF ChatInv, ChatTypes
    <3> QED
      BY <3>1
  <2>3. UNCHANGED <<running, controller, pending, phase, stdout, owed, used>>
    BY <1>1 DEF adapterVars
  <2> QED
    BY <2>1, <2>2, <2>3 DEF ChatInv, ChatTypes, PlainTurns, TurnOwed
<1> QED
  BY <1>2, <1>3

LEMMA SendToolResultStays ==
  ASSUME ChatInv, SendToolResult
  PROVE  ChatInv'
<1>1. /\ ToAdapter("tool_result") /\ alive' = alive /\ "tool_result" \in InputMessage
      /\ UNCHANGED adapterVars /\ chatPhase' = chatPhase /\ stdin = <<>>
  BY DEF SendToolResult, InputMessage, RoomToClick
<1>2. CASE ~alive
  BY <1>1, <1>2, ChatOfTheDead
<1>3. CASE alive
  <2>1. /\ stdin' \in Seq(InputMessage) /\ stdin' = Append(stdin, "tool_result") /\ ClickedFirst'
        /\ Occurs("user_message", stdin) => Occurs("user_message", stdin)'
    BY <1>1, <1>3, ToAdapterAppends DEF ChatInv
  <2>2. stdin' # <<"reset">>
    BY <1>1, <2>1
  <2>3. UNCHANGED <<running, controller, pending, phase, stdout, owed, used>>
    BY <1>1 DEF adapterVars
  <2>4. /\ Waits => Waits'
        /\ ResultWritten => ResultWritten'
    BY <2>3 DEF Waits, ResultWritten, IsResult
  <2> QED
    BY <1>1, <2>1, <2>2, <2>3, <2>4 DEF ChatInv, ChatTypes, PlainTurns, TurnOwed
<1> QED
  BY <1>2, <1>3

\* A reset and an interrupt end the turn for the chat.
LEMMA ClicksStay ==
  ASSUME ChatInv, ResetSession \/ ClickInterrupt
  PROVE  ChatInv'
<1>1. PICK m \in {"reset", "interrupt"} :
        /\ ToAdapter(m) /\ UNCHANGED adapterVars /\ chatPhase' # "running" /\ stdin = <<>>
  BY DEF ResetSession, ClickInterrupt, RoomToClick
<1>2. m \in InputMessage
  BY DEF InputMessage
<1>3. stdin' \in Seq(InputMessage) /\ ClickedFirst'
  <2>1. CASE alive
    BY <1>1, <1>2, <2>1, ToAdapterAppends DEF ChatInv
  <2>2. CASE ~alive
    BY <1>1, <2>2 DEF ToAdapter, ChatInv, ChatTypes, ClickedFirst
  <2> QED
    BY <2>1, <2>2
<1>4. UNCHANGED <<running, controller, pending, phase, stdout, owed, used>>
  BY <1>1 DEF adapterVars
<1> QED
  BY <1>1, <1>3, <1>4 DEF ChatInv, ChatTypes, PlainTurns, TurnOwed

-----------------------------------------------------------------------------
(* The adapter's steps *)

\* A message is read: the ones behind it move up.
LEMMA HeadRead ==
  ASSUME ChatTypes, stdin # <<>>, stdin' = Tail(stdin), ClickedFirst
  PROVE  /\ stdin' \in Seq(InputMessage) /\ ClickedFirst'
         /\ \A i \in 1..Len(stdin') : stdin'[i] = "user_message"
         /\ Occurs("user_message", stdin) /\ Head(stdin) # "user_message" => Occurs("user_message", stdin)'
         /\ stdin' # <<"reset">>
         /\ stdin = <<Head(stdin)>> \/ Occurs("user_message", stdin)'
<1>1. /\ stdin' \in Seq(InputMessage) /\ Len(stdin) \in Nat /\ Len(stdin) >= 1
      /\ Len(stdin') = Len(stdin) - 1
      /\ \A i \in 1..Len(stdin') : stdin'[i] = stdin[i + 1]
      /\ Head(stdin) = stdin[1]
  BY DEF ChatTypes
<1>2. \A i \in 1..Len(stdin') : stdin'[i] = "user_message"
  <2> SUFFICES ASSUME NEW i \in 1..Len(stdin')
               PROVE  stdin'[i] = "user_message"
    OBVIOUS
  <2>1. i + 1 \in 2..Len(stdin)
    BY <1>1
  <2> QED
    BY <1>1, <2>1 DEF ClickedFirst
<1>3. ClickedFirst'
  <2> SUFFICES ASSUME NEW i \in 2..Len(stdin')
               PROVE  stdin'[i] = "user_message"
    BY DEF ClickedFirst
  <2>1. i \in 1..Len(stdin')
    BY <1>1
  <2> QED
    BY <1>2, <2>1
<1>4. Len(stdin) >= 2 => Occurs("user_message", stdin)'
  <2> SUFFICES ASSUME Len(stdin) >= 2
               PROVE  Occurs("user_message", stdin')
    BY DEF Occurs
  <2>1. 1 \in 1..Len(stdin')
    BY <1>1
  <2> QED
    BY <1>2, <2>1 DEF Occurs
<1>5. stdin' # <<"reset">>
  <2> SUFFICES ASSUME stdin' = <<"reset">>
               PROVE  FALSE
    OBVIOUS
  <2>1. 1 \in 1..Len(stdin') /\ stdin'[1] = "reset"
    OBVIOUS
  <2> QED
    BY <1>2, <2>1
<1>6. Len(stdin) = 1 => stdin = <<Head(stdin)>>
  BY <1>1 DEF ChatTypes
<1>7. Occurs("user_message", stdin) /\ Head(stdin) # "user_message" => Len(stdin) >= 2
  BY <1>1 DEF Occurs
<1> QED
  BY <1>1, <1>2, <1>3, <1>4, <1>5, <1>6, <1>7

LEMMA StartTypes ==
  ASSUME NEW phases \in [Runs -> {"returned", "streaming", "waiting"}], NEW r \in Runs, Start(r, phases)
  PROVE  phase' \in [Runs -> {"returned", "streaming", "waiting"}] /\ running' = TRUE /\ controller' = r
BY DEF Start

LEMMA OweAdds ==
  ASSUME ChatTypes, NEW n \in Int, Owe(n)
  PROVE  owed' \in Int /\ (used = {} => owed' = owed + n)
BY DEF ChatTypes, Owe

LEMMA UserMessageRead ==
  ASSUME ChatTypes, PlainTurns, UserMessage
  PROVE  /\ running' = TRUE /\ PlainTurns' /\ stdout' = stdout
         /\ phase' \in [Runs -> {"returned", "streaming", "waiting"}]
         /\ pending' = pending /\ owed' \in Int
<1>1. pending' = pending /\ used' = used
  BY DEF UserMessage
<1>2. stdout' = stdout
  BY DEF UserMessage, Write, ChatTypes
<1>3. CASE running
  <2>1. UNCHANGED <<running, controller, phase, owed>>
    BY <1>3 DEF UserMessage
  <2> QED
    BY <1>1, <1>2, <1>3, <2>1 DEF ChatTypes, PlainTurns
<1>4. CASE ~running
  <2>1. PICK r \in Runs : Start(r, phase)
    BY <1>4 DEF UserMessage
  <2>2. Owe(1)
    BY <1>4 DEF UserMessage
  <2>3. /\ phase' \in [Runs -> {"returned", "streaming", "waiting"}] /\ running' = TRUE /\ controller' = r
        /\ \A q \in Runs : q # r => phase'[q] = phase[q]
        /\ owed' \in Int /\ (used = {} => owed' = owed + 1)
    BY <2>1, <2>2, StartTypes, OweAdds DEF ChatTypes, Start
  <2> QED
    BY <1>1, <1>2, <1>4, <2>3 DEF PlainTurns
<1> QED
  BY <1>3, <1>4 DEF ChatTypes

LEMMA ToolResultRead ==
  ASSUME ChatTypes, PlainTurns, ToolResult
  PROVE  /\ PlainTurns' /\ stdout' = stdout
         /\ phase' \in [Runs -> {"returned", "streaming", "waiting"}]
         /\ pending' \in Runs \cup {NoRun} /\ owed' \in Int /\ running' \in BOOLEAN
         /\ running \/ Waits => running' \/ Waits'
<1>1. used' = used
  BY DEF ToolResult
<1>2. stdout' = stdout
  BY DEF ToolResult, Write, ChatTypes
<1>3. CASE pending = NoRun
  <2>1. UNCHANGED <<running, controller, pending, phase, owed>>
    BY <1>3 DEF ToolResult
  <2> QED
    BY <1>1, <1>2, <2>1 DEF ChatTypes, PlainTurns, Waits
<1>4. CASE pending # NoRun
  <2> DEFINE resumed == [phase EXCEPT ![pending] = "streaming"]
  <2>1. used # {}
    BY <1>4 DEF PlainTurns
  <2>2. resumed \in [Runs -> {"returned", "streaming", "waiting"}]
    BY DEF ChatTypes
  <2>3. pending' = NoRun
    BY <1>4 DEF ToolResult
  <2>4. CASE running
    <3>1. phase' = resumed /\ UNCHANGED <<running, controller, owed>>
      BY <1>4, <2>4 DEF ToolResult
    <3> QED
      BY <1>1, <1>2, <2>1, <2>2, <2>3, <2>4, <3>1 DEF ChatTypes, PlainTurns
  <2>5. CASE ~running
    <3>1. PICK r \in Runs : Start(r, resumed)
      BY <1>4, <2>5 DEF ToolResult
    <3>2. Owe(1)
      BY <1>4, <2>5 DEF ToolResult
    <3> HIDE DEF resumed
    <3>3. /\ phase' \in [Runs -> {"returned", "streaming", "waiting"}] /\ running' = TRUE
          /\ owed' \in Int
      <4>1. owed' \in Int
        BY <3>2, OweAdds
      <4> QED
        BY <2>2, <3>1, <4>1, StartTypes
    <3> QED
      BY <1>1, <1>2, <2>1, <2>3, <3>3 DEF PlainTurns
  <2> QED
    BY <2>4, <2>5 DEF ChatTypes
<1> QED
  BY <1>3, <1>4

LEMMA AdapterReadsStays ==
  ASSUME ChatInv, AdapterReads
  PROVE  ChatInv'
<1> DEFINE m == Head(stdin)
<1> ChatTypes /\ PlainTurns /\ ClickedFirst /\ TurnOwed
  BY DEF ChatInv
<1>1. /\ alive /\ alive' = alive /\ chatPhase' = chatPhase
      /\ stdin # <<>> /\ stdin' = Tail(stdin) /\ HandleMessage(m)
  BY DEF AdapterReads
<1>2. /\ stdin' \in Seq(InputMessage) /\ ClickedFirst' /\ stdin' # <<"reset">>
      /\ Occurs("user_message", stdin) /\ m # "user_message" => Occurs("user_message", stdin)'
      /\ stdin = <<m>> \/ Occurs("user_message", stdin)'
  BY <1>1, HeadRead
<1> HIDE DEF m
<1>3. CASE m = "user_message" /\ UserMessage
  <2>1. /\ running' = TRUE /\ PlainTurns' /\ stdout' = stdout
        /\ phase' \in [Runs -> {"returned", "streaming", "waiting"}]
        /\ pending' = pending /\ owed' \in Int
    BY <1>3, UserMessageRead
  <2>2. ChatTypes'
    BY <1>2, <2>1 DEF ChatTypes
  <2>3. TurnOwed'
    BY <1>2, <2>1 DEF TurnOwed
  <2> QED
    BY <1>2, <2>1, <2>2, <2>3 DEF ChatInv
<1>4. CASE m = "tool_result" /\ ToolResult
  <2>1. /\ PlainTurns' /\ stdout' = stdout
        /\ phase' \in [Runs -> {"returned", "streaming", "waiting"}]
        /\ pending' \in Runs \cup {NoRun} /\ owed' \in Int /\ running' \in BOOLEAN
        /\ running \/ Waits => running' \/ Waits'
    BY <1>4, ToolResultRead
  <2>2. ChatTypes'
    BY <1>2, <2>1 DEF ChatTypes
  <2>3. ResultWritten => ResultWritten'
    BY <2>1 DEF ResultWritten, IsResult
  <2>4. TurnOwed'
    BY <1>1, <1>2, <1>4, <2>1, <2>3 DEF TurnOwed
  <2> QED
    BY <1>2, <2>1, <2>2, <2>4 DEF ChatInv
<1>5. CASE m = "interrupt" /\ Interrupt
  <2> DEFINE more == <<"success_result">>
  <2>1. /\ Write(more) /\ running' = FALSE /\ owed' = 0 /\ UNCHANGED <<pending, phase>>
        /\ used' # {}
    BY <1>5 DEF Interrupt
  <2>2. more \in Seq(Output) /\ \E i \in 1..Len(more) : IsResult(more[i])
    <3>1. 1 \in 1..Len(more) /\ IsResult(more[1]) /\ more \in Seq(Output)
      BY DEF IsResult, Output
    <3> QED
      BY <3>1
  <2> HIDE DEF more
  <2>3. stdout' \in Seq(Output) /\ ResultWritten'
    BY <2>1, <2>2, WriteKeeps DEF ChatTypes
  <2>4. ChatTypes'
    <3>1. running' \in BOOLEAN
      BY <2>1
    <3> QED
      BY <1>2, <2>1, <2>3, <3>1 DEF ChatTypes
  <2>5. PlainTurns'
    BY <2>1 DEF PlainTurns
  <2>6. TurnOwed'
    BY <1>2, <2>3 DEF TurnOwed
  <2> QED
    BY <1>2, <2>4, <2>5, <2>6 DEF ChatInv
<1>6. CASE m = "reset" /\ Reset
  <2>1. /\ Write(<<>>) /\ running' = FALSE /\ owed' = 0 /\ pending' = NoRun /\ phase' = phase
        /\ used' # {} /\ <<>> \in Seq(Output)
    BY <1>6 DEF Reset
  <2>2. stdout' \in Seq(Output)
    BY <2>1, WriteKeeps DEF ChatTypes
  <2>3. TurnOwed'
    BY <1>1, <1>2, <1>6 DEF TurnOwed
  <2>4. ChatTypes'
    <3>1. running' \in BOOLEAN
      BY <2>1
    <3> QED
      BY <1>2, <2>1, <2>2, <3>1 DEF ChatTypes
  <2>5. PlainTurns'
    BY <2>1 DEF PlainTurns
  <2> QED
    BY <1>2, <2>3, <2>4, <2>5 DEF ChatInv
<1> QED
  BY <1>1, <1>3, <1>4, <1>5, <1>6 DEF HandleMessage

\* While a run streams the chat's end of it stays as it is.
ChatWaits == UNCHANGED <<stdin, alive, chatPhase>>

\* A run that was the only one returns, and the result it owed is written.
LEMMA ReturnStays ==
  ASSUME ChatInv, ChatWaits, NEW r \in Runs, phase[r] = "streaming", Return(r), Owe(-1),
         NEW more \in Seq(Output), Write(more), \E i \in 1..Len(more) : IsResult(more[i]),
         UNCHANGED <<pending, used>>
  PROVE  ChatInv'
<1> ChatTypes /\ PlainTurns /\ ClickedFirst /\ TurnOwed
  BY DEF ChatInv
<1>1. stdout' \in Seq(Output) /\ ResultWritten'
  BY WriteKeeps DEF ChatTypes
<1>2. /\ phase' \in [Runs -> {"returned", "streaming", "waiting"}] /\ phase'[r] = "returned"
      /\ \A q \in Runs : q # r => phase'[q] = phase[q]
      /\ running' = FALSE
  BY DEF Return, ChatTypes
<1>3. owed' \in Int /\ (used = {} => owed' = owed + (-1))
  BY OweAdds
<1>4. PlainTurns'
  BY <1>2, <1>3 DEF PlainTurns
<1>5. ChatTypes' /\ ClickedFirst' /\ TurnOwed'
  BY <1>1, <1>2, <1>3 DEF ChatTypes, ClickedFirst, TurnOwed, ChatWaits
<1> QED
  BY <1>4, <1>5 DEF ChatInv

LEMMA FailsStays ==
  ASSUME ChatInv, ChatWaits, NEW r \in Runs, Fails(r)
  PROVE  ChatInv'
<1> DEFINE more == <<"error", "error_result">>
<1>1. more \in Seq(Output) /\ 2 \in 1..Len(more) /\ IsResult(more[2])
  BY DEF Output, IsResult
<1>2. phase[r] = "streaming" /\ Return(r) /\ Owe(-1) /\ Write(more) /\ UNCHANGED <<pending, used>>
  BY DEF Fails
<1>3. \E i \in 1..Len(more) : IsResult(more[i])
  BY <1>1
<1> HIDE DEF more
<1> QED
  BY <1>1, <1>2, <1>3, ReturnStays

LEMMA DoneStays ==
  ASSUME ChatInv, ChatWaits, NEW r \in Runs, Done(r) \/ (Ends(r) /\ running)
  PROVE  ChatInv'
<1> DEFINE more == <<"assistant", "success_result">>
<1>1. more \in Seq(Output) /\ 2 \in 1..Len(more) /\ IsResult(more[2])
  BY DEF Output, IsResult
<1>2. phase[r] = "streaming" /\ Return(r) /\ Owe(-1) /\ Write(more) /\ UNCHANGED <<pending, used>>
  BY DEF Done, Ends
<1>3. \E i \in 1..Len(more) : IsResult(more[i])
  BY <1>1
<1> HIDE DEF more
<1> QED
  BY <1>1, <1>2, <1>3, ReturnStays

\* A stream ends that nobody counts as running: what is owed is not its own.
LEMMA EndsUnseenStays ==
  ASSUME ChatInv, ChatWaits, NEW r \in Runs, Ends(r), ~running
  PROVE  ChatInv'
<1> ChatTypes /\ PlainTurns /\ ClickedFirst /\ TurnOwed
  BY DEF ChatInv
<1>1. /\ phase[r] = "streaming" /\ phase' = [phase EXCEPT ![r] = "returned"]
      /\ Write(<<>>) /\ UNCHANGED <<running, controller, owed, pending, used>>
  BY DEF Ends
<1>2. /\ phase' \in [Runs -> {"returned", "streaming", "waiting"}] /\ phase'[r] = "returned"
      /\ \A q \in Runs : q # r => phase'[q] = phase[q]
  BY <1>1 DEF ChatTypes
<1>3. stdout' \in Seq(Output) /\ (ResultWritten => ResultWritten')
  <2>1. <<>> \in Seq(Output)
    OBVIOUS
  <2> QED
    BY <1>1, <2>1, WriteKeeps DEF ChatTypes
<1>4. Waits => Waits'
  <2> SUFFICES ASSUME NEW q \in Runs, phase[q] = "waiting"
               PROVE  Waits'
    BY DEF Waits
  <2>1. phase'[q] = "waiting"
    BY <1>1, <1>2
  <2> QED
    BY <2>1 DEF Waits
<1>5. PlainTurns'
  BY <1>1, <1>2 DEF PlainTurns
<1>6. ChatTypes' /\ ClickedFirst'
  BY <1>1, <1>2, <1>3 DEF ChatTypes, ClickedFirst, ChatWaits
<1>7. TurnOwed'
  <2>1. Occurs("user_message", stdin)' <=> Occurs("user_message", stdin)
    BY DEF Occurs, ChatWaits
  <2> QED
    BY <1>1, <1>3, <1>4, <2>1 DEF TurnOwed, ChatWaits
<1> QED
  BY <1>5, <1>6, <1>7 DEF ChatInv

LEMMA DeltaStays ==
  ASSUME ChatInv, ChatWaits, NEW r \in Runs, Delta(r)
  PROVE  ChatInv'
<1> ChatTypes /\ PlainTurns /\ ClickedFirst /\ TurnOwed
  BY DEF ChatInv
<1>1. Write(<<"text">>) /\ UNCHANGED <<running, controller, pending, phase, owed, used>>
  BY DEF Delta
<1>2. <<"text">> \in Seq(Output)
  BY DEF Output
<1>3. stdout' \in Seq(Output) /\ (ResultWritten => ResultWritten')
  BY <1>1, <1>2, WriteKeeps DEF ChatTypes
<1>4. /\ Waits' <=> Waits
      /\ Occurs("user_message", stdin)' <=> Occurs("user_message", stdin)
  BY <1>1 DEF Waits, Occurs, ChatWaits
<1> QED
  BY <1>1, <1>3, <1>4 DEF ChatInv, ChatTypes, PlainTurns, ClickedFirst, TurnOwed, ChatWaits

LEMMA ToolUseStays ==
  ASSUME ChatInv, ChatWaits, NEW r \in Runs, ToolUse(r)
  PROVE  ChatInv'
<1> ChatTypes /\ PlainTurns /\ ClickedFirst /\ TurnOwed
  BY DEF ChatInv
<1>1. /\ running' = FALSE /\ pending' = r /\ phase' = [phase EXCEPT ![r] = "waiting"]
      /\ Write(<<"tool_use", "assistant">>) /\ used' # {} /\ owed' = 0
  BY DEF ToolUse
<1>2. <<"tool_use", "assistant">> \in Seq(Output)
  BY DEF Output
<1>3. stdout' \in Seq(Output)
  BY <1>1, <1>2, WriteKeeps DEF ChatTypes
<1>4. phase' \in [Runs -> {"returned", "streaming", "waiting"}] /\ phase'[r] = "waiting"
  BY <1>1 DEF ChatTypes
<1>5. Waits'
  BY <1>4 DEF Waits
<1>6. ChatTypes'
  <2>1. running' \in BOOLEAN
    BY <1>1
  <2> QED
    BY <1>1, <1>3, <1>4, <2>1 DEF ChatTypes, ChatWaits
<1>7. PlainTurns'
  BY <1>1 DEF PlainTurns
<1>8. ClickedFirst' /\ TurnOwed'
  BY <1>5 DEF ClickedFirst, TurnOwed, ChatWaits
<1> QED
  BY <1>6, <1>7, <1>8 DEF ChatInv

LEMMA AdapterStreamsStays ==
  ASSUME ChatInv, AdapterStreams
  PROVE  ChatInv'
<1>1. ChatWaits
  BY DEF AdapterStreams, ChatWaits
<1>2. PICK r \in Runs :
        Delta(r) \/ ToolUse(r) \/ Fails(r) \/ Done(r) \/ (Ends(r) /\ running) \/ (Ends(r) /\ ~running)
  BY DEF AdapterStreams, EventThrows, StreamOver
<1> QED
  BY <1>1, <1>2, DeltaStays, ToolUseStays, FailsStays, DoneStays, EndsUnseenStays

\* A result that is read ends the turn for the chat.
LEMMA ParserReadsStays ==
  ASSUME ChatInv, ParserReads
  PROVE  ChatInv'
<1> ChatTypes /\ PlainTurns /\ ClickedFirst /\ TurnOwed
  BY DEF ChatInv
<1>1. /\ stdout # <<>> /\ Parse(Head(stdout)) /\ stdout' = Tail(stdout)
      /\ UNCHANGED <<running, controller, pending, phase, owed, used, stdin, alive>>
  BY DEF ParserReads
<1>2. /\ stdout' \in Seq(Output) /\ Len(stdout) \in Nat /\ Len(stdout) >= 1
      /\ Len(stdout') = Len(stdout) - 1
      /\ \A i \in 1..Len(stdout') : stdout'[i] = stdout[i + 1]
      /\ Head(stdout) = stdout[1] /\ Head(stdout) \in Output
  BY <1>1 DEF ChatTypes
<1>3. /\ chatPhase' = "running" => chatPhase = "running"
      /\ IsResult(Head(stdout)) => chatPhase' # "running"
  BY <1>1, <1>2 DEF Parse, IsResult, Output
<1>4. ResultWritten /\ ~IsResult(Head(stdout)) => ResultWritten'
  <2> SUFFICES ASSUME NEW i \in 1..Len(stdout), IsResult(stdout[i]), ~IsResult(Head(stdout))
               PROVE  ResultWritten'
    BY DEF ResultWritten
  <2>1. i # 1
    BY <1>2
  <2>2. i - 1 \in 1..Len(stdout') /\ stdout'[i - 1] = stdout[i]
    BY <1>2, <2>1
  <2> QED
    BY <2>2 DEF ResultWritten, IsResult
<1>5. /\ Waits' <=> Waits
      /\ Occurs("user_message", stdin)' <=> Occurs("user_message", stdin)
  BY <1>1 DEF Waits, Occurs
<1> QED
  BY <1>1, <1>2, <1>3, <1>4, <1>5 DEF ChatInv, ChatTypes, PlainTurns, ClickedFirst, TurnOwed

LEMMA ChatStays ==
  ASSUME ChatInv, ChatNext
  PROVE  ChatInv'
BY SendMessageStays, SendToolResultStays, ClicksStay, AdapterReadsStays, AdapterStreamsStays,
   ParserReadsStays DEF ChatNext

\* While the chat shows 'running' something is owed that will end it, and
\* plain turns write one result each (claude-chat/adapter/index.js:318).
THEOREM ChatTurnsAreOwed == AgentsSpec => [](subject = "chat" => TurnsAreOwed)
<1>1. AgentsInit => ChatInv
  BY ChatInitial DEF AgentsInit
<1>2. ChatInv /\ [AgentsNext]_agentsVars => ChatInv'
  <2> SUFFICES ASSUME ChatInv, [AgentsNext]_agentsVars
               PROVE  ChatInv'
    OBVIOUS
  <2>1. CASE ChatStep
    BY <2>1, ChatStays DEF ChatStep
  <2>2. CASE OpStep \/ NodeStep \/ HostStep \/ ProviderStep
    BY <2>2, ChatUnchanged DEF OpStep, NodeStep, HostStep, ProviderStep
  <2>3. CASE UNCHANGED agentsVars
    BY <2>3, ChatUnchanged DEF agentsVars
  <2> QED
    BY <2>1, <2>2, <2>3 DEF AgentsNext
<1>3. ChatInv => (subject = "chat" => TurnsAreOwed)
  <2> SUFFICES ASSUME ChatInv, subject = "chat"
               PROVE  ResultsBalanced /\ RunningIsOwed
    BY DEF TurnsAreOwed
  <2>1. ResultsBalanced
    BY DEF ChatInv, PlainTurns, ResultsBalanced
  <2>2. RunningIsOwed
    BY DEF ChatInv, TurnOwed, RunningIsOwed, Waits, ResultWritten
  <2> QED
    BY <2>1, <2>2
<1> QED
  BY <1>1, <1>2, <1>3, PTL DEF AgentsSpec
-----------------------------------------------------------------------------
(***************************************************************************)
(* Which node a call of the page reaches (MeshRouting).                    *)
(* PanelShowsNodeAsked is not inductive: it needs that a panel's call in   *)
(* flight is sent to the node it asks about, which Follow establishes by   *)
(* setting the target before the panel renders again (PanelRouted).        *)
(***************************************************************************)
\* A panel's call in flight goes to the node the panel asks about.
PanelRouted == \A c \in calls : c.for = "panel" => c.asked # NoNode /\ c.to = c.asked

\* The inductive invariant: the provider's state, which the panels follow one
\* render later, and the client's target change together.
RoutingInv ==
  /\ TargetFollowsEntered /\ activeNode = entered
  /\ PanelRouted /\ PanelShowsNodeAsked

\* The emptied network view, and no node, are of their types.
LEMMA NoViewTyped ==
  /\ NoView \in [local: Maybe, nodes: SUBSET Nodes, peers: SUBSET Nodes, error: BOOLEAN]
  /\ NoNode \in Maybe
  BY DEF NoView, Maybe

\* The node bar without its peers is a node bar (node-bar.tsx:75).
LEMMA EmptiedBar ==
  ASSUME NEW b \in [local: Maybe, peers: SUBSET Nodes]
  PROVE  [b EXCEPT !.peers = {}] \in [local: Maybe, peers: SUBSET Nodes]
  OBVIOUS

\* What a lost link or a new client resets keeps its type.
LEMMA UnlinkedTypes ==
  ASSUME RoutingTypes, Unlinked(calls)
  PROVE  /\ linked' = FALSE
         /\ view' \in [local: Maybe, nodes: SUBSET Nodes, peers: SUBSET Nodes, error: BOOLEAN]
         /\ calls' \subseteq Call /\ bar' \in [local: Maybe, peers: SUBSET Nodes]
<1>1. calls' \subseteq Call
  BY DEF RoutingTypes, Unlinked
<1>2. bar \in [local: Maybe, peers: SUBSET Nodes] /\ bar' = [bar EXCEPT !.peers = {}]
  BY DEF RoutingTypes, Unlinked
<1>3. QED
  BY <1>1, <1>2, EmptiedBar, NoViewTyped, Zenon DEF Unlinked

\* A page that starts is type correct.
LEMMA RoutingTypesInit == RoutingInit => RoutingTypes
<1> SUFFICES ASSUME RoutingInit PROVE RoutingTypes
  OBVIOUS
<1>1. bar \in [local: Maybe, peers: SUBSET Nodes]
  BY DEF RoutingInit, NoBar, Maybe
<1>2. status \in Listed
  BY DEF RoutingInit, Listed, Nodes, States
<1>3. moves \in 0..MaxMoves /\ faults \in 0..MaxFaults
  BY MeshBounds DEF RoutingInit
<1>4. QED
  <2>1. panel \in [of: Maybe, asked: Maybe]
    BY DEF RoutingInit, NoPanel, Maybe
  <2>2. {entered, target, activeNode, rendered, localId, info} \subseteq Maybe
    BY DEF RoutingInit, Maybe
  <2> QED
    BY <1>1, <1>2, <1>3, <2>1, <2>2, NoViewTyped DEF RoutingInit, RoutingTypes

\* What _callAs sends is a call (core-client.ts, _callAs).
LEMMA AskedIsCall ==
  ASSUME NEW for \in {"info", "panel", "identity", "barId", "barList", "view"},
         NEW who \in Maybe, NEW to \in Maybe, NEW lid \in Maybe
  PROVE  /\ [for |-> for, to |-> to, asked |-> who, lid |-> lid] \in Call
         /\ target \in Maybe => Ask(for, who) \in Call
  BY DEF Call, Ask, Maybe

\* What the effect of a panel sends are calls (extension-panels.tsx:15).
LEMMA PanelAsksCalls ==
  ASSUME RoutingTypes
  PROVE  PanelAsks \subseteq Call /\ PanelRenders \subseteq Call
<1>1. Ask("panel", activeNode) \in Call
  BY AskedIsCall DEF RoutingTypes
<1>2. QED
  BY <1>1 DEF PanelAsks, PanelRenders

\* The effects of a change of the node entered keep the types.
LEMMA FollowTypes ==
  ASSUME RoutingTypes, NEW n \in Maybe, Follow(n)
  PROVE  /\ {entered', target', activeNode', rendered'} \subseteq Maybe
         /\ calls' \subseteq Call /\ dismissed' \subseteq Nodes
<1>1. calls \subseteq Call /\ dismissed \subseteq Nodes /\ activeNode \in Maybe
  BY DEF RoutingTypes
<1>2. Ask("info", n) \in Call /\ PanelRenders \subseteq Call
  BY AskedIsCall, PanelAsksCalls DEF RoutingTypes
<1>3. calls' \subseteq Call
  BY <1>1, <1>2 DEF Follow
<1>4. QED
  BY <1>1, <1>3 DEF Follow, SetActiveNode

\* A call is answered by a node of the mesh or the local one.
LEMMA AnswererIsNode ==
  ASSUME NEW c \in Call
  PROVE  Answerer(c) \in Nodes
  BY DEF Answerer, Call, Maybe, Nodes

\* Every step keeps the types.
LEMMA RoutingTypesStep == RoutingTypes /\ [Next]_vars => RoutingTypes'
<1> SUFFICES ASSUME RoutingTypes, [Next]_vars PROVE RoutingTypes'
  OBVIOUS
<1> USE MeshBounds
<1>1. ASSUME NEW n \in Nodes, EnterNode(n) PROVE RoutingTypes'
  <2>1. (IF n = entered THEN NoNode ELSE n) \in Maybe
    BY DEF Maybe
  <2>2. QED
    BY <1>1, <2>1, FollowTypes DEF EnterNode, Move, Stay, RoutingTypes, coreVars, identityVars
<1>2. ASSUME NEW n \in Nodes, Dismiss(n) PROVE RoutingTypes'
  BY <1>2 DEF Dismiss, Move, Stay, renderVars, RoutingTypes, coreVars, identityVars
<1>3. CASE GoToConsole
  <2>1. NoNode \in Maybe
    BY DEF Maybe
  <2>2. QED
    BY <1>3, <2>1, FollowTypes DEF GoToConsole, Move, Stay, RoutingTypes, coreVars, identityVars
<1>4. CASE LinkUp
  <2>1. NoNode \in Maybe
    BY DEF Maybe
  <2>2. QED
    BY <1>4, <2>1, AskedIsCall DEF LinkUp, Stay, renderVars, RoutingTypes, coreVars, identityVars
<1>5. CASE LinkDown
  <2>1. /\ linked' = FALSE
        /\ view' \in [local: Maybe, nodes: SUBSET Nodes, peers: SUBSET Nodes, error: BOOLEAN]
        /\ calls' \subseteq Call /\ bar' \in [local: Maybe, peers: SUBSET Nodes]
    BY <1>5, UnlinkedTypes DEF LinkDown
  <2>2. /\ {entered, target, activeNode, rendered, localId, info}' \subseteq Maybe
        /\ panel' \in [of: Maybe, asked: Maybe]
    BY <1>5 DEF LinkDown, RoutingTypes, clientVars, renderVars, identityVars
  <2>3. faults' \in 0..MaxFaults /\ moves' \in 0..MaxMoves
    BY <1>5 DEF LinkDown, RoutingTypes, Fault
  <2>4. /\ dismissed' \subseteq Nodes /\ reach' \subseteq Remote /\ status' \in Listed
        /\ trusted' \subseteq Remote /\ up' \subseteq Remote /\ idDue' \in BOOLEAN
    BY <1>5 DEF LinkDown, RoutingTypes, clientVars, renderVars, coreVars, identityVars
  <2>5. QED
    BY <2>1, <2>2, <2>3, <2>4 DEF RoutingTypes
<1>6. CASE Reconnect
  <2>1. /\ linked' = FALSE
        /\ view' \in [local: Maybe, nodes: SUBSET Nodes, peers: SUBSET Nodes, error: BOOLEAN]
        /\ calls' \subseteq Call /\ bar' \in [local: Maybe, peers: SUBSET Nodes]
    BY <1>6, UnlinkedTypes DEF Reconnect
  <2>2. status' \in Listed
    BY <1>6 DEF Reconnect, Listed, States, Nodes
  <2>3. /\ {entered, target, activeNode, rendered, localId, info}' \subseteq Maybe
        /\ panel' \in [of: Maybe, asked: Maybe]
    BY <1>6 DEF Reconnect, NewTarget, RoutingTypes
  <2>4. faults' \in 0..MaxFaults /\ moves' \in 0..MaxMoves
    BY <1>6 DEF Reconnect, RoutingTypes, Fault
  <2>5. /\ dismissed' \subseteq Nodes /\ reach' \subseteq Remote
        /\ trusted' \subseteq Remote /\ up' \subseteq Remote /\ idDue' \in BOOLEAN
    BY <1>6 DEF Reconnect, RoutingTypes, coreVars
  <2>6. QED
    BY <2>1, <2>2, <2>3, <2>4, <2>5 DEF RoutingTypes
<1>7. CASE IdentityTimerFires
  <2>1. NoNode \in Maybe
    BY DEF Maybe
  <2>2. QED
    BY <1>7, <2>1, AskedIsCall DEF IdentityTimerFires, RoutingTypes, clientVars, renderVars, coreVars
<1>8. ASSUME NEW c \in calls, Answer(c) PROVE RoutingTypes'
  <2> c \in Call
    BY DEF RoutingTypes
  <2>1. Answerer(c) \in Nodes /\ Answerer(c) \in Maybe
    BY AnswererIsNode DEF Maybe
  <2>2. List(Answerer(c)) \subseteq Nodes /\ trusted \subseteq Nodes
    BY <2>1 DEF List, RoutingTypes, Nodes
  <2>3. CASE InfoAnswered(c)
    BY <2>3, <2>1 DEF InfoAnswered, AnswerStay, RoutingTypes, renderVars, coreVars
  <2>4. CASE PanelAnswered(c)
    <3>1. c.asked \in Maybe
      BY DEF Call
    <3>2. QED
      BY <2>4, <2>1, <3>1 DEF PanelAnswered, AnswerStay, RoutingTypes, renderVars, coreVars
  <2>5. CASE IdentityAnswered(c)
    BY <2>5, <2>1 DEF IdentityAnswered, AnswerStay, RoutingTypes, renderVars, coreVars
  <2>6. CASE ViewAnswered(c)
    BY <2>6, <2>1, <2>2 DEF ViewAnswered, AnswerStay, RoutingTypes, renderVars, coreVars
  <2>7. ASSUME NEW lid \in Maybe, BarIdentified(c, lid) PROVE RoutingTypes'
    <3>1. [Ask("barList", NoNode) EXCEPT !.lid = lid] \in Call
      BY DEF Ask, Call, RoutingTypes, Maybe
    <3>2. QED
      BY <2>7, <3>1 DEF BarIdentified, AnswerStay, RoutingTypes, renderVars, coreVars
  <2>8. CASE BarListed(c)
    <3>1. Peers(Answerer(c), c.lid) \subseteq Nodes
      BY <2>2 DEF Peers
    <3>2. ListedStatus(Peers(Answerer(c), c.lid)) \in Listed
      BY DEF ListedStatus, StateOf, Listed, States, RoutingTypes, Nodes
    <3>3. QED
      BY <2>8, <3>1, <3>2 DEF BarListed, AnswerStay, RoutingTypes, renderVars, coreVars
  <2>9. CASE CallFails(c)
    BY <2>9 DEF CallFails, AnswerStay, RoutingTypes, renderVars, coreVars
  <2>10. QED
    BY <1>8, <2>3, <2>4, <2>5, <2>6, <2>7, <2>8, <2>9 DEF Answer
<1>9. CASE PollTimerFires
  <2>1. NoNode \in Maybe
    BY DEF Maybe
  <2>2. QED
    BY <1>9, <2>1, AskedIsCall DEF PollTimerFires, Stay, renderVars, RoutingTypes, coreVars, identityVars
<1>10. CASE RetryView
  <2>1. NoNode \in Maybe
    BY DEF Maybe
  <2>2. QED
    BY <1>10, <2>1, AskedIsCall DEF RetryView, RoutingTypes, clientVars, renderVars, identityVars, coreVars
<1>11. ASSUME NEW n \in Remote, MeshChanges(n) PROVE RoutingTypes'
  BY <1>11 DEF MeshChanges, Fault, RoutingTypes, clientVars, renderVars, identityVars
<1>12. ASSUME NEW n \in Remote, AcceptInvite(n) PROVE RoutingTypes'
  <2>1. NoNode \in Maybe
    BY DEF Maybe
  <2>2. QED
    <3>1. moves' \in 0..MaxMoves /\ trusted' \subseteq Remote
      BY <1>12, MeshBounds DEF AcceptInvite, Move, RoutingTypes
    <3>2. calls' \subseteq Call
      BY <1>12, <2>1, AskedIsCall DEF AcceptInvite, RoutingTypes
    <3> QED
      BY <1>12, <3>1, <3>2 DEF AcceptInvite, RoutingTypes, clientVars, renderVars, identityVars
<1>13. ASSUME NEW n \in Remote, NodeEvent(n) PROVE RoutingTypes'
  BY <1>13 DEF NodeEvent, StateOf, RoutingTypes, renderVars, identityVars, coreVars, Listed, States
<1>14. CASE UNCHANGED vars
  BY <1>14 DEF vars, clientVars, renderVars, identityVars, coreVars, RoutingTypes
<1>15. CASE ProviderRenders
  <2>1. calls' \subseteq Call
    BY <1>15, PanelAsksCalls DEF ProviderRenders, RoutingTypes
  <2>2. QED
    BY <1>15, <2>1 DEF ProviderRenders, Stay, RoutingTypes, coreVars, identityVars
<1>16. CASE OpenPanel
  <2>1. calls' \subseteq Call
    BY <1>16, PanelAsksCalls DEF OpenPanel, Without, RoutingTypes
  <2>2. panel' \in [of: Maybe, asked: Maybe]
    BY <1>16 DEF OpenPanel, NoPanel, Maybe
  <2>3. QED
    BY <1>16, <2>1, <2>2 DEF OpenPanel, Move, RoutingTypes, clientVars, coreVars, identityVars
<1>17. QED
  BY <1>1, <1>2, <1>3, <1>4, <1>5, <1>6, <1>7, <1>8, <1>9, <1>10, <1>11, <1>12, <1>13, <1>14, <1>15, <1>16
  DEF Next

\* The type invariant of the page's routing.
THEOREM RoutingTypesCorrect == Spec => []RoutingTypes
  BY RoutingTypesInit, RoutingTypesStep, PTL DEF Spec

\* The effect of a panel asks for activeNodeId the node it reaches: the target
\* is the client's when the effect runs (extension-panels.tsx:15).
LEMMA PanelAsksRouted ==
  ASSUME RoutingInv, NEW c \in PanelAsks \cup PanelRenders
  PROVE  c.for = "panel" /\ c.asked # NoNode /\ c.to = c.asked
  BY DEF RoutingInv, TargetFollowsEntered, PanelAsks, PanelRenders, Ask

\* The effects of a change of the node entered: what waits for a render is
\* asked with the old target, which the provider's state still agrees with
\* (use-console-controller.ts:213, core-client-provider.tsx:57).
LEMMA FollowRouted ==
  ASSUME RoutingInv, NEW n, Follow(n), UNCHANGED panel
  PROVE  RoutingInv'
<1>1. ASSUME NEW c \in calls', c.for = "panel" PROVE c.asked # NoNode /\ c.to = c.asked
  <2>1. CASE c \in calls
    BY <1>1, <2>1 DEF RoutingInv, PanelRouted
  <2>2. CASE c \in PanelRenders
    BY <2>2, PanelAsksRouted
  <2>3. c \in calls \/ c \in PanelRenders \/ c = Ask("info", n)
    BY <1>1 DEF Follow
  <2>4. QED
    BY <1>1, <2>1, <2>2, <2>3 DEF Ask
<1>2. QED
  BY <1>1 DEF RoutingInv, TargetFollowsEntered, PanelRouted, PanelShowsNodeAsked, Follow, SetActiveNode

\* Every step keeps the routing: an answer of a panel is the answerer's, who
\* is the node asked about because the call went there.
LEMMA RoutingStep == RoutingInv /\ [Next]_vars => RoutingInv'
<1> SUFFICES ASSUME RoutingInv, [Next]_vars PROVE RoutingInv'
  OBVIOUS
<1> USE DEF RoutingInv, TargetFollowsEntered, PanelRouted, PanelShowsNodeAsked
<1>1. ASSUME NEW n \in Nodes, EnterNode(n) PROVE RoutingInv'
  BY <1>1, FollowRouted DEF EnterNode, Stay
<1>2. ASSUME NEW n \in Nodes, Dismiss(n) PROVE RoutingInv'
  BY <1>2 DEF Dismiss, Stay, renderVars
<1>3. CASE GoToConsole
  BY <1>3, FollowRouted DEF GoToConsole, Stay
<1>4. CASE LinkUp
  BY <1>4 DEF LinkUp, Stay, Ask, renderVars
<1>5. CASE LinkDown
  BY <1>5 DEF LinkDown, Unlinked, clientVars, renderVars
<1>6. CASE Reconnect
  BY <1>6 DEF Reconnect, NewTarget, Unlinked
<1>7. CASE IdentityTimerFires
  BY <1>7 DEF IdentityTimerFires, Ask, clientVars, renderVars
<1>8. ASSUME NEW c \in calls, Answer(c) PROVE RoutingInv'
  <2>1. CASE InfoAnswered(c)
    BY <2>1 DEF InfoAnswered, AnswerStay, renderVars
  <2>2. CASE PanelAnswered(c)
    <3>1. Answerer(c) = c.asked
      BY <2>2 DEF PanelAnswered, Answerer
    <3>2. QED
      BY <2>2, <3>1 DEF PanelAnswered, AnswerStay, renderVars
  <2>3. CASE IdentityAnswered(c)
    BY <2>3 DEF IdentityAnswered, AnswerStay, renderVars
  <2>4. CASE ViewAnswered(c)
    BY <2>4 DEF ViewAnswered, AnswerStay, renderVars
  <2>5. ASSUME NEW lid \in Maybe, BarIdentified(c, lid) PROVE RoutingInv'
    BY <2>5 DEF BarIdentified, AnswerStay, Ask, renderVars
  <2>6. CASE BarListed(c)
    BY <2>6 DEF BarListed, AnswerStay, renderVars
  <2>7. CASE CallFails(c)
    BY <2>7 DEF CallFails, AnswerStay, renderVars
  <2>8. QED
    BY <1>8, <2>1, <2>2, <2>3, <2>4, <2>5, <2>6, <2>7 DEF Answer
<1>9. CASE PollTimerFires
  BY <1>9 DEF PollTimerFires, Stay, Ask, renderVars
<1>10. CASE RetryView
  BY <1>10 DEF RetryView, Ask, clientVars, renderVars
<1>11. ASSUME NEW n \in Remote, MeshChanges(n) PROVE RoutingInv'
  BY <1>11 DEF MeshChanges, clientVars, renderVars
<1>12. ASSUME NEW n \in Remote, AcceptInvite(n) PROVE RoutingInv'
  BY <1>12 DEF AcceptInvite, Ask, clientVars, renderVars
<1>13. ASSUME NEW n \in Remote, NodeEvent(n) PROVE RoutingInv'
  BY <1>13 DEF NodeEvent, renderVars
<1>14. CASE UNCHANGED vars
  BY <1>14 DEF vars, clientVars, renderVars
<1>15. CASE ProviderRenders
  <2>1. ASSUME NEW c \in calls', c.for = "panel" PROVE c.asked # NoNode /\ c.to = c.asked
    BY <1>15, <2>1, PanelAsksRouted DEF ProviderRenders
  <2>2. QED
    BY <1>15, <2>1 DEF ProviderRenders, Stay
<1>16. CASE OpenPanel
  <2>1. ASSUME NEW c \in calls', c.for = "panel" PROVE c.asked # NoNode /\ c.to = c.asked
    BY <1>16, <2>1, PanelAsksRouted DEF OpenPanel, Without
  <2>2. QED
    BY <1>16, <2>1 DEF OpenPanel, NoPanel, clientVars
<1>17. QED
  BY <1>1, <1>2, <1>3, <1>4, <1>5, <1>6, <1>7, <1>8, <1>9, <1>10, <1>11, <1>12, <1>13, <1>14, <1>15, <1>16
  DEF Next

\* The routing invariant of the page.
THEOREM RoutingCorrect == Spec => []RoutingInv
<1>1. RoutingInit => RoutingInv
  BY DEF RoutingInit, RoutingInv, TargetFollowsEntered, PanelRouted, PanelShowsNodeAsked, NoPanel
<1>2. QED
  BY <1>1, RoutingStep, PTL DEF Spec

\* The client routes to the node entered, after every move and new client
\* (use-console-controller.ts:213, core-client-provider.tsx:75).
THEOREM TargetFollowsEnteredCorrect == Spec => []TargetFollowsEntered
<1>1. RoutingInv => TargetFollowsEntered
  BY DEF RoutingInv
<1>2. QED
  BY <1>1, RoutingCorrect, PTL

\* A panel never shows another node's answer for the node it asked about, in
\* whatever order renders, moves, new clients and answers come
\* (extension-panels.tsx:15).
THEOREM PanelShowsNodeAskedCorrect == Spec => []PanelShowsNodeAsked
<1>1. RoutingInv => PanelShowsNodeAsked
  BY DEF RoutingInv
<1>2. QED
  BY <1>1, RoutingCorrect, PTL
=============================================================================
