----------------------------- MODULE ServerRoutes -----------------------------
(***************************************************************************)
(* The password and the sessions of the console: lib/auth/app-ui-auth.ts,  *)
(* the routes app/api/auth, the check of a session that the other routes   *)
(* make, the gate of proxy.ts, and the login and setup pages.              *)
(*                                                                         *)
(* A handler of the server is interrupted where it awaits the file system, *)
(* and goes on when the page that asked is gone.  A configuration is a     *)
(* password and a secret; a session is the secret it was signed with.      *)
(* Writing a file truncates it first.  The browser drops a cookie when the *)
(* session in it expires.                                                  *)
(*                                                                         *)
(* Installing what a plugin depends on: the dependency panel and the panel *)
(* of installed software (plugins/plugin-manager), useDependencyCheck      *)
(* (app/lib/use-dependency-check.ts), and the records that the routes      *)
(* install and installed keep (app/api/apps, app/lib/install-manager.ts).  *)
(*                                                                         *)
(* One dependency of one plugin, on several pages.  Core is external: it   *)
(* answers process.spawn when the install has started or when it ended,    *)
(* and env.which by whether the binary is there.  A handler of the server  *)
(* reads, changes and writes its file without interruption.                *)
(*                                                                         *)
(* Where the server finds Core and how it starts one: lib/core-target.ts,  *)
(* lib/server-state, the routes app/api/core/target, server-state, start,  *)
(* discover and health, and the connection section of the settings         *)
(* (app/console/settings/connection-section.tsx) on several pages.         *)
(*                                                                         *)
(* A target is a port of this machine; SESSIONBRIDGE_CORE_WS_URL is not    *)
(* set.  A handler of the server runs without interruption up to its       *)
(* await: reading, merging and renaming server-state.json is one step.     *)
(* Core processes are external: one that is spawned listens on 9090, or    *)
(* exits if that port is taken.  Every page has one event stream, to the   *)
(* target of the moment it was opened; the browser opens a stream that     *)
(* broke again.                                                            *)
(***************************************************************************)
EXTENDS Integers, Sequences, FiniteSets

CONSTANTS
  Users,      \* browsers, each with one page
  Handlers,   \* requests the server handles at a time
  Passwords,
  NoUser,
  MaxSecrets, \* bound: secrets made
  MaxCrashes, \* bound: restarts of the server and failed writes
  Panels,       \* pages with the plugin open
  MaxInstalls,  \* bound: installs started
  MaxVanish,     \* bound: times the binary is removed by other means
  Pages,
  Ports,      \* ports a Core may listen on
  CorePort,   \* 9090: the default target, and where a spawned Core listens
  NoPort,
  MaxSpawns,  \* bound: Core processes spawned
  MaxChanges  \* bound: ports applied, PUTs of a port, restarts and foreign Cores

VARIABLES
  authFile,  \* app-ui-auth.json
  authDir,   \* its directory exists
  secrets,   \* secrets made so far
  auth,      \* the requests
  cookie,    \* sessionbridge_view of each browser
  screen,    \* the page each browser shows
  crashes,
  overlapped, \* history: a setup passed its last check while another had not ended
  records,   \* install-history.json: the records of the dependency, oldest first
  entry,     \* installed-apps.json: its entry
  binary,    \* Core: the binary is there
  row,       \* DependencyPanel: its row offers to install, or says "Installing..."
  install,   \* handleInstall: the step it waits for, and its number
  verify,    \* InstalledSoftwarePanel: handleVerify
  outcome,   \* history: how each install ended, and if its success was not heard
  vanished,
  tangled,    \* history: an install was recorded while another was, or is still, to be
              \* reported, went on without a record, or was left by its page
  target,   \* _customTarget
  file,     \* server-state.json: lastCoreUrl
  cores,    \* state of each spawned process
  tracked,  \* coreProcess
  foreign,  \* ports where a Core listens that this server did not spawn
  page,     \* the connection section of each page, and its event stream
  changes,
  mover,    \* history: the page, if any, whose section changed the target last, got the
            \* answer, and was not left before it had reconnected
  unstored  \* history: the target in memory was last changed without the file, or vice versa

(* The sessions, the application list and the installs *)
(* The password and the sessions *)
authVars == <<authFile, authDir, secrets, auth, cookie, screen, crashes, overlapped>>

NoCookie == 0
Missing == [is |-> "missing", password |-> "", secret |-> 0]
Truncated == [is |-> "truncated", password |-> "", secret |-> 0]
Config == [is: {"config"}, password: Passwords, secret: 1..MaxSecrets]
NoRequest == [step |-> "none", from |-> NoUser, password |-> "", config |-> Missing,
              configured |-> FALSE]

Steps == {"status", "session", "setup", "create", "mkdir", "open", "write", "verify", "load"}
Screens == {"loginChecking", "login", "loginSending", "setupChecking", "setup", "setupSending", "console"}

AuthTypeOK ==
  /\ authFile \in {Missing, Truncated} \cup Config /\ authDir \in BOOLEAN
  /\ secrets \in 0..MaxSecrets /\ crashes \in 0..MaxCrashes
  /\ auth \in [Handlers -> [step: Steps \cup {"none"}, from: Users \cup {NoUser},
                            password: Passwords \cup {""}, config: {Missing} \cup Config,
                            configured: BOOLEAN]]
  /\ cookie \in [Users -> 0..MaxSecrets]
  /\ screen \in [Users -> Screens]

-----------------------------------------------------------------------------
\* isAuthConfigured; loadAuthConfig, which takes a truncated file for none
IsAuthConfigured == authFile # Missing
Loaded == IF authFile \in Config THEN authFile ELSE Missing

\* verifySessionFromCookie
Verified(c) == c # NoCookie /\ Loaded # Missing /\ c = Loaded.secret

At(h, step) == auth[h].step = step
To(h, step) == auth' = [auth EXCEPT ![h].step = step]

\* The answer to request h: the page that asked, if it is there, shows next.
Reply(h, next) ==
  /\ auth' = [auth EXCEPT ![h] = NoRequest]
  /\ screen' = IF auth[h].from = NoUser THEN screen ELSE [screen EXCEPT ![auth[h].from] = next]

\* ... with a session
ReplySession(h, secret) ==
  /\ Reply(h, "console")
  /\ cookie' = IF auth[h].from = NoUser THEN cookie ELSE [cookie EXCEPT ![auth[h].from] = secret]

FileKept == UNCHANGED <<authFile, authDir, secrets, overlapped>>
PagesKept == UNCHANGED <<cookie, screen>>

-----------------------------------------------------------------------------
\* The browser of b goes to another address: what was asked is not heard.
Left(b) == [h \in Handlers |-> IF auth[h].from = b THEN [auth[h] EXCEPT !.from = NoUser] ELSE auth[h]]

VisitForm(b, checking) ==
  /\ screen' = [screen EXCEPT ![b] = checking]
  /\ \E h \in Handlers :
       /\ auth[h] = NoRequest
       /\ auth' = [Left(b) EXCEPT ![h] = [NoRequest EXCEPT !.step = "status", !.from = b]]
  /\ FileKept /\ UNCHANGED <<cookie, crashes>>

\* LoginPage and SetupPage ask for the status first.
VisitLogin(b) == VisitForm(b, "loginChecking")
VisitSetup(b) == VisitForm(b, "setupChecking")

\* The gate of proxy.ts: without a cookie the console is the login page.
VisitConsole(b) ==
  \/ cookie[b] = NoCookie /\ VisitLogin(b)
  \/ /\ cookie[b] # NoCookie /\ screen' = [screen EXCEPT ![b] = "console"]
     /\ auth' = Left(b) /\ FileKept /\ UNCHANGED <<cookie, crashes>>

Submit(b, form, sending, step, password) ==
  /\ screen[b] = form /\ screen' = [screen EXCEPT ![b] = sending]
  /\ \E h \in Handlers :
       /\ auth[h] = NoRequest
       /\ auth' = [auth EXCEPT ![h] =
            [NoRequest EXCEPT !.step = step, !.from = b, !.password = password]]
  /\ FileKept /\ UNCHANGED <<cookie, crashes>>

SubmitLogin(b, password) == Submit(b, "login", "loginSending", "verify", password)
SubmitSetup(b, password) == Submit(b, "setup", "setupSending", "setup", password)

\* POST /api/auth/logout, by whatever calls it; and the end of a session
Logout(b) ==
  /\ cookie[b] # NoCookie /\ cookie' = [cookie EXCEPT ![b] = NoCookie]
  /\ FileKept /\ UNCHANGED <<auth, screen, crashes>>

-----------------------------------------------------------------------------
\* GET /api/auth/status
StatusConfigured(h) ==
  /\ At(h, "status")
  /\ auth' = [auth EXCEPT ![h].step = "session", ![h].configured = IsAuthConfigured]
  /\ FileKept /\ PagesKept /\ UNCHANGED crashes

StatusAnswered(h) ==
  /\ At(h, "session")
  /\ LET b == auth[h].from
     IN Reply(h, IF ~auth[h].configured THEN "setup"
                 ELSE IF b # NoUser /\ screen[b] = "loginChecking" /\ Verified(cookie[b])
                   THEN "console" ELSE "login")
  /\ FileKept /\ UNCHANGED <<cookie, crashes>>

\* POST /api/auth/setup: 409 if there is a configuration ...
SetupChecks(h) ==
  /\ At(h, "setup")
  /\ IF IsAuthConfigured THEN Reply(h, "setup") ELSE To(h, "create") /\ UNCHANGED screen
  /\ FileKept /\ UNCHANGED <<cookie, crashes>>

\* Mutant: only the route checks.
RefusedUnchecked == FALSE

\* createAuthConfig without force checks again.
Refused == IsAuthConfigured

\* ... then createAuthConfig: a new configuration, and the directory
Creating(h) ==
  /\ At(h, "create") /\ secrets < MaxSecrets
  /\ IF Refused
       THEN Reply(h, "setup") /\ UNCHANGED <<secrets, overlapped>>
       ELSE /\ secrets' = secrets + 1
            /\ auth' = [auth EXCEPT ![h].step = IF authDir THEN "open" ELSE "mkdir",
                                    ![h].config = [is |-> "config", password |-> auth[h].password,
                                                   secret |-> secrets + 1]]
            /\ overlapped' = (overlapped \/ \E g \in Handlers : auth[g].step \in {"mkdir", "open", "write"})
            /\ UNCHANGED screen
  /\ UNCHANGED <<authFile, authDir, cookie, crashes>>

MakesDir(h) ==
  /\ At(h, "mkdir") /\ authDir' = TRUE /\ To(h, "open")
  /\ PagesKept /\ UNCHANGED <<authFile, secrets, crashes, overlapped>>

OpensFile(h) ==
  /\ At(h, "open") /\ authFile' = Truncated /\ To(h, "write")
  /\ PagesKept /\ UNCHANGED <<authDir, secrets, crashes, overlapped>>

WritesFile(h) ==
  /\ At(h, "write") /\ authFile' = auth[h].config
  /\ ReplySession(h, auth[h].config.secret)
  /\ UNCHANGED <<authDir, secrets, crashes, overlapped>>

WriteFails(h) ==
  /\ At(h, "write") /\ crashes < MaxCrashes /\ crashes' = crashes + 1
  /\ Reply(h, "setup") /\ FileKept /\ UNCHANGED cookie

\* POST /api/auth/login: verifyPassword loads the configuration ...
VerifiesPassword(h) ==
  /\ At(h, "verify")
  /\ IF Loaded # Missing /\ Loaded.password = auth[h].password
       THEN To(h, "load") /\ UNCHANGED screen ELSE Reply(h, "login")
  /\ FileKept /\ UNCHANGED <<cookie, crashes>>

\* ... and the route loads it again to sign a session.
SignsSession(h) ==
  /\ At(h, "load")
  /\ IF Loaded # Missing THEN ReplySession(h, Loaded.secret)
                         ELSE Reply(h, "login") /\ UNCHANGED cookie
  /\ FileKept /\ UNCHANGED crashes

\* The server stops and starts: what it handled is lost, a file being written
\* stays truncated, the pages report a network error.
ServerRestarts ==
  /\ crashes < MaxCrashes /\ crashes' = crashes + 1
  /\ auth' = [h \in Handlers |-> NoRequest]
  /\ screen' = [b \in Users |->
       CASE screen[b] \in {"loginChecking", "loginSending"} -> "login"
         [] screen[b] \in {"setupChecking", "setupSending"} -> "setup"
         [] OTHER -> screen[b]]
  /\ FileKept /\ UNCHANGED cookie

-----------------------------------------------------------------------------
AuthInit ==
  /\ authFile = Missing /\ authDir \in BOOLEAN /\ secrets = 0
  /\ auth = [h \in Handlers |-> NoRequest]
  /\ cookie = [b \in Users |-> NoCookie]
  /\ screen = [b \in Users |-> "login"]
  /\ crashes = 0 /\ overlapped = FALSE

AuthNext ==
  \/ \E b \in Users :
       \/ VisitLogin(b) \/ VisitSetup(b) \/ VisitConsole(b) \/ Logout(b)
       \/ \E password \in Passwords : SubmitLogin(b, password) \/ SubmitSetup(b, password)
  \/ \E h \in Handlers :
       \/ StatusConfigured(h) \/ StatusAnswered(h)
       \/ SetupChecks(h) \/ Creating(h) \/ MakesDir(h) \/ OpensFile(h) \/ WritesFile(h)
       \/ WriteFails(h) \/ VerifiesPassword(h) \/ SignsSession(h)
  \/ ServerRestarts

-----------------------------------------------------------------------------
\* A session that setup or login has given is accepted as long as the browser
\* keeps it, unless two first setups overlapped: the first one wins
\* (app/api/auth/setup/route.ts:23, app-ui-auth.ts:136).
SessionsHold ==
  ~overlapped => \A b \in Users : cookie[b] # NoCookie => Verified(cookie[b])

-----------------------------------------------------------------------------
(* Installs *)
installVars == <<records, entry, binary, row, install, verify, outcome, vanished, tangled>>

Attempts == 1..MaxInstalls
Record == [status: {"running", "success", "failed"}, of: Attempts]
Entry == [is: BOOLEAN, stale: BOOLEAN, version: BOOLEAN]
NoEntry == [is |-> FALSE, stale |-> FALSE, version |-> FALSE]
NoRow == [offered |-> FALSE, installing |-> FALSE]
NoInstall == [step |-> "none", of |-> 0, found |-> FALSE]

InstallsTypeOK ==
  /\ Len(records) <= MaxInstalls /\ \A i \in DOMAIN records : records[i] \in Record
  /\ entry \in Entry /\ binary \in BOOLEAN /\ tangled \in BOOLEAN
  /\ row \in [Panels -> [offered: BOOLEAN, installing: BOOLEAN]]
  /\ install \in [Panels -> [step: {"none", "record", "spawn", "success", "which", "put",
                                    "recheck", "failed"},
                             of: 0..MaxInstalls, found: BOOLEAN]]
  /\ verify \in [Panels -> {"no", "asked", "found", "gone"}]
  /\ outcome \in [Attempts -> {"none", "running", "success", "unheard", "failed"}]

AtStep(p, step) == install[p].step = step
ToStep(p, step) == install' = [install EXCEPT ![p].step = step]
StoreKept == UNCHANGED <<records, entry, tangled>>
CoreKept == UNCHANGED <<binary, vanished>>

-----------------------------------------------------------------------------
\* runChecks, by the Check button and at the end of an install, shows what
\* env.which has answered.  The row of a dependency stays, and what it says with
\* it.
Checked(p) ==
  /\ row' = [row EXCEPT ![p].offered = ~binary]
  /\ StoreKept /\ CoreKept /\ UNCHANGED <<install, verify, outcome>>

\* The Install button
StartInstall(p) ==
  /\ row[p].offered /\ ~row[p].installing /\ AtStep(p, "none")
  /\ \E a \in Attempts :
       /\ outcome[a] = "none" /\ \A b \in 1..(a - 1) : outcome[b] # "none"
       /\ install' = [install EXCEPT ![p] = [step |-> "record", of |-> a, found |-> FALSE]]
       /\ outcome' = [outcome EXCEPT ![a] = "running"]
  /\ row' = [row EXCEPT ![p].installing = TRUE]
  /\ StoreKept /\ CoreKept /\ UNCHANGED verify

\* An install is to be reported, or a record was left running.
Overlaps ==
  \/ \E i \in DOMAIN records : records[i].status = "running"
  \/ \E p \in Panels : install[p].step \in {"success", "failed"}

\* createInstallRecord.  The request may not reach the route, or be refused or
\* fail in it; an answer of any status lets the install go on, with or without
\* a record, and none at all makes it fail.
Recorded(p, reached, heard) ==
  /\ AtStep(p, "record")
  /\ records' = IF reached THEN Append(records, [status |-> "running", of |-> install[p].of]) ELSE records
  /\ tangled' = (tangled \/ ~reached \/ Overlaps)
  /\ ToStep(p, IF heard THEN "spawn" ELSE "failed")
  /\ outcome' = IF heard THEN outcome ELSE [outcome EXCEPT ![install[p].of] = "failed"]
  /\ CoreKept /\ UNCHANGED <<entry, row, verify>>

\* The answer to process.spawn, or its failure; the binary may be there then.
Spawned(p, ok) ==
  /\ AtStep(p, "spawn")
  /\ outcome' = [outcome EXCEPT ![install[p].of] = IF ok THEN "success" ELSE "failed"]
  /\ binary' \in {binary, TRUE}
  /\ ToStep(p, IF ok THEN "success" ELSE "failed")
  /\ StoreKept /\ UNCHANGED <<vanished, row, verify>>

\* Mutant: every record that is running.
ReportedAll == {i \in DOMAIN records : records[i].status = "running"}

\* The record a status is for: the first one that is running
Reported ==
  {i \in DOMAIN records : /\ records[i].status = "running"
                          /\ \A j \in 1..(i - 1) : records[j].status # "running"}

\* updateInstallRecord, or 404
Report(status) ==
  records' = [i \in DOMAIN records |-> IF i \in Reported THEN [records[i] EXCEPT !.status = status]
                                       ELSE records[i]]

\* A status may fail to reach the record, too.
Reports(status, reached) == IF reached THEN Report(status) ELSE UNCHANGED records

\* The success is reported; without an answer the catch reports a failure.
Succeeded(p, reached, heard) ==
  /\ AtStep(p, "success") /\ Reports("success", reached)
  /\ ToStep(p, IF heard THEN "which" ELSE "failed")
  /\ outcome' = IF heard THEN outcome ELSE [outcome EXCEPT ![install[p].of] = "unheard"]
  /\ CoreKept /\ UNCHANGED <<entry, tangled, row, verify>>

\* The row keeps saying "Installing...".
Failed(p, reached) ==
  /\ AtStep(p, "failed") /\ Reports("failed", reached) /\ install' = [install EXCEPT ![p] = NoInstall]
  /\ CoreKept /\ UNCHANGED <<entry, tangled, row, verify, outcome>>

\* env.which after an install: the entry is written whatever it says; not
\* if Core does not answer.
Which(p) ==
  /\ AtStep(p, "which")
  /\ \E step \in {"put", "recheck"} :
       install' = [install EXCEPT ![p].step = step, ![p].found = binary]
  /\ StoreKept /\ CoreKept /\ UNCHANGED <<row, verify, outcome>>

\* PUT of the route installed: an entry of the dependency is updated, and
\* keeps what the body leaves out.
PutInstalled(p) ==
  /\ AtStep(p, "put")
  /\ entry' = [is |-> TRUE, stale |-> entry.stale, version |-> install[p].found]
  /\ ToStep(p, "recheck")
  /\ CoreKept /\ UNCHANGED <<records, tangled, row, verify, outcome>>

\* runChecks again ends the install.
Rechecks(p) ==
  /\ AtStep(p, "recheck") /\ install' = [install EXCEPT ![p] = NoInstall]
  /\ StoreKept /\ CoreKept /\ UNCHANGED <<row, verify, outcome>>

-----------------------------------------------------------------------------
\* handleVerify
Verify(p) ==
  /\ entry.is /\ verify[p] = "no" /\ verify' = [verify EXCEPT ![p] = "asked"]
  /\ StoreKept /\ CoreKept /\ UNCHANGED <<row, install, outcome>>

VerifyAnswered(p) ==
  /\ verify[p] = "asked"
  /\ \E next \in {"no", IF binary THEN "found" ELSE "gone"} : verify' = [verify EXCEPT ![p] = next]
  /\ StoreKept /\ CoreKept /\ UNCHANGED <<row, install, outcome>>

PutVerified(p) ==
  /\ verify[p] \in {"found", "gone"} /\ verify' = [verify EXCEPT ![p] = "no"]
  /\ entry' = [is |-> TRUE, stale |-> verify[p] = "gone",
               version |-> entry.version \/ verify[p] = "found"]
  /\ CoreKept /\ UNCHANGED <<records, tangled, row, install, outcome>>

\* The page is reloaded: what it did ends, a record stays as it is.
Reload(p) ==
  /\ row' = [row EXCEPT ![p] = NoRow] /\ verify' = [verify EXCEPT ![p] = "no"]
  /\ install' = [install EXCEPT ![p] = NoInstall]
  /\ outcome' = IF AtStep(p, "none") \/ outcome[install[p].of] # "running" THEN outcome
                ELSE [outcome EXCEPT ![install[p].of] = "failed"]
  /\ tangled' = (tangled \/ ~AtStep(p, "none"))
  /\ CoreKept /\ UNCHANGED <<records, entry>>

BinaryRemoved ==
  /\ binary /\ vanished < MaxVanish /\ vanished' = vanished + 1 /\ binary' = FALSE
  /\ StoreKept /\ UNCHANGED <<row, install, verify, outcome>>

-----------------------------------------------------------------------------
InstallsInit ==
  /\ records = <<>> /\ entry = NoEntry /\ binary = FALSE
  /\ row = [p \in Panels |-> NoRow] /\ install = [p \in Panels |-> NoInstall]
  /\ verify = [p \in Panels |-> "no"]
  /\ outcome = [a \in Attempts |-> "none"] /\ vanished = 0 /\ tangled = FALSE

InstallsNext ==
  \/ \E p \in Panels :
       \/ Checked(p) \/ StartInstall(p)
       \/ (\E reached, heard \in BOOLEAN : Recorded(p, reached, heard) \/ Succeeded(p, reached, heard))
       \/ (\E ok \in BOOLEAN : Spawned(p, ok) \/ Failed(p, ok))
       \/ Which(p) \/ PutInstalled(p) \/ Rechecks(p)
       \/ Verify(p) \/ VerifyAnswered(p) \/ PutVerified(p) \/ Reload(p)
  \/ BinaryRemoved

-----------------------------------------------------------------------------
\* As many records say "success" as installs have succeeded, at most, whatever
\* requests are lost and however installs overlap (install-manager.ts:60).
SuccessesAreEarned ==
  Cardinality({i \in DOMAIN records : records[i].status = "success"})
    <= Cardinality({a \in Attempts : outcome[a] \in {"success", "unheard"}})

\* A record says of its own install what became of it, but for an install that
\* was recorded while another was to be reported, went on without a record or
\* was left by its page (app/api/apps/[appId]/install/route.ts:51), and but for a success
\* whose report was not answered: the catch reports a failure
\* (dependency-panel.tsx:140).
OutcomesAreTheirOwn ==
  ~tangled => \A i \in DOMAIN records :
    /\ records[i].status = "success" => outcome[records[i].of] \in {"success", "unheard"}
    /\ records[i].status = "failed" => outcome[records[i].of] \in {"failed", "unheard"}

-----------------------------------------------------------------------------
(* Core: its start, its address and its state *)
serverVars == <<target, file, tracked, unstored>>
worldVars == <<cores, foreign>>
coreServerVars == <<serverVars, worldVars, page, changes, mover>>

Cores == 1..MaxSpawns
NoCore == 0

\* getCoreWsUrl
Target == IF target # NoPort THEN target ELSE CorePort

Listening(port) == port \in foreign \/ (port = CorePort /\ \E c \in Cores : cores[c] = "listening")

\* starting: what its Start button waits for; probed: the port a start handler
\* probes; applies: the ports being applied, on their way to the server or back,
\* and whether the section that asked is still mounted; frame: the reconnect
\* waits for an animation frame.
Applying == [port: Ports, applied: BOOLEAN, heard: BOOLEAN]
Page == [open: BOOLEAN, stream: Ports,
         starting: {"no", "probing", "answered"}, probed: Ports \cup {NoPort},
         applies: SUBSET Applying, frame: BOOLEAN]

CoreServerTypeOK ==
  /\ target \in Ports \cup {NoPort} /\ file \in Ports \cup {NoPort}
  /\ cores \in [Cores -> {"unborn", "starting", "listening", "gone"}]
  /\ tracked \in Cores \cup {NoCore} /\ foreign \subseteq Ports
  /\ page \in [Pages -> Page]
  /\ mover \subseteq Pages
  /\ changes \in 0..MaxChanges /\ unstored \in BOOLEAN

Change == changes < MaxChanges /\ changes' = changes + 1
OnPage == UNCHANGED <<serverVars, worldVars, changes>>

\* A change of the target by page p has not led to its reconnect yet.
Unsettled(p) == page[p].frame \/ \E r \in page[p].applies : r.applied /\ r.heard

-----------------------------------------------------------------------------
\* The section is mounted.
OpenSettings(p) ==
  /\ ~page[p].open
  /\ page' = [page EXCEPT ![p].open = TRUE]
  /\ OnPage /\ UNCHANGED mover

\* It is unmounted: what is in flight goes on, and is not heard.
CloseSettings(p) ==
  /\ page[p].open
  /\ page' = [page EXCEPT ![p].open = FALSE, ![p].frame = FALSE,
                          ![p].applies = {[r EXCEPT !.heard = FALSE] : r \in @},
                          ![p].starting = IF @ = "answered" THEN "no" ELSE @]
  /\ mover' = IF Unsettled(p) THEN mover \ {p} ELSE mover
  /\ OnPage

\* applyLocalPort, of the port typed or found by a scan: nothing keeps it from
\* being called again before the answer.
Apply(p, port) ==
  /\ page[p].open /\ Change
  /\ page' = [page EXCEPT ![p].applies = @ \cup {[port |-> port, applied |-> FALSE, heard |-> TRUE]}]
  /\ UNCHANGED <<serverVars, worldVars, mover>>

\* Mutant: the port is kept in the file alone.
SetCoreTargetPortLater(port, written) ==
  /\ UNCHANGED target
  /\ file' = IF written THEN port ELSE file
  /\ unstored' = ~written

\* setCoreTargetPort: a file that cannot be written is no failure.
SetCoreTargetPort(port, written) ==
  /\ target' = port
  /\ file' = IF written THEN port ELSE file
  /\ unstored' = ~written

\* POST /api/core/target, in any order
TargetPosted(p, r) ==
  /\ ~r.applied /\ \E written \in BOOLEAN : SetCoreTargetPort(r.port, written)
  /\ page' = [page EXCEPT ![p].applies = (@ \ {r}) \cup {[r EXCEPT !.applied = TRUE]}]
  /\ mover' = IF r.heard THEN {p} ELSE {}
  /\ UNCHANGED <<worldVars, tracked, changes>>

\* The answer to it, in any order
TargetAnswered(p, r) ==
  /\ r.applied
  /\ page' = [page EXCEPT ![p].applies = @ \ {r}, ![p].frame = @ \/ r.heard]
  /\ OnPage /\ UNCHANGED mover

\* The request or its answer is lost: the section keeps its stream.
TargetLost(p, r) ==
  /\ page' = [page EXCEPT ![p].applies = @ \ {r}]
  /\ mover' = IF r.applied /\ r.heard THEN mover \ {p} ELSE mover
  /\ OnPage

\* Mutant: the section that has applied a port does not reconnect.
StreamStays(p) == page[p].stream

\* The stream of a page that reconnects goes to the target of the moment.
StreamAfter(p) == Target

\* The animation frame: the page reconnects.
FrameComes(p) ==
  /\ page[p].frame
  /\ page' = [page EXCEPT ![p].frame = FALSE, ![p].stream = StreamAfter(p)]
  /\ OnPage /\ UNCHANGED mover

\* The reconnect button; and the browser, when the Core of a stream is gone.
Reconnect(p) ==
  /\ page[p].stream # Target \/ ~Listening(page[p].stream)
  /\ page[p].open \/ ~Listening(page[p].stream)
  /\ page' = [page EXCEPT ![p].stream = Target]
  /\ OnPage /\ UNCHANGED mover

-----------------------------------------------------------------------------
\* handleStartCore stores the path of the binary; then POST /api/core/start
\* probes the target.
StartCore(p) ==
  /\ page[p].open /\ page[p].starting = "no"
  /\ page' = [page EXCEPT ![p].starting = "probing", ![p].probed = Target]
  /\ OnPage /\ UNCHANGED mover

\* A Core, or whatever serves the port, answers the probe.
ProbeAnswered(p) ==
  /\ page[p].starting = "probing" /\ Listening(page[p].probed)
  /\ page' = [page EXCEPT ![p].starting = "answered", ![p].probed = NoPort]
  /\ OnPage /\ UNCHANGED mover

Unborn == {c \in Cores : cores[c] = "unborn"}

\* No good answer comes within a second, from a Core that is slow or from
\* none: one is spawned on its own port, and tracked instead of an earlier one.
Spawn(p) ==
  /\ page[p].starting = "probing" /\ Unborn # {}
  /\ LET c == CHOOSE u \in Unborn : \A v \in Unborn : u <= v
     IN cores' = [cores EXCEPT ![c] = "starting"] /\ tracked' = c
  /\ page' = [page EXCEPT ![p].starting = "answered", ![p].probed = NoPort]
  /\ UNCHANGED <<target, file, unstored, foreign, changes, mover>>

\* The path is refused, the binary is missing, PM2 runs Core, spawn throws.
StartFails(p) ==
  /\ page[p].starting = "probing"
  /\ page' = [page EXCEPT ![p].starting = "no", ![p].probed = NoPort]
  /\ OnPage /\ UNCHANGED mover

\* The section, if it is mounted, reports the start and reconnects.
StartAnswered(p) ==
  /\ page[p].starting = "answered"
  /\ page' = [page EXCEPT ![p].starting = "no",
                          ![p].stream = IF page[p].open THEN Target ELSE @]
  /\ OnPage /\ UNCHANGED mover

-----------------------------------------------------------------------------
\* A spawned Core binds its port, exits because the port is taken, or dies.
CoreBinds(c) ==
  /\ cores[c] = "starting"
  /\ cores' = [cores EXCEPT ![c] = IF Listening(CorePort) THEN "gone" ELSE "listening"]
  /\ UNCHANGED <<serverVars, foreign, page, changes, mover>>

CoreDies(c) ==
  /\ cores[c] \in {"starting", "listening"} /\ Change
  /\ cores' = [cores EXCEPT ![c] = "gone"]
  /\ UNCHANGED <<serverVars, foreign, page, mover>>

\* A Core started by other means comes or goes.
ForeignCore(port) ==
  /\ Change
  /\ \/ port \in foreign /\ foreign' = foreign \ {port}
     \/ ~Listening(port) /\ foreign' = foreign \cup {port}
  /\ UNCHANGED <<serverVars, cores, page, mover>>

\* PUT /api/core/server-state with a port: the target in memory stays.
PutPort(port) ==
  /\ Change /\ file' = port /\ unstored' = TRUE
  /\ UNCHANGED <<target, tracked, worldVars, page, mover>>

\* Mutant: a server that starts forgets the target.
RestoredNothing == NoPort

\* restoreCoreTargetFromServerState
Restored == file

\* The server stops and starts: requests in flight fail, streams are opened
\* again, the Cores it has spawned live on.
RestartServer ==
  /\ Change
  /\ target' = Restored /\ unstored' = FALSE /\ tracked' = NoCore /\ UNCHANGED file
  /\ page' = [p \in Pages |->
       [page[p] EXCEPT !.starting = "no", !.probed = NoPort, !.applies = {},
                       !.stream = IF Restored # NoPort THEN Restored ELSE CorePort]]
  /\ UNCHANGED <<worldVars, mover>>

-----------------------------------------------------------------------------
CoreServerInit ==
  /\ file \in Ports \cup {NoPort} /\ target = file
  /\ cores = [c \in Cores |-> "unborn"] /\ tracked = NoCore
  /\ foreign = {}
  /\ page = [p \in Pages |->
       [open |-> FALSE, stream |-> Target, starting |-> "no", probed |-> NoPort,
        applies |-> {}, frame |-> FALSE]]
  /\ changes = 0 /\ mover = {} /\ unstored = FALSE

CoreServerNext ==
  \/ \E p \in Pages :
       \/ OpenSettings(p) \/ CloseSettings(p)
       \/ (\E port \in Ports : Apply(p, port))
       \/ (\E r \in page[p].applies : TargetPosted(p, r) \/ TargetAnswered(p, r) \/ TargetLost(p, r))
       \/ FrameComes(p) \/ Reconnect(p)
       \/ StartCore(p) \/ ProbeAnswered(p) \/ Spawn(p) \/ StartFails(p)
       \/ StartAnswered(p)
  \/ \E c \in Cores : CoreBinds(c) \/ CoreDies(c)
  \/ \E port \in Ports : ForeignCore(port) \/ PutPort(port)
  \/ RestartServer

-----------------------------------------------------------------------------
\* The page that changed the target last has its event stream where its calls
\* go, in whatever order its requests, those of other pages, their answers and
\* frames come, unless it left the settings before or the answer was lost
\* (connection-section.tsx:156).
StreamFollowsCalls ==
  \A p \in mover : ~Unsettled(p) => page[p].stream = Target

\* A restart keeps the target, unless memory and file were changed one without
\* the other (core-target.ts:33, server-state/route.ts:63).
TargetSurvivesRestart ==
  [][tracked' # tracked /\ tracked' = NoCore /\ ~unstored => Target' = Target]_coreServerVars
===============================================================================
