---------------------------- MODULE ServicesProofs ----------------------------
(***************************************************************************)
(* Proofs about MCServices: what servers keep and start for their pages.   *)
(* Each of its four parts has an inductive invariant of its own, and every *)
(* step is one of one part: the others stay as they are.                   *)
(*                                                                         *)
(* The sessions: a session given stays valid because one handler at a time *)
(* writes the configuration, before any browser has a session (OneWriter). *)
(* The target: the page that moved it last is still to reconnect, or is    *)
(* where its calls go; file and memory agree unless one was changed alone  *)
(* (Stored).                                                               *)
(* The installs: while an install has a status to report, the record that  *)
(* is running is its own (OwnRecord), and it reports its success once      *)
(* (ReportedOnce).                                                         *)
(* The runs of a page: a view serves one click at a time and knows the run *)
(* it stops (OneClick); the answer of run.list names runs that live, or    *)
(* whose end is noted (ListedLives).                                       *)
(***************************************************************************)
EXTENDS MCServices, FiniteSetTheorems, SequenceTheorems, TLAPS

(* The password and the sessions *)
\* A request of a browser to the routes of app/api/auth
Request == [step: Server!Steps \cup {"none"}, from: Users \cup {NoUser},
            password: Passwords \cup {""}, config: {Server!Missing} \cup Server!Config,
            configured: BOOLEAN]

\* The steps of createAuthConfig after its last check (app-ui-auth.ts:136)
WritingStep == {"mkdir", "open", "write"}

\* What a request carries by the step it is at
Entitled(r) ==
  /\ r.step \in {"setup", "create"} => r.password \in Passwords
  /\ r.step \in WritingStep => r.config \in Server!Config

AuthTyped ==
  /\ Server!AuthTypeOK
  /\ \A h \in Handlers : Entitled(auth[h])

\* Unless two setups overlapped, one handler writes the file at a time: while it
\* does the file is missing, then truncated, and no browser has a session yet;
\* afterwards every session is signed with the secret of the file.
OneWriter ==
  /\ \A g, h \in Handlers : auth[g].step \in WritingStep /\ auth[h].step \in WritingStep => g = h
  /\ \A h \in Handlers :
       /\ auth[h].step \in {"mkdir", "open"} => authFile = Server!Missing
       /\ auth[h].step = "write" => authFile = Server!Truncated
  /\ \A b \in Users : cookie[b] # Server!NoCookie =>
       authFile \in Server!Config /\ cookie[b] = authFile.secret

\* The inductive invariant of the sessions
AuthInv == AuthTyped /\ (~overlapped => OneWriter)

\* No configuration is a missing or a truncated file; a free handler asks nothing.
LEMMA AuthConstants ==
  /\ Server!NoRequest \in Request /\ Entitled(Server!NoRequest)
  /\ Server!NoRequest.step = "none"
  /\ \A c \in Server!Config : c # Server!Missing /\ c # Server!Truncated
  /\ Server!Missing # Server!Truncated
  /\ Server!Missing \notin Server!Config /\ Server!Truncated \notin Server!Config
<1>1. Server!NoRequest \in Request
  BY DEF Request, Server!NoRequest, Server!Missing, Server!Steps
<1>2. Entitled(Server!NoRequest) /\ Server!NoRequest.step = "none"
  BY DEF Entitled, Server!NoRequest, WritingStep
<1>3. \A c \in Server!Config : c.is = "config"
  BY DEF Server!Config
<1>4. Server!Missing.is = "missing" /\ Server!Truncated.is = "truncated"
  BY DEF Server!Missing, Server!Truncated
<1>5. QED
  BY <1>1, <1>2, <1>3, <1>4

\* The server starts without a configuration and without a session.
LEMMA AuthInitInv == Server!AuthInit => AuthInv
<1> SUFFICES ASSUME Server!AuthInit PROVE AuthInv
  OBVIOUS
<1>1. auth \in [Handlers -> Request] /\ \A h \in Handlers : Entitled(auth[h]) /\ auth[h].step = "none"
  BY AuthConstants DEF Server!AuthInit
<1>2. cookie \in [Users -> 0..MaxSecrets] /\ \A b \in Users : cookie[b] = Server!NoCookie
  BY ServicesBounds DEF Server!AuthInit, Server!NoCookie
<1>3. screen \in [Users -> Server!Screens]
  BY DEF Server!AuthInit, Server!Screens
<1>0. /\ authFile \in {Server!Missing, Server!Truncated} \cup Server!Config /\ authDir \in BOOLEAN
      /\ secrets \in 0..MaxSecrets /\ crashes \in 0..MaxCrashes
  BY ServicesBounds DEF Server!AuthInit
<1>4. Server!AuthTypeOK
  BY <1>0, <1>1, <1>2, <1>3 DEF Server!AuthTypeOK, Request
<1>5. OneWriter
  BY <1>1, <1>2 DEF OneWriter, WritingStep
<1>6. QED
  BY <1>1, <1>4, <1>5 DEF AuthInv, AuthTyped

\* A session is then the one that verifySessionFromCookie accepts.
LEMMA AuthHolds == AuthInv => Server!SessionsHold
<1> SUFFICES ASSUME AuthInv, ~overlapped, NEW b \in Users, cookie[b] # Server!NoCookie
             PROVE  Server!Verified(cookie[b])
  BY DEF Server!SessionsHold
<1>1. authFile \in Server!Config /\ cookie[b] = authFile.secret
  BY DEF AuthInv, OneWriter
<1>2. Server!Loaded = authFile /\ Server!Loaded # Server!Missing
  BY <1>1, AuthConstants DEF Server!Loaded
<1>3. QED
  BY <1>1, <1>2 DEF Server!Verified

\* A request whose step or page changes is a request.
LEMMA RequestUpdates ==
  ASSUME NEW r \in Request
  PROVE  /\ \A s \in Server!Steps : [r EXCEPT !.step = s] \in Request
         /\ [r EXCEPT !.from = NoUser] \in Request
         /\ \A x : [r EXCEPT !.step = x].step = x /\ [r EXCEPT !.step = x].password = r.password
               /\ [r EXCEPT !.step = x].config = r.config
         /\ [r EXCEPT !.from = NoUser].step = r.step /\ [r EXCEPT !.from = NoUser].password = r.password
         /\ [r EXCEPT !.from = NoUser].config = r.config
  BY DEF Request

\* The parts of the type
LEMMA AuthParts ==
  ASSUME AuthTyped
  PROVE  /\ auth \in [Handlers -> Request] /\ \A h \in Handlers : Entitled(auth[h])
         /\ screen \in [Users -> Server!Screens] /\ cookie \in [Users -> 0..MaxSecrets]
         /\ authFile \in {Server!Missing, Server!Truncated} \cup Server!Config
         /\ authDir \in BOOLEAN /\ secrets \in 0..MaxSecrets /\ crashes \in 0..MaxCrashes
  BY DEF AuthTyped, Server!AuthTypeOK, Request

\* What a step does that leaves the file alone and starts no writer
Quiet ==
  /\ Server!FileKept
  /\ auth' \in [Handlers -> Request]
  /\ \A h \in Handlers : Entitled(auth'[h]) /\ (auth'[h].step \in WritingStep => auth[h].step = auth'[h].step)
  /\ cookie' \in [Users -> 0..MaxSecrets]
  /\ \A b \in Users : cookie'[b] # Server!NoCookie =>
       (cookie'[b] = cookie[b] \/ (authFile \in Server!Config /\ cookie'[b] = authFile.secret))
  /\ screen' \in [Users -> Server!Screens] /\ crashes' \in 0..MaxCrashes

\* Such a step keeps the invariant.
LEMMA QuietKeeps ==
  ASSUME AuthInv, Quiet
  PROVE  AuthInv'
<1>1. Server!AuthTypeOK'
  BY AuthParts DEF AuthInv, Quiet, Server!AuthTypeOK, Request, Server!FileKept
<1>2. AuthTyped'
  BY <1>1 DEF AuthTyped, Quiet
<1>3. ASSUME ~overlapped' PROVE OneWriter'
  <2>1. OneWriter /\ authFile' = authFile
    BY <1>3 DEF AuthInv, Quiet, Server!FileKept
  <2>2. QED
    BY <2>1 DEF OneWriter, Quiet, WritingStep
<1>4. QED
  BY <1>2, <1>3 DEF AuthInv

\* What a step that sends an answer leaves of the requests
LEMMA ReplyKeeps ==
  ASSUME AuthTyped, NEW h \in Handlers, NEW next \in Server!Screens, Server!Reply(h, next)
  PROVE  /\ auth' \in [Handlers -> Request] /\ screen' \in [Users -> Server!Screens]
         /\ \A g \in Handlers : Entitled(auth'[g])
         /\ \A g \in Handlers : auth'[g].step # "none" => g # h /\ auth'[g] = auth[g]
<1>1. auth' = [auth EXCEPT ![h] = Server!NoRequest]
  BY DEF Server!Reply
<1>2. screen' \in [Users -> Server!Screens]
  BY AuthParts DEF Server!Reply
<1>3. QED
  BY <1>1, <1>2, AuthConstants, AuthParts

\* A browser that leaves a page leaves the requests at their steps.
LEMMA LeftKeeps ==
  ASSUME AuthTyped, NEW b \in Users
  PROVE  /\ Server!Left(b) \in [Handlers -> Request]
         /\ \A h \in Handlers : /\ Server!Left(b)[h].step = auth[h].step
                                /\ Entitled(Server!Left(b)[h])
  BY AuthParts, RequestUpdates DEF Server!Left, Entitled

\* The login and the setup page ask for the status.
LEMMA VisitKeeps ==
  ASSUME AuthInv, NEW b \in Users, NEW checking \in Server!Screens, Server!VisitForm(b, checking)
  PROVE  AuthInv'
<1>0. AuthTyped
  BY DEF AuthInv
<1>1. PICK h \in Handlers :
        auth' = [Server!Left(b) EXCEPT ![h] = [Server!NoRequest EXCEPT !.step = "status", !.from = b]]
  BY DEF Server!VisitForm
<1> DEFINE r == [Server!NoRequest EXCEPT !.step = "status", !.from = b]
<1>2. r \in Request /\ Entitled(r) /\ r.step = "status"
  BY AuthConstants DEF Request, Server!Steps, Entitled, WritingStep
<1> HIDE DEF r
<1>3. auth' = [Server!Left(b) EXCEPT ![h] = r]
  BY <1>1 DEF r
<1>4. Quiet
  BY <1>0, <1>2, <1>3, AuthParts, LeftKeeps DEF Quiet, Server!VisitForm, WritingStep
<1>5. QED
  BY <1>4, QuietKeeps

\* A login or a setup is sent.
LEMMA SubmitKeeps ==
  ASSUME AuthInv, NEW b \in Users, NEW form, NEW sending \in Server!Screens,
         NEW step \in {"verify", "setup"}, NEW password \in Passwords,
         Server!Submit(b, form, sending, step, password)
  PROVE  AuthInv'
<1>0. AuthTyped
  BY DEF AuthInv
<1> DEFINE r == [Server!NoRequest EXCEPT !.step = step, !.from = b, !.password = password]
<1>1. PICK h \in Handlers : auth' = [auth EXCEPT ![h] = r]
  BY DEF Server!Submit
<1>2. r \in Request /\ Entitled(r) /\ r.step = step
  BY AuthConstants DEF Request, Server!Steps, Entitled, WritingStep
<1> HIDE DEF r
<1>3. Quiet
  BY <1>0, <1>1, <1>2, AuthParts DEF Quiet, Server!Submit, WritingStep
<1>4. QED
  BY <1>3, QuietKeeps

\* A request that goes on, to a step that writes nothing
LEMMA GoesOn ==
  ASSUME AuthInv, NEW h \in Handlers, NEW step \in {"session", "create", "load"},
         step = "create" => auth[h].step = "setup",
         Server!FileKept, UNCHANGED <<cookie, screen, crashes>>,
         NEW configured \in BOOLEAN,
         \/ auth' = [auth EXCEPT ![h].step = step]
         \/ auth' = [auth EXCEPT ![h].step = step, ![h].configured = configured]
  PROVE  AuthInv'
<1>0. AuthTyped
  BY DEF AuthInv
<1> DEFINE one == [auth[h] EXCEPT !.step = step]
           two == [auth[h] EXCEPT !.step = step, !.configured = configured]
<1>1. auth[h] \in Request /\ auth \in [Handlers -> Request]
  BY <1>0, AuthParts
<1>2. one \in Request /\ two \in Request
  BY <1>1 DEF Request, Server!Steps
<1>3. auth' = [auth EXCEPT ![h] = one] \/ auth' = [auth EXCEPT ![h] = two]
  OBVIOUS
<1> HIDE DEF one, two
<1>4. auth' \in [Handlers -> Request]
  BY <1>1, <1>2, <1>3
<1>5. \A g \in Handlers : g # h => auth'[g] = auth[g]
  BY <1>0, AuthParts
<1>6. auth'[h].step = step /\ auth'[h].password = auth[h].password
  BY <1>0, AuthParts DEF Request
<1>7. Entitled(auth'[h])
  BY <1>0, <1>6, AuthParts DEF Entitled, WritingStep
<1>8. \A g \in Handlers : Entitled(auth'[g]) /\ (auth'[g].step \in WritingStep => auth[g].step = auth'[g].step)
  BY <1>0, <1>5, <1>6, <1>7, AuthParts DEF WritingStep
<1>9. Quiet
  BY <1>0, <1>4, <1>8, AuthParts DEF Quiet
<1>10. QED
  BY <1>9, QuietKeeps

\* A request that is answered without a session
LEMMA ReplyOnly ==
  ASSUME AuthInv, NEW h \in Handlers, NEW next \in Server!Screens, Server!Reply(h, next),
         Server!FileKept, UNCHANGED cookie, crashes' \in 0..MaxCrashes
  PROVE  AuthInv'
<1>0. AuthTyped
  BY DEF AuthInv
<1>1. Quiet
  BY <1>0, AuthParts, ReplyKeeps DEF Quiet, WritingStep
<1>2. QED
  BY <1>1, QuietKeeps

\* createAuthConfig passes its check: no other handler is writing, or the
\* setups overlap (app-ui-auth.ts:136).
LEMMA CreatingKeeps ==
  ASSUME AuthInv, NEW h \in Handlers, Server!Creating(h)
  PROVE  AuthInv'
<1>0. AuthTyped
  BY DEF AuthInv
<1>1. CASE Server!Refused
  <2>1. "setup" \in Server!Screens /\ Server!FileKept /\ UNCHANGED <<cookie, crashes>>
    BY <1>1 DEF Server!Creating, Server!FileKept, Server!Screens
  <2>2. QED
    BY <1>0, <1>1, <2>1, ReplyOnly, AuthParts DEF Server!Creating
<1>2. CASE ~Server!Refused
  <2> DEFINE config == [is |-> "config", password |-> auth[h].password, secret |-> secrets + 1]
             step == IF authDir THEN "open" ELSE "mkdir"
  <2>1. auth[h].password \in Passwords /\ secrets + 1 \in 1..MaxSecrets
    BY <1>0, AuthParts, ServicesBounds DEF Entitled, Server!Creating, Server!At
  <2>2. config \in Server!Config /\ step \in {"mkdir", "open"}
    BY <2>1 DEF Server!Config
  <2>3. auth' = [auth EXCEPT ![h].step = step, ![h].config = config]
    BY <1>2 DEF Server!Creating
  <2> HIDE DEF config, step
  <2>4. auth' \in [Handlers -> Request]
    BY ZenonT(60), <1>0, <2>2, <2>3, AuthParts DEF Request, Server!Steps
  <2>5. auth'[h].step = step /\ auth'[h].config = config
    BY <1>0, <2>3, AuthParts DEF Request
  <2>6. \A g \in Handlers : g # h => auth'[g] = auth[g]
    BY <1>0, <2>3, AuthParts
  <2>7. \A g \in Handlers : Entitled(auth'[g])
    BY <1>0, <2>2, <2>5, <2>6, AuthParts DEF Entitled, WritingStep
  <2>8. secrets' \in 0..MaxSecrets /\ UNCHANGED <<authFile, authDir, cookie, crashes, screen>>
    BY <1>0, <1>2, AuthParts, ServicesBounds DEF Server!Creating
  <2>9. AuthTyped'
    BY <1>0, <2>4, <2>7, <2>8, AuthParts DEF AuthTyped, Server!AuthTypeOK, Request
  <2>10. ASSUME ~overlapped' PROVE OneWriter'
    <3>1. ~overlapped /\ \A g \in Handlers : auth[g].step \notin WritingStep
      BY <1>2, <2>10 DEF Server!Creating, WritingStep
    <3>2. OneWriter /\ authFile = Server!Missing
      BY <1>2, <3>1 DEF AuthInv, Server!Refused, Server!IsAuthConfigured
    <3>3. QED
      BY <2>2, <2>5, <2>6, <2>8, <3>1, <3>2 DEF OneWriter
  <2>11. QED
    BY <2>9, <2>10 DEF AuthInv
<1>3. QED
  BY <1>1, <1>2

\* A writer that goes on
LEMMA WriterGoesOn ==
  ASSUME AuthInv, NEW h \in Handlers, NEW step \in {"open", "write"}, Server!To(h, step),
         auth[h].step \in WritingStep
  PROVE  /\ auth' \in [Handlers -> Request]
         /\ \A g \in Handlers : Entitled(auth'[g])
         /\ auth'[h].step = step /\ \A g \in Handlers : g # h => auth'[g] = auth[g]
<1>0. AuthTyped
  BY DEF AuthInv
<1>1. auth' = [auth EXCEPT ![h] = [auth[h] EXCEPT !.step = step]]
  BY <1>0, AuthParts DEF Server!To
<1> DEFINE r == [auth[h] EXCEPT !.step = step]
<1>2. r \in Request /\ r.step = step /\ r.config = auth[h].config
  <2>1. auth[h] \in Request /\ step \in Server!Steps
    BY <1>0, AuthParts DEF Server!Steps
  <2>2. QED
    BY <2>1, RequestUpdates
<1>3. Entitled(r)
  BY <1>0, <1>2, AuthParts DEF Entitled, WritingStep
<1> HIDE DEF r
<1>4. auth' = [auth EXCEPT ![h] = r]
  BY <1>1 DEF r
<1>5. QED
  BY <1>0, <1>2, <1>3, <1>4, AuthParts

\* The directory is made while the file is missing.
LEMMA MakesDirKeeps ==
  ASSUME AuthInv, NEW h \in Handlers, Server!MakesDir(h)
  PROVE  AuthInv'
<1>0. AuthTyped
  BY DEF AuthInv
<1>1. auth[h].step = "mkdir" /\ Server!To(h, "open")
  BY DEF Server!MakesDir, Server!At
<1>2. /\ auth' \in [Handlers -> Request] /\ \A g \in Handlers : Entitled(auth'[g])
      /\ auth'[h].step = "open" /\ \A g \in Handlers : g # h => auth'[g] = auth[g]
  BY <1>1, WriterGoesOn DEF WritingStep
<1>3. AuthTyped'
  BY <1>0, <1>2, AuthParts DEF AuthTyped, Server!AuthTypeOK, Server!MakesDir, Server!PagesKept, Request
<1>4. ASSUME ~overlapped' PROVE OneWriter'
  <2>1. OneWriter /\ UNCHANGED <<authFile, cookie>>
    BY <1>4 DEF Server!MakesDir, Server!PagesKept, AuthInv
  <2>2. QED
    BY <1>1, <1>2, <2>1 DEF OneWriter, WritingStep
<1>5. QED
  BY <1>3, <1>4 DEF AuthInv

\* The file is truncated by its one writer.
LEMMA OpensFileKeeps ==
  ASSUME AuthInv, NEW h \in Handlers, Server!OpensFile(h)
  PROVE  AuthInv'
<1>0. AuthTyped
  BY DEF AuthInv
<1>1. auth[h].step = "open" /\ Server!To(h, "write")
  BY DEF Server!OpensFile, Server!At
<1>2. /\ auth' \in [Handlers -> Request] /\ \A g \in Handlers : Entitled(auth'[g])
      /\ auth'[h].step = "write" /\ \A g \in Handlers : g # h => auth'[g] = auth[g]
  BY <1>1, WriterGoesOn DEF WritingStep
<1>3. AuthTyped'
  BY <1>0, <1>2, AuthParts DEF AuthTyped, Server!AuthTypeOK, Server!OpensFile, Server!PagesKept, Request
<1>4. ASSUME ~overlapped' PROVE OneWriter'
  <2>1. OneWriter /\ authFile' = Server!Truncated /\ UNCHANGED cookie
    BY <1>4 DEF Server!OpensFile, Server!PagesKept, AuthInv
  <2>2. authFile = Server!Missing
    BY <1>1, <2>1 DEF OneWriter
  <2>3. \A b \in Users : cookie[b] = Server!NoCookie
    BY <2>1, <2>2, AuthConstants DEF OneWriter
  <2>4. \A g \in Handlers : g # h => auth'[g].step \notin WritingStep
    BY <1>1, <1>2, <2>1 DEF OneWriter, WritingStep
  <2>5. QED
    BY <1>2, <2>1, <2>3, <2>4 DEF OneWriter, WritingStep
<1>5. QED
  BY <1>3, <1>4 DEF AuthInv

\* The file is written and the first session is given.
LEMMA WritesFileKeeps ==
  ASSUME AuthInv, NEW h \in Handlers, Server!WritesFile(h)
  PROVE  AuthInv'
<1>0. AuthTyped
  BY DEF AuthInv
<1>1. auth[h].step = "write" /\ Server!Reply(h, "console") /\ "console" \in Server!Screens
  BY DEF Server!WritesFile, Server!At, Server!ReplySession, Server!Screens
<1>2. auth[h].config \in Server!Config /\ authFile' = auth[h].config
  BY <1>0, <1>1, AuthParts DEF Entitled, WritingStep, Server!WritesFile
<1>3. authFile'.secret \in 1..MaxSecrets
  BY <1>2 DEF Server!Config
<1>4. /\ cookie' \in [Users -> 0..MaxSecrets]
      /\ \A b \in Users : cookie'[b] = cookie[b] \/ cookie'[b] = authFile'.secret
  <2>1. cookie \in [Users -> 0..MaxSecrets] /\ authFile'.secret \in 0..MaxSecrets
    BY <1>0, <1>3, AuthParts, ServicesBounds
  <2>2. cookie' = IF auth[h].from = NoUser THEN cookie
                  ELSE [cookie EXCEPT ![auth[h].from] = authFile'.secret]
    BY <1>2 DEF Server!WritesFile, Server!ReplySession
  <2>3. QED
    BY <2>1, <2>2
<1>5. AuthTyped'
  BY <1>0, <1>1, <1>2, <1>4, ReplyKeeps, AuthParts DEF AuthTyped, Server!AuthTypeOK, Server!WritesFile, Request
<1>6. ASSUME ~overlapped' PROVE OneWriter'
  <2>1. OneWriter /\ authFile = Server!Truncated
    BY <1>1, <1>6 DEF Server!WritesFile, AuthInv, OneWriter
  <2>2. \A b \in Users : cookie[b] = Server!NoCookie
    BY <2>1, AuthConstants DEF OneWriter
  <2>3. \A g \in Handlers : auth'[g].step \notin WritingStep
    BY <1>0, <1>1, <2>1, ReplyKeeps DEF OneWriter, WritingStep
  <2>4. QED
    BY <1>2, <1>4, <2>2, <2>3 DEF OneWriter, WritingStep
<1>7. QED
  BY <1>5, <1>6 DEF AuthInv

\* A login signs a session with the secret that it loads again.
LEMMA SignsSessionKeeps ==
  ASSUME AuthInv, NEW h \in Handlers, Server!SignsSession(h)
  PROVE  AuthInv'
<1>0. AuthTyped
  BY DEF AuthInv
<1>1. "login" \in Server!Screens /\ "console" \in Server!Screens
  BY DEF Server!Screens
<1>2. Server!FileKept /\ crashes' = crashes
  BY DEF Server!SignsSession
<1>3. CASE Server!Loaded = Server!Missing
  BY <1>0, <1>1, <1>2, <1>3, ReplyOnly, AuthParts DEF Server!SignsSession
<1>4. CASE Server!Loaded # Server!Missing
  <2>1. authFile \in Server!Config /\ Server!Loaded = authFile
    BY <1>4 DEF Server!Loaded
  <2>2. authFile.secret \in 0..MaxSecrets
    BY <2>1, ServicesBounds DEF Server!Config
  <2>3. /\ Server!Reply(h, "console")
        /\ cookie' = IF auth[h].from = NoUser THEN cookie
                     ELSE [cookie EXCEPT ![auth[h].from] = authFile.secret]
    BY <1>4, <2>1 DEF Server!SignsSession, Server!ReplySession
  <2>4. /\ cookie' \in [Users -> 0..MaxSecrets]
        /\ \A b \in Users : cookie'[b] = cookie[b] \/ cookie'[b] = authFile.secret
    BY <1>0, <2>2, <2>3, AuthParts
  <2>5. Quiet
    BY <1>0, <1>1, <1>2, <2>1, <2>3, <2>4, ReplyKeeps, AuthParts DEF Quiet, WritingStep
  <2>6. QED
    BY <2>5, QuietKeeps
<1>5. QED
  BY <1>3, <1>4

\* Every step of the sessions keeps their invariant.
LEMMA AuthStepKeeps ==
  ASSUME AuthInv, Server!AuthNext
  PROVE  AuthInv'
<1>0. AuthTyped
  BY DEF AuthInv
<1>1. ASSUME NEW b \in Users, Server!VisitLogin(b) \/ Server!VisitSetup(b) PROVE AuthInv'
  BY <1>1, VisitKeeps DEF Server!VisitLogin, Server!VisitSetup, Server!Screens
<1>2. ASSUME NEW b \in Users, Server!VisitConsole(b) PROVE AuthInv'
  <2>1. CASE Server!VisitLogin(b)
    BY <2>1, <1>1
  <2>2. CASE /\ screen' = [screen EXCEPT ![b] = "console"]
             /\ auth' = Server!Left(b) /\ Server!FileKept /\ UNCHANGED <<cookie, crashes>>
    <3>1. screen' \in [Users -> Server!Screens]
      BY <1>0, <2>2, AuthParts DEF Server!Screens
    <3>2. Quiet
      BY <1>0, <2>2, <3>1, AuthParts, LeftKeeps DEF Quiet
    <3>3. QED
      BY <3>2, QuietKeeps
  <2>3. QED
    BY <1>2, <2>1, <2>2 DEF Server!VisitConsole
<1>3. ASSUME NEW b \in Users, Server!Logout(b) PROVE AuthInv'
  <2>1. /\ cookie' \in [Users -> 0..MaxSecrets]
        /\ \A u \in Users : cookie'[u] # Server!NoCookie => cookie'[u] = cookie[u]
    BY <1>0, <1>3, AuthParts, ServicesBounds DEF Server!Logout, Server!NoCookie
  <2>2. Quiet
    BY <1>0, <1>3, <2>1, AuthParts DEF Quiet, Server!Logout
  <2>3. QED
    BY <2>2, QuietKeeps
<1>4. ASSUME NEW b \in Users, NEW password \in Passwords,
             Server!SubmitLogin(b, password) \/ Server!SubmitSetup(b, password)
      PROVE  AuthInv'
  BY <1>4, SubmitKeeps DEF Server!SubmitLogin, Server!SubmitSetup, Server!Screens
<1>5. ASSUME NEW h \in Handlers, Server!StatusConfigured(h) PROVE AuthInv'
  <2>1. Server!IsAuthConfigured \in BOOLEAN
    BY DEF Server!IsAuthConfigured
  <2>2. QED
    BY <1>5, <2>1, GoesOn DEF Server!StatusConfigured, Server!PagesKept
<1>6. ASSUME NEW h \in Handlers, Server!StatusAnswered(h) PROVE AuthInv'
  <2>1. PICK next \in {"setup", "console", "login"} : Server!Reply(h, next)
    BY <1>6 DEF Server!StatusAnswered
  <2>2. QED
    BY <1>0, <1>6, <2>1, ReplyOnly, AuthParts DEF Server!StatusAnswered, Server!Screens
<1>7. ASSUME NEW h \in Handlers, Server!SetupChecks(h) PROVE AuthInv'
  <2>1. CASE Server!IsAuthConfigured
    BY <1>0, <1>7, <2>1, ReplyOnly, AuthParts DEF Server!SetupChecks, Server!Screens
  <2>2. CASE ~Server!IsAuthConfigured
    BY <1>7, <2>2, GoesOn DEF Server!SetupChecks, Server!To, Server!At
  <2>3. QED
    BY <2>1, <2>2
<1>8. ASSUME NEW h \in Handlers, Server!WriteFails(h) PROVE AuthInv'
  <2>1. crashes' \in 0..MaxCrashes
    BY <1>0, <1>8, AuthParts, ServicesBounds DEF Server!WriteFails
  <2>2. QED
    BY <1>8, <2>1, ReplyOnly DEF Server!WriteFails, Server!Screens
<1>9. ASSUME NEW h \in Handlers, Server!VerifiesPassword(h) PROVE AuthInv'
  <2>1. CASE Server!To(h, "load") /\ UNCHANGED screen
    BY <1>9, <2>1, GoesOn DEF Server!VerifiesPassword, Server!To
  <2>2. CASE Server!Reply(h, "login")
    BY <1>0, <1>9, <2>2, ReplyOnly, AuthParts DEF Server!VerifiesPassword, Server!Screens
  <2>3. QED
    BY <1>9, <2>1, <2>2 DEF Server!VerifiesPassword
<1>10. CASE Server!ServerRestarts
  <2>1. crashes' \in 0..MaxCrashes
    BY <1>0, <1>10, AuthParts, ServicesBounds DEF Server!ServerRestarts
  <2>2. screen' \in [Users -> Server!Screens]
    <3>1. \A b \in Users : (CASE screen[b] \in {"loginChecking", "loginSending"} -> "login"
                             [] screen[b] \in {"setupChecking", "setupSending"} -> "setup"
                             [] OTHER -> screen[b]) \in Server!Screens
      BY <1>0, AuthParts DEF Server!Screens
    <3>2. QED
      BY <1>10, <3>1 DEF Server!ServerRestarts
  <2>3. Quiet
    BY <1>0, <1>10, <2>1, <2>2, AuthParts, AuthConstants DEF Server!ServerRestarts, Quiet, WritingStep
  <2>4. QED
    BY <2>3, QuietKeeps
<1>11. QED
  BY <1>1, <1>2, <1>3, <1>4, <1>5, <1>6, <1>7, <1>8, <1>9, <1>10, CreatingKeeps, MakesDirKeeps,
     OpensFileKeeps, WritesFileKeeps, SignsSessionKeeps DEF Server!AuthNext

-----------------------------------------------------------------------------
(* The target and the streams *)
\* The file and the memory of the server name one target, unless one of them
\* was changed alone.
Stored == ~unstored => file = target

\* The part of the types that the target and the streams need
CoreTyped ==
  /\ section \in [Pages -> Server!Page]
  /\ target \in Ports \cup {NoPort} /\ file \in Ports \cup {NoPort}
  /\ mover \subseteq Pages

\* The inductive invariant of the target and the streams
CoreInv == CoreTyped /\ Stored /\ Server!StreamFollowsCalls

\* getCoreWsUrl names a port.
LEMMA TargetIsPort ==
  ASSUME CoreTyped
  PROVE  Server!Target \in Ports
  BY ServicesBounds DEF CoreTyped, Server!Target

\* A server that starts has the target of its file, and no page has changed it.
LEMMA CoreInitInv == Server!CoreServerInit => CoreInv
<1> SUFFICES ASSUME Server!CoreServerInit PROVE CoreInv
  OBVIOUS
<1>1. Server!Target \in Ports
  BY ServicesBounds DEF Server!CoreServerInit, Server!Target
<1>2. section \in [Pages -> Server!Page]
  BY <1>1 DEF Server!CoreServerInit, Server!Page
<1>3. CoreTyped
  BY <1>2 DEF CoreTyped, Server!CoreServerInit
<1>4. Stored /\ Server!StreamFollowsCalls
  BY DEF Server!CoreServerInit, Stored, Server!StreamFollowsCalls
<1>5. QED
  BY <1>3, <1>4 DEF CoreInv

\* A step of a page that leaves the server alone: the page that moved the
\* target is still to reconnect, or goes there, or has gone there before.
LEMMA PageKeeps ==
  ASSUME CoreInv, section' \in [Pages -> Server!Page], mover' \subseteq mover,
         UNCHANGED <<target, file, unstored>>,
         \A p \in mover' :
           \/ section'[p].frame \/ \E r \in section'[p].applies : r.applied /\ r.heard
           \/ section'[p].stream = Server!Target
           \/ section'[p].stream = section[p].stream /\ ~Server!Unsettled(p)
  PROVE  CoreInv'
<1>1. Server!Target' = Server!Target
  BY DEF Server!Target
<1>2. Server!StreamFollowsCalls'
  BY <1>1 DEF CoreInv, Server!StreamFollowsCalls, Server!Unsettled
<1>3. CoreTyped' /\ Stored'
  BY DEF CoreInv, CoreTyped, Stored
<1>4. QED
  BY <1>2, <1>3 DEF CoreInv

\* A step of a page's section that concerns neither its stream nor a port
\* that has been applied
LEMMA SectionKeeps ==
  ASSUME CoreInv, section' \in [Pages -> Server!Page], UNCHANGED <<target, file, unstored, mover>>,
         \A q \in Pages :
           /\ section'[q].stream = section[q].stream /\ (section[q].frame => section'[q].frame)
           /\ \A r \in section[q].applies : r.applied /\ r.heard => r \in section'[q].applies
  PROVE  CoreInv'
<1>1. mover \subseteq Pages
  BY DEF CoreInv, CoreTyped
<1>2. ASSUME NEW p \in mover'
      PROVE  \/ section'[p].frame \/ \E r \in section'[p].applies : r.applied /\ r.heard
             \/ section'[p].stream = section[p].stream /\ ~Server!Unsettled(p)
  BY <1>1, <1>2 DEF Server!Unsettled
<1>3. QED
  BY <1>2, PageKeeps

\* A page whose stream is opened again, if it is
LEMMA StreamKeeps ==
  ASSUME CoreInv, NEW p \in Pages, section' \in [Pages -> Server!Page],
         UNCHANGED <<target, file, unstored, mover>>,
         \A q \in Pages : q # p => section'[q] = section[q],
         \/ section'[p].stream = Server!Target
         \/ /\ section'[p].stream = section[p].stream
            /\ section'[p].frame = section[p].frame /\ section'[p].applies = section[p].applies
  PROVE  CoreInv'
<1>1. mover \subseteq Pages
  BY DEF CoreInv, CoreTyped
<1>2. ASSUME NEW q \in mover'
      PROVE  \/ section'[q].frame \/ \E r \in section'[q].applies : r.applied /\ r.heard
             \/ section'[q].stream = Server!Target
             \/ section'[q].stream = section[q].stream /\ ~Server!Unsettled(q)
  BY <1>1, <1>2 DEF Server!Unsettled
<1>3. QED
  BY <1>2, PageKeeps

\* A step that changes neither the target nor a page
LEMMA CoresKeep ==
  ASSUME CoreInv, UNCHANGED <<target, section, mover>>,
         file' \in Ports \cup {NoPort}, unstored' \/ UNCHANGED <<file, unstored>>
  PROVE  CoreInv'
<1>1. CoreTyped' /\ Stored'
  BY DEF CoreInv, CoreTyped, Stored
<1>2. Server!StreamFollowsCalls'
  BY DEF CoreInv, Server!StreamFollowsCalls, Server!Target, Server!Unsettled
<1>3. QED
  BY <1>1, <1>2 DEF CoreInv

\* A target posted: the page that waits for the answer has moved it last.
LEMMA TargetPostedKeeps ==
  ASSUME CoreInv, NEW p \in Pages, NEW r \in section[p].applies, Server!TargetPosted(p, r)
  PROVE  CoreInv'
<1>0. CoreTyped /\ section[p] \in Server!Page /\ r \in Server!Applying
  BY DEF CoreInv, CoreTyped, Server!Page
<1>1. PICK written \in BOOLEAN : Server!SetCoreTargetPort(r.port, written)
  BY DEF Server!TargetPosted
<1> DEFINE posted == [r EXCEPT !.applied = TRUE]
<1>2. /\ r.port \in Ports /\ posted \in Server!Applying
      /\ posted.applied /\ posted.heard = r.heard
  BY <1>0 DEF Server!Applying
<1> HIDE DEF posted
<1>3. section' = [section EXCEPT ![p].applies = (@ \ {r}) \cup {posted}]
  BY DEF Server!TargetPosted, posted
<1>4. section' \in [Pages -> Server!Page] /\ section'[p].applies = (section[p].applies \ {r}) \cup {posted}
  BY <1>0, <1>2, <1>3 DEF CoreTyped, Server!Page
<1>5. mover' = IF r.heard THEN {p} ELSE {}
  BY DEF Server!TargetPosted
<1>6. CoreTyped' /\ Stored'
  BY <1>0, <1>1, <1>2, <1>4, <1>5 DEF CoreTyped, Stored, Server!SetCoreTargetPort
<1>7. Server!StreamFollowsCalls'
  BY <1>2, <1>4, <1>5 DEF Server!StreamFollowsCalls, Server!Unsettled
<1>8. QED
  BY <1>6, <1>7 DEF CoreInv

\* The answer to it, if it is heard, leads to a frame.
LEMMA TargetAnsweredKeeps ==
  ASSUME CoreInv, NEW p \in Pages, NEW r \in section[p].applies, Server!TargetAnswered(p, r)
  PROVE  CoreInv'
<1>0. CoreTyped /\ section[p] \in Server!Page /\ r \in Server!Applying /\ r.heard \in BOOLEAN
  BY DEF CoreInv, CoreTyped, Server!Page, Server!Applying
<1>1. section' = [section EXCEPT ![p].applies = @ \ {r}, ![p].frame = @ \/ r.heard]
  BY DEF Server!TargetAnswered
<1>2. /\ section'[p].applies = section[p].applies \ {r} /\ section'[p].stream = section[p].stream
      /\ section'[p].frame = (section[p].frame \/ r.heard)
      /\ \A q \in Pages : q # p => section'[q] = section[q]
  BY <1>0, <1>1 DEF CoreTyped, Server!Page
<1>3. section' \in [Pages -> Server!Page]
  BY <1>0, <1>1 DEF CoreTyped, Server!Page
<1>4. UNCHANGED <<target, file, unstored, mover>>
  BY DEF Server!TargetAnswered, Server!OnPage, Server!serverVars
<1>5. ASSUME NEW q \in mover'
      PROVE  \/ section'[q].frame \/ \E a \in section'[q].applies : a.applied /\ a.heard
             \/ section'[q].stream = section[q].stream /\ ~Server!Unsettled(q)
  <2>1. q \in Pages
    BY <1>0, <1>4, <1>5 DEF CoreTyped
  <2>2. CASE q # p
    BY <1>2, <2>1, <2>2 DEF Server!Unsettled
  <2>3. CASE q = p
    BY <1>0, <1>2, <2>3 DEF Server!Unsettled
  <2>4. QED
    BY <2>2, <2>3
<1>6. QED
  BY <1>3, <1>4, <1>5, PageKeeps

\* Without the answer the page is not known to have moved the target.
LEMMA TargetLostKeeps ==
  ASSUME CoreInv, NEW p \in Pages, NEW r \in section[p].applies, Server!TargetLost(p, r)
  PROVE  CoreInv'
<1>0. CoreTyped /\ section[p] \in Server!Page
  BY DEF CoreInv, CoreTyped
<1>1. section' = [section EXCEPT ![p].applies = @ \ {r}]
  BY DEF Server!TargetLost
<1>2. /\ section'[p].applies = section[p].applies \ {r} /\ section'[p].stream = section[p].stream
      /\ section'[p].frame = section[p].frame
      /\ \A q \in Pages : q # p => section'[q] = section[q]
  BY <1>0, <1>1 DEF CoreTyped, Server!Page
<1>3. section' \in [Pages -> Server!Page]
  BY <1>0, <1>1 DEF CoreTyped, Server!Page
<1>4. UNCHANGED <<target, file, unstored>> /\ mover' = IF r.applied /\ r.heard THEN mover \ {p} ELSE mover
  BY DEF Server!TargetLost, Server!OnPage, Server!serverVars
<1>5. ASSUME NEW q \in mover'
      PROVE  \/ section'[q].frame \/ \E a \in section'[q].applies : a.applied /\ a.heard
             \/ section'[q].stream = section[q].stream /\ ~Server!Unsettled(q)
  <2>1. q \in Pages
    BY <1>0, <1>4, <1>5 DEF CoreTyped
  <2>2. CASE q # p
    BY <1>2, <2>1, <2>2 DEF Server!Unsettled
  <2>3. CASE q = p
    BY <1>2, <1>4, <1>5, <2>3 DEF Server!Unsettled
  <2>4. QED
    BY <2>2, <2>3
<1>6. QED
  BY <1>3, <1>4, <1>5, PageKeeps

\* A section that is left takes its page from those that moved the target,
\* unless it has reconnected.
LEMMA CloseSettingsKeeps ==
  ASSUME CoreInv, NEW p \in Pages, Server!CloseSettings(p)
  PROVE  CoreInv'
<1>0. CoreTyped /\ section[p] \in Server!Page
  BY DEF CoreInv, CoreTyped
<1> DEFINE unheard == {[r EXCEPT !.heard = FALSE] : r \in section[p].applies}
<1>1. unheard \subseteq Server!Applying
  BY ZenonT(60), <1>0 DEF Server!Page, Server!Applying
<1> HIDE DEF unheard
<1>2. PICK starting \in {"no", "probing"} :
        section' = [section EXCEPT ![p].open = FALSE, ![p].frame = FALSE,
                                   ![p].applies = unheard, ![p].starting = starting]
  BY <1>0 DEF Server!CloseSettings, Server!Page, unheard
<1>3. section' \in [Pages -> Server!Page]
  BY <1>0, <1>1, <1>2 DEF CoreTyped, Server!Page
<1>4. \A q \in Pages : section'[q].stream = section[q].stream /\ (q # p => section'[q] = section[q])
  BY <1>0, <1>2 DEF CoreTyped, Server!Page
<1>5. /\ UNCHANGED <<target, file, unstored>> /\ mover' \subseteq mover
      /\ p \in mover' => ~Server!Unsettled(p)
  BY DEF Server!CloseSettings, Server!OnPage, Server!serverVars
<1>6. ASSUME NEW q \in mover'
      PROVE  \/ section'[q].frame \/ \E r \in section'[q].applies : r.applied /\ r.heard
             \/ section'[q].stream = section[q].stream /\ ~Server!Unsettled(q)
  <2>1. q \in Pages
    BY <1>0, <1>5 DEF CoreTyped
  <2>2. CASE q # p
    BY <1>4, <2>1, <2>2 DEF Server!Unsettled
  <2>3. QED
    BY <1>4, <1>5, <2>1, <2>2
<1>7. QED
  BY <1>3, <1>5, <1>6, PageKeeps

\* A restart reads the target from the file and opens every stream again.
LEMMA RestartServerKeeps ==
  ASSUME CoreInv, Server!RestartServer
  PROVE  CoreInv'
<1>0. CoreTyped
  BY DEF CoreInv
<1>1. target' = file /\ UNCHANGED <<file, mover>> /\ ~unstored'
  BY DEF Server!RestartServer, Server!Restored
<1>2. Server!Target' = (IF file # NoPort THEN file ELSE CorePort) /\ Server!Target' \in Ports
  BY <1>0, <1>1, ServicesBounds DEF Server!Target, CoreTyped
<1>3. section' = [p \in Pages |->
        [section[p] EXCEPT !.starting = "no", !.probed = NoPort, !.applies = {},
                           !.stream = Server!Target']]
  BY <1>2 DEF Server!RestartServer, Server!Restored
<1>4. section' \in [Pages -> Server!Page] /\ \A p \in Pages : section'[p].stream = Server!Target'
  BY <1>0, <1>2, <1>3 DEF CoreTyped, Server!Page
<1>5. CoreTyped' /\ Stored'
  BY <1>0, <1>1, <1>4 DEF CoreTyped, Stored
<1>6. Server!StreamFollowsCalls'
  BY <1>4, <1>5 DEF CoreTyped, Server!StreamFollowsCalls
<1>7. QED
  BY <1>5, <1>6 DEF CoreInv

\* Every step of the server and its pages keeps the invariant.
LEMMA CoreStepKeeps ==
  ASSUME CoreInv, Server!CoreServerNext
  PROVE  CoreInv'
<1>0. CoreTyped /\ section \in [Pages -> Server!Page] /\ Server!Target \in Ports
  BY TargetIsPort DEF CoreInv, CoreTyped
<1> USE DEF Server!OnPage, Server!serverVars, Server!worldVars
<1>1. ASSUME NEW p \in Pages, Server!OpenSettings(p) PROVE CoreInv'
  <2>1. section' \in [Pages -> Server!Page]
    BY <1>0, <1>1 DEF Server!OpenSettings, Server!Page
  <2>2. QED
    BY <1>0, <1>1, <2>1, SectionKeeps DEF Server!OpenSettings, Server!Page
<1>2. ASSUME NEW p \in Pages, NEW port \in Ports, Server!Apply(p, port) PROVE CoreInv'
  <2> DEFINE new == [port |-> port, applied |-> FALSE, heard |-> TRUE]
  <2>1. new \in Server!Applying
    BY DEF Server!Applying
  <2> HIDE DEF new
  <2>2. section' = [section EXCEPT ![p].applies = @ \cup {new}]
    BY <1>2 DEF Server!Apply, new
  <2>3. section' \in [Pages -> Server!Page]
    BY <1>0, <2>1, <2>2 DEF Server!Page
  <2>4. QED
    BY <1>0, <1>2, <2>2, <2>3, SectionKeeps DEF Server!Apply, Server!Page
<1>3. ASSUME NEW p \in Pages, Server!FrameComes(p) PROVE CoreInv'
  <2>1. section' = [section EXCEPT ![p].frame = FALSE, ![p].stream = Server!Target]
    BY <1>3 DEF Server!FrameComes, Server!StreamAfter
  <2>2. section' \in [Pages -> Server!Page] /\ section'[p].stream = Server!Target
        /\ \A q \in Pages : q # p => section'[q] = section[q]
    BY <1>0, <2>1 DEF Server!Page
  <2>3. QED
    BY <1>3, <2>2, StreamKeeps DEF Server!FrameComes
<1>4. ASSUME NEW p \in Pages, Server!Reconnect(p) PROVE CoreInv'
  <2>1. section' \in [Pages -> Server!Page] /\ section'[p].stream = Server!Target
        /\ \A q \in Pages : q # p => section'[q] = section[q]
    BY <1>0, <1>4 DEF Server!Reconnect, Server!Page
  <2>2. QED
    BY <1>4, <2>1, StreamKeeps DEF Server!Reconnect
<1>5. ASSUME NEW p \in Pages, Server!StartCore(p) PROVE CoreInv'
  <2>1. section' \in [Pages -> Server!Page]
    BY ZenonT(60), <1>0, <1>5 DEF Server!StartCore, Server!Page
  <2>2. QED
    BY <1>0, <1>5, <2>1, SectionKeeps DEF Server!StartCore, Server!Page
<1>6. ASSUME NEW p \in Pages, Server!ProbeAnswered(p) PROVE CoreInv'
  <2>1. section' \in [Pages -> Server!Page]
    BY <1>0, <1>6 DEF Server!ProbeAnswered, Server!Page
  <2>2. QED
    BY <1>0, <1>6, <2>1, SectionKeeps DEF Server!ProbeAnswered, Server!Page
<1>7. ASSUME NEW p \in Pages, Server!Spawn(p) PROVE CoreInv'
  <2>1. section' \in [Pages -> Server!Page]
    BY <1>0, <1>7 DEF Server!Spawn, Server!Page
  <2>2. QED
    BY <1>0, <1>7, <2>1, SectionKeeps DEF Server!Spawn, Server!Page
<1>8. ASSUME NEW p \in Pages, Server!StartFails(p) PROVE CoreInv'
  <2>1. section' \in [Pages -> Server!Page]
    BY <1>0, <1>8 DEF Server!StartFails, Server!Page
  <2>2. QED
    BY <1>0, <1>8, <2>1, SectionKeeps DEF Server!StartFails, Server!Page
<1>9. ASSUME NEW p \in Pages, Server!StartAnswered(p) PROVE CoreInv'
  <2>1. PICK stream \in {Server!Target, section[p].stream} :
          section' = [section EXCEPT ![p].starting = "no", ![p].stream = stream]
    BY <1>0, <1>9 DEF Server!StartAnswered, Server!Page
  <2>2. /\ section' \in [Pages -> Server!Page] /\ section'[p].stream = stream
        /\ section'[p].frame = section[p].frame /\ section'[p].applies = section[p].applies
        /\ \A q \in Pages : q # p => section'[q] = section[q]
    BY <1>0, <2>1 DEF Server!Page
  <2>3. QED
    BY <1>9, <2>1, <2>2, StreamKeeps DEF Server!StartAnswered
<1>10. ASSUME NEW c \in Server!Cores, Server!CoreBinds(c) \/ Server!CoreDies(c) PROVE CoreInv'
  BY <1>0, <1>10, CoresKeep DEF Server!CoreBinds, Server!CoreDies, CoreTyped
<1>11. ASSUME NEW port \in Ports, Server!ForeignCore(port) \/ Server!PutPort(port) PROVE CoreInv'
  BY <1>0, <1>11, CoresKeep DEF Server!ForeignCore, Server!PutPort, CoreTyped
<1>12. QED
  BY <1>1, <1>2, <1>3, <1>4, <1>5, <1>6, <1>7, <1>8, <1>9, <1>10, <1>11, CloseSettingsKeeps,
     TargetPostedKeeps, TargetAnsweredKeeps, TargetLostKeeps, RestartServerKeeps DEF Server!CoreServerNext

\* A step moves the target of the server only if it is no restart of a server
\* whose memory and file agree.
LEMMA RestartKeepsTarget ==
  ASSUME CoreInv, Server!CoreServerNext, tracked' # tracked, tracked' = Server!NoCore, ~unstored
  PROVE  Server!Target' = Server!Target
<1>1. CASE Server!RestartServer
  BY <1>1 DEF Server!RestartServer, Server!Restored, CoreInv, Stored, Server!Target
<1>2. ASSUME NEW p \in Pages, Server!Spawn(p) PROVE target' = target
  BY <1>2 DEF Server!Spawn
<1>3. QED
  BY <1>1, <1>2 DEF Server!CoreServerNext, Server!OpenSettings, Server!CloseSettings, Server!Apply,
     Server!TargetPosted, Server!TargetAnswered, Server!TargetLost, Server!FrameComes, Server!Reconnect,
     Server!StartCore, Server!ProbeAnswered, Server!StartFails, Server!StartAnswered,
     Server!CoreBinds, Server!CoreDies, Server!ForeignCore, Server!PutPort, Server!OnPage,
     Server!serverVars, Server!worldVars, Server!Target

-----------------------------------------------------------------------------
(* The installs *)
\* What a page waits for that installs (install-manager.ts)
Install == [step: {"none", "record", "spawn", "success", "which", "put", "recheck", "failed"},
            of: 0..MaxInstalls, found: BOOLEAN]
\* The steps between createInstallRecord and updateInstallRecord
Reporting == {"spawn", "success", "failed"}

\* Every record and every install under way is one of an install that started,
\* no two pages make the same one, and its page knows what became of it.
InstallsTyped ==
  /\ records \in Seq(Server!Record)
  /\ install \in [Panels -> Install]
  /\ outcome \in [Server!Attempts -> {"none", "running", "success", "unheard", "failed"}]
  /\ binary \in BOOLEAN
  /\ \A p \in Panels :
       /\ install[p].step # "none" =>
            install[p].of \in Server!Attempts /\ outcome[install[p].of] # "none"
       /\ install[p].step \in {"record", "spawn"} => outcome[install[p].of] = "running"
       /\ install[p].step = "success" => outcome[install[p].of] = "success"
       /\ install[p].step = "failed" => outcome[install[p].of] \in {"failed", "unheard"}
  /\ \A i \in DOMAIN records : outcome[records[i].of] # "none"
  /\ \A p, q \in Panels :
       install[p].step # "none" /\ install[q].step # "none" /\ install[p].of = install[q].of => p = q

\* While an install has its status to report, the record that is running is its
\* own, and no other install has one to report.
OwnRecord ==
  \A p \in Panels :
    /\ install[p].step \in {"record", "spawn"} =>
         \A i \in DOMAIN records : records[i].of = install[p].of => records[i].status = "running"
    /\ install[p].step = "spawn" => \E i \in DOMAIN records : records[i].status = "running"
    /\ install[p].step \in Reporting =>
         /\ \A i \in DOMAIN records : records[i].status = "running" => records[i].of = install[p].of
         /\ \A q \in Panels : install[q].step \in Reporting => q = p

\* The records that say "success", and the installs whose success was reported
\* if it will ever be
SuccessRecords == {i \in DOMAIN records : records[i].status = "success"}
SuccessReported ==
  {a \in Server!Attempts : /\ outcome[a] \in {"success", "unheard"}
                           /\ \A p \in Panels : install[p].step = "success" => install[p].of # a}

\* An install reports its success once.
ReportedOnce == Cardinality(SuccessRecords) <= Cardinality(SuccessReported)

\* The inductive invariant of the installs
InstallsInv ==
  /\ InstallsTyped /\ ReportedOnce
  /\ ~tangled => OwnRecord
  /\ Server!OutcomesAreTheirOwn

\* Places in a sequence, and installs, are finitely many.
LEMMA PlacesFinite ==
  ASSUME NEW s \in Seq(Server!Record), NEW T \in SUBSET DOMAIN s
  PROVE  IsFiniteSet(T) /\ Cardinality(T) \in Nat
<1>1. PICK n \in Nat : DOMAIN s = 1..n
  BY SeqDef
<1>2. IsFiniteSet(1..n)
  BY FS_Interval
<1>3. IsFiniteSet(T)
  BY <1>1, <1>2, FS_Subset
<1>4. QED
  BY <1>3, FS_CardinalityType

LEMMA InstallsFinite ==
  ASSUME NEW T \in SUBSET Server!Attempts
  PROVE  IsFiniteSet(T) /\ Cardinality(T) \in Nat
<1>1. IsFiniteSet(1..MaxInstalls)
  BY ServicesBounds, FS_Interval
<1>2. IsFiniteSet(T)
  BY <1>1, FS_Subset DEF Server!Attempts
<1>3. QED
  BY <1>2, FS_CardinalityType

\* Both sets are finite.
LEMMA SuccessesFinite ==
  ASSUME InstallsTyped
  PROVE  /\ IsFiniteSet(SuccessRecords) /\ Cardinality(SuccessRecords) \in Nat
         /\ IsFiniteSet(SuccessReported) /\ Cardinality(SuccessReported) \in Nat
<1>1. SuccessRecords \in SUBSET DOMAIN records /\ SuccessReported \in SUBSET Server!Attempts
  BY DEF SuccessRecords, SuccessReported
<1>2. records \in Seq(Server!Record)
  BY DEF InstallsTyped
<1>3. QED
  BY <1>1, <1>2, PlacesFinite, InstallsFinite

\* They stay so.
LEMMA SuccessesStayFinite ==
  ASSUME InstallsTyped'
  PROVE  /\ IsFiniteSet(SuccessRecords') /\ Cardinality(SuccessRecords') \in Nat
         /\ IsFiniteSet(SuccessReported') /\ Cardinality(SuccessReported') \in Nat
<1>1. SuccessRecords' \in SUBSET DOMAIN records' /\ SuccessReported' \in SUBSET Server!Attempts
  BY DEF SuccessRecords, SuccessReported, Server!Attempts
<1>2. records' \in Seq(Server!Record)
  BY DEF InstallsTyped, Server!Record, Server!Attempts
<1>3. QED
  BY <1>1, <1>2, PlacesFinite, InstallsFinite

\* As many records say "success" as installs have succeeded, at most.
LEMMA InstallsEarned ==
  ASSUME InstallsInv
  PROVE  Server!SuccessesAreEarned
<1> DEFINE succeeded == {a \in Server!Attempts : outcome[a] \in {"success", "unheard"}}
<1>1. InstallsTyped /\ ReportedOnce
  BY DEF InstallsInv
<1>2. IsFiniteSet(1..MaxInstalls)
  BY ServicesBounds, FS_Interval
<1>3. succeeded \in SUBSET (1..MaxInstalls) /\ SuccessReported \in SUBSET succeeded
  BY DEF Server!Attempts, SuccessReported
<1>4. IsFiniteSet(succeeded)
  BY <1>2, <1>3, FS_Subset
<1>5. Cardinality(SuccessReported) <= Cardinality(succeeded) /\ Cardinality(succeeded) \in Nat
  BY <1>3, <1>4, FS_Subset, FS_CardinalityType
<1> HIDE DEF succeeded
<1>6. Cardinality(SuccessRecords) <= Cardinality(succeeded)
  BY <1>1, <1>5, SuccessesFinite DEF ReportedOnce
<1>7. \A S : Server!Cardinality(S) = Cardinality(S)
  BY DEF Server!Cardinality, Cardinality
<1>8. QED
  BY <1>6, <1>7 DEF Server!SuccessesAreEarned, SuccessRecords, succeeded

\* A step that makes no record say "success", and takes back no report
LEMMA NoneReported ==
  ASSUME InstallsTyped, ReportedOnce, InstallsTyped',
         SuccessRecords' \subseteq SuccessRecords, SuccessReported \subseteq SuccessReported'
  PROVE  ReportedOnce'
<1>1. /\ IsFiniteSet(SuccessRecords') /\ Cardinality(SuccessRecords') \in Nat
      /\ IsFiniteSet(SuccessReported') /\ Cardinality(SuccessReported') \in Nat
  BY SuccessesStayFinite
<1>2. Cardinality(SuccessRecords') <= Cardinality(SuccessRecords)
  BY SuccessesFinite, FS_Subset
<1>3. Cardinality(SuccessReported) <= Cardinality(SuccessReported')
  BY <1>1, FS_Subset
<1>4. Cardinality(SuccessRecords') <= Cardinality(SuccessReported')
  BY <1>1, <1>2, <1>3, SuccessesFinite DEF ReportedOnce
<1>5. QED
  BY <1>4 DEF ReportedOnce

\* A step that makes one record say "success", of an install not reported before
LEMMA OneReported ==
  ASSUME InstallsTyped, ReportedOnce, InstallsTyped', NEW k, NEW a,
         SuccessRecords' \subseteq SuccessRecords \cup {k},
         SuccessReported \cup {a} \subseteq SuccessReported', a \notin SuccessReported
  PROVE  ReportedOnce'
<1>1. /\ IsFiniteSet(SuccessRecords') /\ Cardinality(SuccessRecords') \in Nat
      /\ IsFiniteSet(SuccessReported') /\ Cardinality(SuccessReported') \in Nat
  BY SuccessesStayFinite
<1> DEFINE recs == SuccessRecords \cup {k}
           reps == SuccessReported \cup {a}
<1>2. IsFiniteSet(recs) /\ Cardinality(recs) <= Cardinality(SuccessRecords) + 1 /\ Cardinality(recs) \in Nat
  <2>1. IsFiniteSet(SuccessRecords) /\ Cardinality(SuccessRecords) \in Nat
    BY SuccessesFinite
  <2>2. /\ IsFiniteSet(recs)
        /\ Cardinality(recs) = IF k \in SuccessRecords THEN Cardinality(SuccessRecords)
                               ELSE Cardinality(SuccessRecords) + 1
    BY <2>1, FS_AddElement
  <2> HIDE DEF recs
  <2>3. QED
    BY <2>1, <2>2
<1>3. IsFiniteSet(reps) /\ Cardinality(reps) = Cardinality(SuccessReported) + 1
  BY SuccessesFinite, FS_AddElement
<1> HIDE DEF recs, reps
<1>4. Cardinality(SuccessRecords') <= Cardinality(recs)
  BY <1>2, FS_Subset DEF recs
<1>5. Cardinality(reps) <= Cardinality(SuccessReported')
  BY <1>1, FS_Subset DEF reps
<1>6. Cardinality(SuccessRecords') <= Cardinality(SuccessReported')
  BY <1>1, <1>2, <1>3, <1>4, <1>5, SuccessesFinite DEF ReportedOnce
<1>7. QED
  BY <1>6 DEF ReportedOnce

\* Initially there is no record and no install.
LEMMA InstallsInitInv == Server!InstallsInit => InstallsInv
<1> SUFFICES ASSUME Server!InstallsInit PROVE InstallsInv
  OBVIOUS
<1>1. records = <<>> /\ DOMAIN records = {} /\ records \in Seq(Server!Record)
  BY DEF Server!InstallsInit
<1>2. install \in [Panels -> Install] /\ \A p \in Panels : install[p].step = "none"
  <2>1. Server!NoInstall \in [step: {"none", "record", "spawn", "success", "which", "put", "recheck", "failed"},
            of: 0..MaxInstalls, found: BOOLEAN] /\ Server!NoInstall.step = "none"
    BY ServicesBounds DEF Server!NoInstall
  <2>2. QED
    BY <2>1 DEF Server!InstallsInit, Install
<1>3. InstallsTyped
  BY <1>1, <1>2 DEF Server!InstallsInit, InstallsTyped
<1>4. ReportedOnce
  <2>1. SuccessRecords = {} /\ SuccessReported = {}
    BY <1>1 DEF SuccessRecords, SuccessReported, Server!InstallsInit
  <2>2. QED
    BY <2>1, FS_EmptySet DEF ReportedOnce
<1>5. QED
  BY <1>1, <1>2, <1>3, <1>4 DEF Server!InstallsInit, InstallsInv, OwnRecord, Reporting,
     Server!OutcomesAreTheirOwn

\* A page whose install goes on after its status was reported, or is over
LEMMA AfterReport ==
  ASSUME InstallsInv, NEW p \in Panels, UNCHANGED <<records, outcome, binary>>, ~tangled' => ~tangled,
         install' \in [Panels -> Install], \A q \in Panels : q # p => install'[q] = install[q],
         \/ install'[p].step = "none"
         \/ install'[p].step \in {"put", "recheck"} /\ install'[p].of = install[p].of
              /\ install[p].step # "none"
  PROVE  InstallsInv'
<1>0. InstallsTyped /\ ReportedOnce
  BY DEF InstallsInv
<1>1. InstallsTyped'
  BY DEF InstallsInv, InstallsTyped
<1>2. ASSUME ~tangled' PROVE OwnRecord'
  <2>1. OwnRecord
    BY <1>2 DEF InstallsInv
  <2>2. \A q \in Panels : install'[q].step \in Reporting \cup {"record"} => install'[q] = install[q]
    BY DEF Reporting
  <2>3. QED
    BY <2>1, <2>2 DEF OwnRecord, Reporting
<1>3. Server!OutcomesAreTheirOwn'
  BY DEF InstallsInv, Server!OutcomesAreTheirOwn
<1>4. SuccessRecords' \subseteq SuccessRecords /\ SuccessReported \subseteq SuccessReported'
  BY DEF SuccessRecords, SuccessReported
<1>5. ReportedOnce'
  BY <1>0, <1>1, <1>4, NoneReported
<1>6. QED
  BY <1>1, <1>2, <1>3, <1>5 DEF InstallsInv

\* A step that leaves the installs alone
LEMMA NoInstallStep ==
  ASSUME InstallsInv, UNCHANGED <<records, outcome, tangled, install>>, binary' \in BOOLEAN
  PROVE  InstallsInv'
<1>1. SuccessRecords' = SuccessRecords /\ SuccessReported' = SuccessReported
  BY DEF SuccessRecords, SuccessReported
<1>2. ReportedOnce'
  BY <1>1 DEF InstallsInv, ReportedOnce
<1>3. QED
  BY <1>2 DEF InstallsInv, InstallsTyped, OwnRecord, Server!OutcomesAreTheirOwn

\* A page whose install goes to its next step keeps its number.
LEMMA StepUpdates ==
  ASSUME InstallsTyped, NEW p \in Panels,
         NEW step \in {"spawn", "success", "which", "put", "recheck", "failed"},
         install' = [install EXCEPT ![p].step = step]
  PROVE  /\ install' \in [Panels -> Install] /\ \A q \in Panels : q # p => install'[q] = install[q]
         /\ install'[p].step = step /\ install'[p].of = install[p].of
  BY DEF InstallsTyped, Install

\* Every record is one of an install.
LEMMA RecordsTyped ==
  ASSUME InstallsTyped
  PROVE  \A i \in DOMAIN records : records[i] \in Server!Record /\ records[i].of \in Server!Attempts
<1>1. \A i \in DOMAIN records : records[i] \in Server!Record
  BY DEF InstallsTyped
<1>2. QED
  BY <1>1 DEF Server!Record

\* An install that starts has a number that no record bears.
LEMMA StartInstallKeeps ==
  ASSUME InstallsInv, NEW p \in Panels, Server!StartInstall(p)
  PROVE  InstallsInv'
<1>0. InstallsTyped /\ ReportedOnce
  BY DEF InstallsInv
<1>1. PICK a \in Server!Attempts :
        /\ outcome[a] = "none" /\ outcome' = [outcome EXCEPT ![a] = "running"]
        /\ install' = [install EXCEPT ![p] = [step |-> "record", of |-> a, found |-> FALSE]]
  BY DEF Server!StartInstall
<1>2. UNCHANGED <<records, tangled, binary>> /\ install[p].step = "none"
  BY DEF Server!StartInstall, Server!StoreKept, Server!CoreKept, Server!AtStep
<1>3. /\ install' \in [Panels -> Install] /\ \A q \in Panels : q # p => install'[q] = install[q]
      /\ install'[p].step = "record" /\ install'[p].of = a
  <2>1. [step |-> "record", of |-> a, found |-> FALSE] \in Install
    BY ServicesBounds DEF Install, Server!Attempts
  <2>2. QED
    BY <1>0, <1>1, <2>1 DEF InstallsTyped
<1>4. /\ \A i \in DOMAIN records : records[i].of # a
      /\ \A q \in Panels : install[q].step # "none" => install[q].of # a
      /\ outcome'[a] = "running" /\ \A b \in Server!Attempts : b # a => outcome'[b] = outcome[b]
      /\ \A i \in DOMAIN records : records[i].of \in Server!Attempts
  BY <1>0, <1>1, RecordsTyped DEF InstallsTyped
<1>5. InstallsTyped'
  BY <1>0, <1>1, <1>2, <1>3, <1>4 DEF InstallsTyped
<1>6. ASSUME ~tangled' PROVE OwnRecord'
  <2>1. OwnRecord
    BY <1>2, <1>6 DEF InstallsInv
  <2>2. QED
    BY <1>0, <1>2, <1>3, <1>4, <2>1 DEF OwnRecord, Reporting, InstallsTyped
<1>7. Server!OutcomesAreTheirOwn'
  BY <1>2, <1>4 DEF InstallsInv, Server!OutcomesAreTheirOwn
<1>8. SuccessRecords' \subseteq SuccessRecords /\ SuccessReported \subseteq SuccessReported'
  BY <1>1, <1>2, <1>3, <1>4 DEF SuccessRecords, SuccessReported
<1>9. ReportedOnce'
  BY <1>0, <1>5, <1>8, NoneReported
<1>10. QED
  BY <1>5, <1>6, <1>7, <1>9 DEF InstallsInv

\* An install that fails, or whose page goes away, before it has succeeded
LEMMA EndsFailed ==
  ASSUME InstallsTyped, NEW p \in Panels, install[p].step # "none",
         outcome[install[p].of] = "running",
         outcome' = [outcome EXCEPT ![install[p].of] = "failed"]
  PROVE  /\ install[p].of \in Server!Attempts
         /\ outcome' \in [Server!Attempts -> {"none", "running", "success", "unheard", "failed"}]
         /\ outcome'[install[p].of] = "failed"
         /\ \A a \in Server!Attempts : a # install[p].of => outcome'[a] = outcome[a]
         /\ \A a \in Server!Attempts : outcome[a] # "none" => outcome'[a] # "none"
         /\ \A a \in Server!Attempts : outcome[a] \in {"success", "unheard"} => outcome'[a] = outcome[a]
  BY DEF InstallsTyped

\* createInstallRecord: no other record is running and no other install is to be
\* reported, or the installs are tangled.
LEMMA RecordedKeeps ==
  ASSUME InstallsInv, NEW p \in Panels, NEW reached \in BOOLEAN, NEW heard \in BOOLEAN,
         Server!Recorded(p, reached, heard)
  PROVE  InstallsInv'
<1>0. InstallsTyped /\ ReportedOnce /\ install[p].step = "record"
  BY DEF InstallsInv, Server!Recorded, Server!AtStep
<1> DEFINE new == [status |-> "running", of |-> install[p].of]
           step == IF heard THEN "spawn" ELSE "failed"
<1>1. /\ records' = IF reached THEN Append(records, new) ELSE records
      /\ outcome' = IF heard THEN outcome ELSE [outcome EXCEPT ![install[p].of] = "failed"]
      /\ UNCHANGED binary /\ step \in {"spawn", "failed"}
      /\ install' = [install EXCEPT ![p].step = step]
      /\ tangled' = (tangled \/ ~reached \/ Server!Overlaps)
  BY DEF Server!Recorded, Server!ToStep, Server!CoreKept
<1>2. /\ install[p].of \in Server!Attempts /\ outcome[install[p].of] = "running"
      /\ new \in Server!Record /\ new.status = "running" /\ new.of = install[p].of
  BY <1>0 DEF InstallsTyped, Server!Record
<1>2b. (heard => step = "spawn") /\ (~heard => step = "failed")
  OBVIOUS
<1>3. /\ records' \in Seq(Server!Record)
      /\ \A i \in DOMAIN records' : (i \in DOMAIN records /\ records'[i] = records[i]) \/ records'[i] = new
      /\ \A i \in DOMAIN records : i \in DOMAIN records' /\ records'[i] = records[i]
      /\ reached => \E i \in DOMAIN records' : records'[i] = new
  BY <1>0, <1>1, <1>2 DEF InstallsTyped
<1> HIDE DEF new, step
<1>4. /\ install' \in [Panels -> Install] /\ \A q \in Panels : q # p => install'[q] = install[q]
      /\ install'[p].step = step /\ install'[p].of = install[p].of
  BY <1>0, <1>1, StepUpdates
<1>5. /\ outcome' \in [Server!Attempts -> {"none", "running", "success", "unheard", "failed"}]
      /\ \A a \in Server!Attempts : a # install[p].of => outcome'[a] = outcome[a]
      /\ outcome'[install[p].of] = IF heard THEN "running" ELSE "failed"
      /\ \A a \in Server!Attempts : outcome[a] # "none" => outcome'[a] # "none"
      /\ \A a \in Server!Attempts : outcome[a] \in {"success", "unheard"} => outcome'[a] = outcome[a]
  BY <1>0, <1>1, <1>2, EndsFailed DEF InstallsTyped
<1>6. \A q \in Panels : q # p /\ install[q].step # "none" =>
        install[q].of \in Server!Attempts /\ install[q].of # install[p].of
          /\ outcome'[install[q].of] = outcome[install[q].of]
  BY <1>0, <1>5 DEF InstallsTyped
<1>7. \A i \in DOMAIN records' : outcome'[records'[i].of] # "none"
  BY <1>0, <1>2, <1>3, <1>5, RecordsTyped DEF InstallsTyped
<1>8. InstallsTyped'
  BY <1>0, <1>1, <1>2, <1>2b, <1>3, <1>4, <1>5, <1>6, <1>7 DEF InstallsTyped
<1>9. ASSUME ~tangled' PROVE OwnRecord'
  <2>1. /\ OwnRecord /\ \A i \in DOMAIN records : records[i].status # "running"
        /\ \A q \in Panels : install[q].step \notin {"success", "failed"}
        /\ \E i \in DOMAIN records' : records'[i] = new
    BY <1>1, <1>3, <1>9 DEF InstallsInv, Server!Overlaps
  <2>2. \A q \in Panels : q # p => install[q].step \notin Reporting
    BY <2>1 DEF OwnRecord, Reporting
  <2>3. \A i \in DOMAIN records' : records'[i].status = "running" => records'[i] = new
    BY <1>3, <2>1
  <2>4. \A i \in DOMAIN records' : records'[i].of = install[p].of => records'[i].status = "running"
    BY <1>0, <1>2, <1>3, <2>1 DEF OwnRecord
  <2>5. \A q \in Panels : q # p /\ install[q].step = "record" =>
          \A i \in DOMAIN records' : records'[i].of = install[q].of => records'[i].status = "running"
    BY <1>2, <1>3, <1>6, <2>1 DEF OwnRecord
  <2>6. QED
    BY <1>1, <1>2, <1>4, <2>1, <2>2, <2>3, <2>4, <2>5 DEF OwnRecord, Reporting
<1>10. Server!OutcomesAreTheirOwn'
  <2> SUFFICES ASSUME ~tangled', NEW i \in DOMAIN records'
               PROVE  /\ records'[i].status = "success" => outcome'[records'[i].of] \in {"success", "unheard"}
                      /\ records'[i].status = "failed" => outcome'[records'[i].of] \in {"failed", "unheard"}
    BY DEF Server!OutcomesAreTheirOwn
  <2>1. OwnRecord /\ Server!OutcomesAreTheirOwn /\ ~tangled
    BY <1>1 DEF InstallsInv
  <2>2. CASE records'[i] = new
    BY <1>2, <2>2
  <2>3. CASE i \in DOMAIN records /\ records'[i] = records[i] /\ records[i].of = install[p].of
    BY <1>0, <2>1, <2>3 DEF OwnRecord
  <2>4. CASE i \in DOMAIN records /\ records'[i] = records[i] /\ records[i].of # install[p].of
    BY <1>0, <1>5, <2>1, <2>4, RecordsTyped DEF Server!OutcomesAreTheirOwn
  <2>5. QED
    BY <1>3, <2>2, <2>3, <2>4
<1>11. SuccessRecords' \subseteq SuccessRecords
  BY <1>2, <1>3 DEF SuccessRecords
<1>12. SuccessReported \subseteq SuccessReported'
  BY <1>1, <1>2, <1>4, <1>5 DEF SuccessReported
<1>13. ReportedOnce'
  BY <1>0, <1>8, <1>11, <1>12, NoneReported
<1>14. QED
  BY <1>8, <1>9, <1>10, <1>13 DEF InstallsInv

\* An install whose page is reloaded
LEMMA ReloadKeeps ==
  ASSUME InstallsInv, NEW p \in Panels, install[p].step # "none", tangled', UNCHANGED <<records, binary>>,
         install' \in [Panels -> Install], \A q \in Panels : q # p => install'[q] = install[q],
         install'[p].step = "none",
         outcome' = IF outcome[install[p].of] # "running" THEN outcome
                    ELSE [outcome EXCEPT ![install[p].of] = "failed"]
  PROVE  InstallsInv'
<1>0. InstallsTyped /\ ReportedOnce
  BY DEF InstallsInv
<1>1. /\ outcome' \in [Server!Attempts -> {"none", "running", "success", "unheard", "failed"}]
      /\ \A a \in Server!Attempts : outcome[a] # "none" => outcome'[a] # "none"
      /\ \A a \in Server!Attempts : a # install[p].of => outcome'[a] = outcome[a]
      /\ \A a \in Server!Attempts : outcome[a] \in {"success", "unheard"} => outcome'[a] = outcome[a]
  BY <1>0, EndsFailed DEF InstallsTyped
<1>2. InstallsTyped'
  BY <1>0, <1>1, RecordsTyped DEF InstallsTyped
<1>3. SuccessRecords' \subseteq SuccessRecords /\ SuccessReported \subseteq SuccessReported'
  BY <1>1 DEF SuccessRecords, SuccessReported
<1>4. ReportedOnce'
  BY <1>0, <1>2, <1>3, NoneReported
<1>5. QED
  BY <1>2, <1>4 DEF InstallsInv, Server!OutcomesAreTheirOwn

\* The outcome is known: the record of the install is still running.
LEMMA SpawnedKeeps ==
  ASSUME InstallsInv, NEW p \in Panels, NEW ok \in BOOLEAN, Server!Spawned(p, ok)
  PROVE  InstallsInv'
<1>0. InstallsTyped /\ ReportedOnce
  BY DEF InstallsInv
<1> DEFINE step == IF ok THEN "success" ELSE "failed"
<1>1. /\ install[p].step = "spawn" /\ UNCHANGED <<records, tangled>> /\ step \in {"success", "failed"}
      /\ install' = [install EXCEPT ![p].step = step]
      /\ outcome' = [outcome EXCEPT ![install[p].of] = step]
  BY DEF Server!Spawned, Server!AtStep, Server!ToStep, Server!StoreKept
<1>1b. binary' \in BOOLEAN
  BY <1>0 DEF Server!Spawned, InstallsTyped
<1> HIDE DEF step
<1>2. /\ install' \in [Panels -> Install] /\ \A q \in Panels : q # p => install'[q] = install[q]
      /\ install'[p].step = step /\ install'[p].of = install[p].of
  BY <1>0, <1>1, StepUpdates
<1>3. /\ install[p].of \in Server!Attempts /\ outcome[install[p].of] = "running"
      /\ outcome'[install[p].of] = step
      /\ \A a \in Server!Attempts : a # install[p].of => outcome'[a] = outcome[a]
      /\ outcome' \in [Server!Attempts -> {"none", "running", "success", "unheard", "failed"}]
      /\ \A i \in DOMAIN records : records[i].of \in Server!Attempts
  BY <1>0, <1>1, RecordsTyped DEF InstallsTyped
<1>4. \A q \in Panels : q # p /\ install[q].step # "none" => outcome'[install[q].of] = outcome[install[q].of]
  BY <1>0, <1>1, <1>3 DEF InstallsTyped
<1>5. InstallsTyped'
  BY <1>0, <1>1, <1>1b, <1>2, <1>3, <1>4 DEF InstallsTyped
<1>6. ASSUME ~tangled' PROVE OwnRecord'
  <2>1. OwnRecord
    BY <1>1, <1>6 DEF InstallsInv
  <2>2. QED
    BY <1>1, <1>2, <2>1 DEF OwnRecord, Reporting
<1>7. Server!OutcomesAreTheirOwn'
  <2> SUFFICES ASSUME ~tangled, NEW i \in DOMAIN records
               PROVE  /\ records[i].status = "success" => outcome'[records[i].of] \in {"success", "unheard"}
                      /\ records[i].status = "failed" => outcome'[records[i].of] \in {"failed", "unheard"}
    BY <1>1 DEF Server!OutcomesAreTheirOwn
  <2>1. CASE records[i].of = install[p].of
    BY <1>1, <2>1 DEF InstallsInv, OwnRecord
  <2>2. CASE records[i].of # install[p].of
    BY <1>3, <2>2 DEF InstallsInv, Server!OutcomesAreTheirOwn
  <2>3. QED
    BY <2>1, <2>2
<1>8. SuccessRecords' \subseteq SuccessRecords
  BY <1>1 DEF SuccessRecords
<1>9. SuccessReported \subseteq SuccessReported'
  BY <1>1, <1>2, <1>3 DEF SuccessReported
<1>10. ReportedOnce'
  BY <1>0, <1>5, <1>8, <1>9, NoneReported
<1>11. QED
  BY <1>5, <1>6, <1>7, <1>10 DEF InstallsInv

\* The status of an install: the records stay those of the same installs, and
\* the one that is reported, if any, was running.
LEMMA ReportKeeps ==
  ASSUME InstallsTyped, NEW status \in {"success", "failed"}, NEW reached \in BOOLEAN,
         Server!Reports(status, reached)
  PROVE  /\ records' \in Seq(Server!Record) /\ DOMAIN records' = DOMAIN records
         /\ \A i \in DOMAIN records : records'[i].of = records[i].of
         /\ \A i \in DOMAIN records : records'[i].status = records[i].status
              \/ (records[i].status = "running" /\ records'[i].status = status)
         /\ \E k : \A i \in DOMAIN records : i # k => records'[i] = records[i]
<1>1. PICK n \in Nat : records \in [1..n -> Server!Record]
  BY SeqDef DEF InstallsTyped
<1>2. CASE ~reached
  BY <1>2 DEF Server!Reports, InstallsTyped
<1>3. CASE reached
  <2>1. records' = [i \in 1..n |-> IF i \in Server!Reported THEN [records[i] EXCEPT !.status = status]
                                   ELSE records[i]]
    BY <1>1, <1>3 DEF Server!Reports, Server!Report
  <2>2. \A i \in 1..n : records[i] \in Server!Record
      /\ [records[i] EXCEPT !.status = status] \in Server!Record
      /\ [records[i] EXCEPT !.status = status].of = records[i].of
      /\ [records[i] EXCEPT !.status = status].status = status
    BY <1>1 DEF Server!Record
  <2>3. records' \in [1..n -> Server!Record]
    BY <2>1, <2>2
  <2>4. records' \in Seq(Server!Record)
    BY <2>3, SeqDef
  <2>5. \A i \in Server!Reported : records[i].status = "running"
    BY DEF Server!Reported
  <2>6. \A i, j \in Server!Reported : i = j
    <3> SUFFICES ASSUME NEW i \in Server!Reported, NEW j \in Server!Reported, i < j PROVE FALSE
      BY <1>1 DEF Server!Reported
    <3>1. i \in 1..(j - 1)
      BY <1>1 DEF Server!Reported
    <3>2. QED
      BY <3>1 DEF Server!Reported
  <2>7. \E k : \A i \in DOMAIN records : i # k => records'[i] = records[i]
    <3>1. CASE Server!Reported = {}
      BY <1>1, <2>1, <3>1
    <3>2. CASE Server!Reported # {}
      <4>1. PICK k \in Server!Reported : TRUE
        BY <3>2
      <4>2. \A i \in DOMAIN records : i # k => records'[i] = records[i]
        BY <1>1, <2>1, <2>6, <4>1
      <4>3. QED
        BY <4>2
    <3>3. QED
      BY <3>1, <3>2
  <2>8. QED
    BY <1>1, <2>1, <2>2, <2>3, <2>4, <2>5, <2>7
<1>4. QED
  BY <1>2, <1>3

\* A page reports the status of its install; that the success was reported is
\* known from then on.
LEMMA ReporterKeeps ==
  ASSUME InstallsInv, NEW p \in Panels, NEW status \in {"success", "failed"}, NEW reached \in BOOLEAN,
         install[p].step = status, Server!Reports(status, reached), UNCHANGED <<tangled, binary>>,
         install' \in [Panels -> Install], \A q \in Panels : q # p => install'[q] = install[q],
         \/ install'[p].step = "none" /\ UNCHANGED outcome
         \/ install'[p].step = "which" /\ install'[p].of = install[p].of /\ UNCHANGED outcome
         \/ /\ status = "success" /\ install'[p].step = "failed" /\ install'[p].of = install[p].of
            /\ outcome' = [outcome EXCEPT ![install[p].of] = "unheard"]
  PROVE  InstallsInv'
<1>0. InstallsTyped /\ ReportedOnce /\ install[p].of \in Server!Attempts
  BY DEF InstallsInv, InstallsTyped
<1>1. /\ records' \in Seq(Server!Record) /\ DOMAIN records' = DOMAIN records
      /\ \A i \in DOMAIN records : records'[i].of = records[i].of
      /\ \A i \in DOMAIN records : records'[i].status = records[i].status
           \/ (records[i].status = "running" /\ records'[i].status = status)
      /\ \A i \in DOMAIN records : records[i].of \in Server!Attempts
  BY <1>0, ReportKeeps, RecordsTyped
<1>2. PICK k : \A i \in DOMAIN records : i # k => records'[i] = records[i]
  BY <1>0, ReportKeeps
<1>3. /\ outcome' \in [Server!Attempts -> {"none", "running", "success", "unheard", "failed"}]
      /\ \A a \in Server!Attempts : a # install[p].of => outcome'[a] = outcome[a]
      /\ outcome'[install[p].of] = outcome[install[p].of]
           \/ (status = "success" /\ install'[p].step = "failed" /\ outcome'[install[p].of] = "unheard")
      /\ install'[p].step = "failed" => outcome'[install[p].of] = "unheard"
      /\ status = "success" => outcome[install[p].of] = "success"
      /\ status = "failed" => outcome[install[p].of] \in {"failed", "unheard"}
  BY <1>0 DEF InstallsTyped
<1>4. \A q \in Panels : q # p /\ install[q].step # "none" =>
        install[q].of # install[p].of /\ outcome'[install[q].of] = outcome[install[q].of]
  BY <1>0, <1>3 DEF InstallsTyped
<1>5. \A i \in DOMAIN records' : outcome'[records'[i].of] # "none"
  BY <1>0, <1>1, <1>3 DEF InstallsTyped
<1>6. InstallsTyped'
  BY <1>0, <1>1, <1>3, <1>4, <1>5 DEF InstallsTyped
<1>7. ASSUME ~tangled' PROVE OwnRecord'
  <2>1. OwnRecord
    BY <1>7 DEF InstallsInv
  <2>2. \A q \in Panels : q # p => install[q].step \notin Reporting
    BY <2>1 DEF OwnRecord, Reporting
  <2>3. \A q \in Panels, i \in DOMAIN records :
          q # p /\ install[q].step = "record" /\ records[i].of = install[q].of =>
            records'[i].status = "running"
    <3> SUFFICES ASSUME NEW q \in Panels, NEW i \in DOMAIN records, q # p,
                        install[q].step = "record", records[i].of = install[q].of
                 PROVE  FALSE
      OBVIOUS
    <3>1. records[i].status = "running"
      BY <2>1 DEF OwnRecord
    <3>2. records[i].of = install[p].of
      BY <2>1, <3>1 DEF OwnRecord, Reporting
    <3>3. QED
      BY <1>0, <3>2 DEF InstallsTyped
  <2>4. \A i \in DOMAIN records' : records'[i].status = "running" => records'[i].of = install[p].of
    BY <1>1, <2>1 DEF OwnRecord, Reporting
  <2>5. QED
    BY <1>1, <2>2, <2>3, <2>4 DEF OwnRecord, Reporting
<1>8. Server!OutcomesAreTheirOwn'
  <2> SUFFICES ASSUME ~tangled, NEW i \in DOMAIN records
               PROVE  /\ records'[i].status = "success" => outcome'[records[i].of] \in {"success", "unheard"}
                      /\ records'[i].status = "failed" => outcome'[records[i].of] \in {"failed", "unheard"}
    BY <1>1 DEF Server!OutcomesAreTheirOwn
  <2>1. CASE records'[i].status = records[i].status
    BY <1>1, <1>3, <2>1 DEF InstallsInv, Server!OutcomesAreTheirOwn
  <2>2. CASE records[i].status = "running" /\ records'[i].status = status
    <3>1. records[i].of = install[p].of
      BY <2>2 DEF InstallsInv, OwnRecord, Reporting
    <3>2. QED
      BY <1>3, <2>2, <3>1
  <2>3. QED
    BY <1>1, <2>1, <2>2
<1>9. ReportedOnce'
  <2>1. CASE status = "failed"
    <3>1. SuccessRecords' \subseteq SuccessRecords
      BY <1>1, <2>1 DEF SuccessRecords
    <3>2. SuccessReported \subseteq SuccessReported'
      BY <1>3, <2>1 DEF SuccessReported
    <3>3. QED
      BY <1>0, <1>6, <3>1, <3>2, NoneReported
  <2>2. CASE status = "success"
    <3>1. SuccessRecords' \subseteq SuccessRecords \cup {k}
      BY <1>1, <1>2 DEF SuccessRecords
    <3>2. SuccessReported \subseteq SuccessReported' /\ install[p].of \notin SuccessReported
      BY <1>3, <2>2 DEF SuccessReported
    <3>3. install[p].of \in SuccessReported'
      BY <1>0, <1>3, <1>4, <2>2 DEF SuccessReported
    <3>4. QED
      BY ZenonT(60), <1>0, <1>6, <3>1, <3>2, <3>3, OneReported
  <2>3. QED
    BY <2>1, <2>2
<1>10. QED
  BY <1>6, <1>7, <1>8, <1>9 DEF InstallsInv

\* Every step of the installs keeps their invariant.
LEMMA InstallStepKeeps ==
  ASSUME InstallsInv, Server!InstallsNext
  PROVE  InstallsInv'
<1>0. InstallsTyped /\ install \in [Panels -> Install]
  BY DEF InstallsInv, InstallsTyped
<1>1. ASSUME NEW p \in Panels, \/ Server!Checked(p) \/ Server!Verify(p)
                               \/ Server!VerifyAnswered(p) \/ Server!PutVerified(p)
      PROVE  InstallsInv'
  BY <1>0, <1>1, NoInstallStep DEF Server!Checked, Server!Verify, Server!VerifyAnswered,
     Server!PutVerified, Server!StoreKept, Server!CoreKept, InstallsTyped
<1>2. CASE Server!BinaryRemoved
  BY <1>2, NoInstallStep DEF Server!BinaryRemoved, Server!StoreKept
<1>3. ASSUME NEW p \in Panels, NEW reached \in BOOLEAN, NEW heard \in BOOLEAN,
             Server!Succeeded(p, reached, heard)
      PROVE  InstallsInv'
  <2>1. PICK step \in {"which", "failed"} :
          /\ install' = [install EXCEPT ![p].step = step] /\ (step = "which" <=> heard)
    BY <1>3 DEF Server!Succeeded, Server!ToStep
  <2>2. /\ install' \in [Panels -> Install] /\ \A q \in Panels : q # p => install'[q] = install[q]
        /\ install'[p].step = step /\ install'[p].of = install[p].of
    BY <1>0, <2>1, StepUpdates
  <2>3. QED
    BY <1>3, <2>1, <2>2, ReporterKeeps DEF Server!Succeeded, Server!AtStep, Server!CoreKept
<1> DEFINE over(p) == [install EXCEPT ![p] = Server!NoInstall]
<1>5. \A p \in Panels : /\ over(p) \in [Panels -> Install] /\ over(p)[p].step = "none"
                        /\ \A q \in Panels : q # p => over(p)[q] = install[q]
  <2>1. Server!NoInstall \in Install /\ Server!NoInstall.step = "none"
    BY ServicesBounds DEF Server!NoInstall, Install
  <2>2. QED
    BY <1>0, <2>1
<1>6. ASSUME NEW p \in Panels, NEW reached \in BOOLEAN, Server!Failed(p, reached) PROVE InstallsInv'
  BY <1>5, <1>6, ReporterKeeps DEF Server!Failed, Server!AtStep, Server!CoreKept
<1>7. ASSUME NEW p \in Panels, Server!Which(p) PROVE InstallsInv'
  <2>1. PICK step \in {"put", "recheck"} :
          install' = [install EXCEPT ![p].step = step, ![p].found = binary]
    BY <1>7 DEF Server!Which
  <2>2. /\ install' \in [Panels -> Install] /\ \A q \in Panels : q # p => install'[q] = install[q]
        /\ install'[p].step = step /\ install'[p].of = install[p].of
    BY <1>0, <2>1 DEF InstallsTyped, Install
  <2>3. QED
    BY <1>0, <1>7, <2>1, <2>2, AfterReport DEF Server!Which, Server!AtStep, Server!StoreKept,
       Server!CoreKept
<1>8. ASSUME NEW p \in Panels, Server!PutInstalled(p) PROVE InstallsInv'
  BY <1>0, <1>8, StepUpdates, AfterReport DEF Server!PutInstalled, Server!AtStep, Server!ToStep, Server!CoreKept
<1>9. ASSUME NEW p \in Panels, Server!Rechecks(p) PROVE InstallsInv'
  BY <1>5, <1>9, AfterReport DEF Server!Rechecks, Server!StoreKept, Server!CoreKept
<1>10. ASSUME NEW p \in Panels, Server!Reload(p) PROVE InstallsInv'
  <2>1. CASE install[p].step = "none"
    <3>1. UNCHANGED <<records, outcome, binary>> /\ install' = over(p) /\ (~tangled' => ~tangled)
      BY <1>10, <2>1 DEF Server!Reload, Server!AtStep, Server!CoreKept
    <3>2. QED
      BY <1>5, <3>1, AfterReport
  <2>2. CASE install[p].step # "none"
    BY <1>5, <1>10, <2>2, ReloadKeeps DEF Server!Reload, Server!AtStep, Server!CoreKept
  <2>3. QED
    BY <2>1, <2>2
<1>11. QED
  BY <1>1, <1>2, <1>3, <1>6, <1>7, <1>8, <1>9, <1>10, StartInstallKeeps, RecordedKeeps,
     SpawnedKeeps DEF Server!InstallsNext

-----------------------------------------------------------------------------
(* The runs of a page *)
\* What a click of Apply waits for
Click == [step: {"none", "stop", "stopped", "create", "created"}, run: RunIds \cup {NoRun}]

\* The types of the views; the runs they know and wait for are runs of Core.
ChatsTyped ==
  /\ chat \in [Chats -> Adapters!Hook] /\ apply \in [Chats -> [Clicks -> Click]]
  /\ \A c \in Chats : chat[c].ref \in used \cup {NoRun}
  /\ \A c \in Chats, k \in Clicks :
       apply[c][k].step \in {"stop", "stopped", "created"} => apply[c][k].run \in used

\* The types of the runs
RunsTyped ==
  alive \subseteq used /\ used \subseteq RunIds /\ owner \in [RunIds -> Chats \cup {NoChat}]

\* Unless a view was left or applied again while a click was served, it serves
\* one click at a time, for a mounted view, and knows the run it stops.
OneClick ==
  \A c \in Chats : c \notin rushed =>
    /\ \A j, k \in Clicks : apply[c][j].step # "none" /\ apply[c][k].step # "none" => j = k
    /\ \A k \in Clicks :
         /\ apply[c][k].step # "none" => chat[c].mounted
         /\ apply[c][k].step \in {"stop", "stopped"} => chat[c].ref = apply[c][k].run
         /\ apply[c][k].step \in {"create", "created"} => chat[c].ref = NoRun

\* A run whose stop was answered is dead, or its stop was lost with the link.
StoppedIsDead ==
  \A c \in Chats, k \in Clicks :
    apply[c][k].step = "stopped" => apply[c][k].run \notin alive \/ apply[c][k].run \in unstopped

\* What the answer of run.list names lives, or its end was noted.
ListedLives == listing.runs \subseteq alive \cup stale

\* The inductive invariant of the adapters
OwnInv == RunsTyped /\ ChatsTyped /\ OneClick /\ StoppedIsDead /\ Adapters!AdaptersAreOwned
\* The inductive invariant of the list
ListInv == instances \in [RunIds -> {"absent", "running", "stopped"}] /\ ListedLives /\ Adapters!ListedIsAlive

\* A click that waits for nothing, and what one may wait for
LEMMA IdleClick ==
  /\ Adapters!Idle \in Click /\ Adapters!Idle.step = "none"
  /\ \A run \in RunIds \cup {NoRun}, step \in {"none", "stop", "stopped", "create", "created"} :
       [step |-> step, run |-> run] \in Click
  BY DEF Adapters!Idle, Click

-----------------------------------------------------------------------------
\* The list

\* The page starts with an empty list.
LEMMA ListInitInv == Adapters!PageRunsInit => ListInv
  BY DEF Adapters!PageRunsInit, ListInv, ListedLives, Adapters!ListedIsAlive

\* The end of a run is told, or noted as missed.
LEMMA EndsKeepsList ==
  ASSUME ListInv, NEW run, Adapters!Ends(run), UNCHANGED <<instances, listing>>
  PROVE  ListInv'
  BY DEF ListInv, ListedLives, Adapters!ListedIsAlive, Adapters!Ends

\* A run that starts is on no list yet.
LEMMA StartsKeepsList ==
  ASSUME ListInv, NEW run, NEW by, Adapters!Starts(run, by), UNCHANGED <<instances, listing, stops, stale>>
  PROVE  ListInv'
  BY DEF ListInv, ListedLives, Adapters!ListedIsAlive, Adapters!Starts

\* A step that concerns neither the runs nor the list
LEMMA QuietKeepsList ==
  ASSUME ListInv, UNCHANGED <<alive, stops, stale, instances, listing>>
  PROVE  ListInv'
  BY DEF ListInv, ListedLives, Adapters!ListedIsAlive

\* Every step keeps the invariant of the list.
LEMMA ListStepKeeps ==
  ASSUME ListInv, Adapters!PageRunsNext
  PROVE  ListInv'
<1> USE DEF Adapters!CoreKept, Adapters!coreVars, Adapters!listVars
<1>1. ASSUME NEW c \in Chats, Adapters!Unmount(c) PROVE ListInv'
  BY <1>1, QuietKeepsList DEF Adapters!Unmount
<1>2. ASSUME NEW c \in Chats, NEW k \in Clicks,
             \/ Adapters!Apply(c, k) \/ Adapters!StopAnswered(c, k)
             \/ Adapters!CreateAnswered(c, k) \/ Adapters!CreateFails(c, k)
      PROVE  ListInv'
  BY <1>2, QuietKeepsList DEF Adapters!Apply, Adapters!StopAnswered, Adapters!CreateAnswered,
     Adapters!CreateFails
<1>3. ASSUME NEW c \in Chats, NEW k \in Clicks, Adapters!CoreStops(c, k) PROVE ListInv'
  BY <1>3, EndsKeepsList DEF Adapters!CoreStops
<1>4. ASSUME NEW c \in Chats, NEW k \in Clicks, NEW run \in RunIds, Adapters!CoreCreates(c, k, run)
      PROVE  ListInv'
  BY <1>4, StartsKeepsList DEF Adapters!CoreCreates
<1>5. ASSUME NEW run \in RunIds, Adapters!CoreKills(run) \/ Adapters!RunExits(run) PROVE ListInv'
  BY <1>5, EndsKeepsList DEF Adapters!CoreKills, Adapters!RunExits
<1>6. ASSUME NEW run \in RunIds, Adapters!SessionStopped(run) PROVE ListInv'
  BY <1>6 DEF ListInv, ListedLives, Adapters!ListedIsAlive, Adapters!SessionStopped
<1>7. ASSUME NEW run \in RunIds, Adapters!CoreServesCreate(run) PROVE ListInv'
  BY <1>7, StartsKeepsList DEF Adapters!CoreServesCreate
<1>8. ASSUME NEW run \in RunIds, Adapters!KillInstance(run) PROVE ListInv'
  BY <1>8 DEF ListInv, ListedLives, Adapters!ListedIsAlive, Adapters!KillInstance
<1>9. CASE Adapters!Refresh
  BY <1>9 DEF ListInv, ListedLives, Adapters!ListedIsAlive, Adapters!Refresh
<1>10. CASE Adapters!CoreLists
  BY <1>10 DEF ListInv, ListedLives, Adapters!ListedIsAlive, Adapters!CoreLists
<1>11. CASE Adapters!ListAnswered
  BY <1>11 DEF ListInv, ListedLives, Adapters!ListedIsAlive, Adapters!ListAnswered, Adapters!Listed,
     Adapters!NoList
<1>12. CASE Adapters!CreateInstance
  BY <1>12, QuietKeepsList DEF Adapters!CreateInstance
<1>13. CASE Adapters!InstanceCreated
  BY <1>13 DEF ListInv, ListedLives, Adapters!ListedIsAlive, Adapters!InstanceCreated
<1>14. CASE Adapters!CoreServesKill
  BY <1>14, EndsKeepsList DEF Adapters!CoreServesKill
<1>15. CASE Adapters!LinkLost
  BY <1>15 DEF ListInv, ListedLives, Adapters!ListedIsAlive, Adapters!LinkLost, Adapters!NoList
<1>16. CASE Adapters!LinkBack
  BY <1>16 DEF ListInv, ListedLives, Adapters!ListedIsAlive, Adapters!LinkBack
<1>17. QED
  BY <1>1, <1>2, <1>3, <1>4, <1>5, <1>6, <1>7, <1>8, <1>9, <1>10, <1>11, <1>12, <1>13, <1>14,
     <1>15, <1>16 DEF Adapters!PageRunsNext

-----------------------------------------------------------------------------
\* The adapters

\* Initially no adapter lives.
LEMMA OwnInitInv == Adapters!PageRunsInit => OwnInv
<1> SUFFICES ASSUME Adapters!PageRunsInit PROVE OwnInv
  OBVIOUS
<1>1. RunsTyped
  BY DEF Adapters!PageRunsInit, RunsTyped
<1>2. apply \in [Chats -> [Clicks -> Click]] /\ \A c \in Chats, k \in Clicks : apply[c][k].step = "none"
  BY IdleClick DEF Adapters!PageRunsInit
<1>3. chat \in [Chats -> Adapters!Hook] /\ \A c \in Chats : chat[c].ref = NoRun
  BY DEF Adapters!PageRunsInit, Adapters!Hook
<1>4. ChatsTyped
  BY <1>2, <1>3 DEF ChatsTyped
<1>5. OneClick /\ StoppedIsDead /\ Adapters!AdaptersAreOwned
  BY <1>2 DEF OneClick, StoppedIsDead, Adapters!AdaptersAreOwned, Adapters!PageRunsInit
<1>6. QED
  BY <1>1, <1>4, <1>5 DEF OwnInv

\* A step that concerns no adapter
LEMMA QuietKeepsOwn ==
  ASSUME OwnInv, UNCHANGED <<alive, owner, used, chat, apply, kills, rushed, unstopped>>
  PROVE  OwnInv'
  BY DEF OwnInv, RunsTyped, ChatsTyped, OneClick, StoppedIsDead, Adapters!AdaptersAreOwned

\* The end of a run
LEMMA EndsKeepsOwn ==
  ASSUME OwnInv, NEW run, Adapters!Ends(run), UNCHANGED <<chat, apply, rushed, unstopped>>,
         kills \subseteq kills' \cup {run}
  PROVE  OwnInv'
<1>1. alive' = alive \ {run} /\ UNCHANGED <<owner, used>>
  BY DEF Adapters!Ends
<1>2. RunsTyped' /\ ChatsTyped' /\ OneClick' /\ StoppedIsDead'
  BY <1>1 DEF OwnInv, RunsTyped, ChatsTyped, OneClick, StoppedIsDead
<1>3. Adapters!AdaptersAreOwned'
  BY <1>1 DEF OwnInv, Adapters!AdaptersAreOwned
<1>4. QED
  BY <1>2, <1>3 DEF OwnInv

\* What a click waits for changes.
LEMMA ClickUpdates ==
  ASSUME ChatsTyped, NEW c \in Chats, NEW k \in Clicks, NEW x \in Click,
         apply' = [apply EXCEPT ![c][k] = x]
  PROVE  /\ apply' \in [Chats -> [Clicks -> Click]] /\ apply'[c][k] = x
         /\ \A d \in Chats, j \in Clicks : d # c \/ j # k => apply'[d][j] = apply[d][j]
  BY DEF ChatsTyped

\* A run starts for a click, or for the page.
LEMMA StartsKeepsOwn ==
  ASSUME OwnInv, NEW run \in RunIds, NEW by \in Chats \cup {NoChat}, Adapters!Starts(run, by),
         UNCHANGED <<chat, kills, rushed, unstopped>>,
         \/ by = NoChat /\ UNCHANGED apply
         \/ \E k \in Clicks : /\ by \in Chats /\ apply[by][k].step = "create"
                              /\ apply' = [apply EXCEPT ![by][k] = [step |-> "created", run |-> run]]
  PROVE  OwnInv'
<1>0. RunsTyped /\ ChatsTyped
  BY DEF OwnInv
<1>1. /\ alive' = alive \cup {run} /\ used' = used \cup {run} /\ run \notin used
      /\ owner' = [owner EXCEPT ![run] = by]
  BY DEF Adapters!Starts
<1>2. RunsTyped'
  BY <1>0, <1>1 DEF RunsTyped
<1>3. \A r \in alive : r # run /\ owner'[r] = owner[r]
  BY <1>0, <1>1 DEF RunsTyped
<1>4. owner'[run] = by
  BY <1>0, <1>1 DEF RunsTyped
<1>5. CASE by = NoChat /\ UNCHANGED apply
  <2>1. ChatsTyped' /\ OneClick'
    BY <1>1, <1>5 DEF OwnInv, ChatsTyped, OneClick
  <2>2. StoppedIsDead'
    BY <1>0, <1>1, <1>5 DEF OwnInv, StoppedIsDead, ChatsTyped
  <2>3. Adapters!AdaptersAreOwned'
    BY <1>1, <1>3, <1>4, <1>5 DEF OwnInv, Adapters!AdaptersAreOwned
  <2>4. QED
    BY <1>2, <2>1, <2>2, <2>3 DEF OwnInv
<1>6. ASSUME NEW k \in Clicks, by \in Chats, apply[by][k].step = "create",
             apply' = [apply EXCEPT ![by][k] = [step |-> "created", run |-> run]]
      PROVE  OwnInv'
  <2> DEFINE x == [step |-> "created", run |-> run]
  <2>1. x \in Click /\ x.step = "created" /\ x.run = run
    BY DEF Click
  <2>2. /\ apply' \in [Chats -> [Clicks -> Click]] /\ apply'[by][k] = x
        /\ \A d \in Chats, j \in Clicks : d # by \/ j # k => apply'[d][j] = apply[d][j]
    BY ZenonT(60), <1>0, <1>6, <2>1, ClickUpdates
  <2> HIDE DEF x
  <2>3. ChatsTyped'
    BY <1>0, <1>1, <2>1, <2>2 DEF ChatsTyped
  <2>4. OneClick'
    BY <1>6, <2>1, <2>2 DEF OwnInv, OneClick
  <2>5. StoppedIsDead'
    BY <1>0, <1>1, <2>1, <2>2 DEF OwnInv, StoppedIsDead, ChatsTyped
  <2>6. Adapters!AdaptersAreOwned'
    <3> SUFFICES ASSUME NEW r \in alive', owner'[r] # NoChat, owner'[r] \notin rushed, r \notin unstopped
                 PROVE  \/ chat[owner'[r]].mounted /\ chat[owner'[r]].ref = r
                        \/ r \in kills
                        \/ \E j \in Clicks : apply'[owner'[r]][j].step = "created" /\ apply'[owner'[r]][j].run = r
      BY DEF Adapters!AdaptersAreOwned
    <3>1. CASE r = run
      BY <1>4, <2>1, <2>2, <3>1
    <3>2. CASE r \in alive
      <4>1. owner[r] \in Chats
        BY <1>0, <1>3, <3>2 DEF RunsTyped
      <4>2. QED
        BY <1>3, <1>6, <2>2, <3>2, <4>1 DEF OwnInv, Adapters!AdaptersAreOwned
    <3>3. QED
      BY <1>1, <3>1, <3>2
  <2>7. QED
    BY <1>2, <2>3, <2>4, <2>5, <2>6 DEF OwnInv
<1>7. QED
  BY <1>5, <1>6

\* createAdapter forgets the run that the view knew.
LEMMA ForgettingFacts ==
  ASSUME ChatsTyped, NEW c \in Chats, NEW k \in Clicks, Adapters!Creating(c, k)
  PROVE  /\ chat' \in [Chats -> Adapters!Hook] /\ apply' \in [Chats -> [Clicks -> Click]]
         /\ chat'[c].ref = NoRun /\ chat'[c].mounted = chat[c].mounted
         /\ \A d \in Chats : d # c => chat'[d] = chat[d]
         /\ apply'[c][k].step \in {"none", "create"}
         /\ \A d \in Chats, j \in Clicks : d # c \/ j # k => apply'[d][j] = apply[d][j]
<1>0. chat \in [Chats -> Adapters!Hook]
  BY DEF ChatsTyped
<1>1. PICK status \in {"creating", "stopped", chat[c].status} :
        chat' = [chat EXCEPT ![c].ref = NoRun, ![c].status = status]
  BY DEF Adapters!Creating
<1>2. PICK x \in Click : apply' = [apply EXCEPT ![c][k] = x] /\ x.step \in {"none", "create"}
  <2>1. CASE linked
    <3>1. [step |-> "create", run |-> NoRun] \in Click
      BY DEF Click
    <3>2. QED
      BY <2>1, <3>1 DEF Adapters!Creating
  <2>2. CASE ~linked
    BY <2>2, IdleClick DEF Adapters!Creating
  <2>3. QED
    BY <2>1, <2>2
<1>3. status \in {"idle", "creating", "running", "stopped", "error"}
  BY <1>0 DEF Adapters!Hook
<1>4. chat' \in [Chats -> Adapters!Hook]
  BY <1>0, <1>1, <1>3 DEF Adapters!Hook
<1>5. /\ chat'[c].ref = NoRun /\ chat'[c].mounted = chat[c].mounted
      /\ \A d \in Chats : d # c => chat'[d] = chat[d]
  BY <1>0, <1>1 DEF Adapters!Hook
<1>6. QED
  BY ZenonT(60), <1>2, <1>4, <1>5, ClickUpdates

\* It may, if that run is dead or its stop is known to be missing.
LEMMA ForgettingKeeps ==
  ASSUME OwnInv, NEW c \in Chats, NEW k \in Clicks, Adapters!Creating(c, k),
         UNCHANGED <<alive, owner, used, kills>>, rushed \subseteq rushed', unstopped \subseteq unstopped',
         c \notin rushed' => \A j \in Clicks : j # k => apply[c][j].step = "none",
         c \notin rushed' => chat[c].mounted, apply[c][k].step # "created",
         c \notin rushed' => chat[c].ref \notin alive \/ chat[c].ref \in unstopped'
  PROVE  OwnInv'
<1>0. RunsTyped /\ ChatsTyped
  BY DEF OwnInv
<1>1. /\ chat' \in [Chats -> Adapters!Hook] /\ apply' \in [Chats -> [Clicks -> Click]]
      /\ chat'[c].ref = NoRun /\ chat'[c].mounted = chat[c].mounted
      /\ \A d \in Chats : d # c => chat'[d] = chat[d]
      /\ apply'[c][k].step \in {"none", "create"}
      /\ \A d \in Chats, j \in Clicks : d # c \/ j # k => apply'[d][j] = apply[d][j]
  BY <1>0, ForgettingFacts
<1>2. RunsTyped' /\ ChatsTyped'
  BY <1>0, <1>1 DEF RunsTyped, ChatsTyped
<1>3. OneClick'
  <2> SUFFICES ASSUME NEW d \in Chats, d \notin rushed'
               PROVE  /\ \A i, j \in Clicks : apply'[d][i].step # "none" /\ apply'[d][j].step # "none" => i = j
                      /\ \A j \in Clicks :
                           /\ apply'[d][j].step # "none" => chat'[d].mounted
                           /\ apply'[d][j].step \in {"stop", "stopped"} => chat'[d].ref = apply'[d][j].run
                           /\ apply'[d][j].step \in {"create", "created"} => chat'[d].ref = NoRun
    BY DEF OneClick
  <2>1. CASE d = c
    BY <1>1, <2>1
  <2>2. CASE d # c
    <3>1. \A j \in Clicks : apply'[d][j] = apply[d][j]
      BY <1>1, <2>2
    <3>2. chat'[d] = chat[d] /\ d \notin rushed
      BY <1>1, <2>2
    <3>3. QED
      BY <3>1, <3>2 DEF OwnInv, OneClick
  <2>3. QED
    BY <2>1, <2>2
<1>4. StoppedIsDead'
  <2> SUFFICES ASSUME NEW d \in Chats, NEW j \in Clicks, apply'[d][j].step = "stopped"
               PROVE  apply'[d][j].run \notin alive \/ apply'[d][j].run \in unstopped'
    BY DEF StoppedIsDead
  <2>1. apply'[d][j] = apply[d][j]
    BY <1>1
  <2>2. QED
    BY <2>1 DEF OwnInv, StoppedIsDead
<1>5. Adapters!AdaptersAreOwned'
  <2> SUFFICES ASSUME NEW r \in alive, owner[r] # NoChat, owner[r] \notin rushed', r \notin unstopped'
               PROVE  \/ chat'[owner[r]].mounted /\ chat'[owner[r]].ref = r
                      \/ r \in kills
                      \/ \E j \in Clicks : apply'[owner[r]][j].step = "created" /\ apply'[owner[r]][j].run = r
    BY DEF Adapters!AdaptersAreOwned
  <2>1. owner[r] \in Chats /\ owner[r] \notin rushed /\ r \notin unstopped
    BY <1>0 DEF RunsTyped
  <2>2. \/ chat[owner[r]].mounted /\ chat[owner[r]].ref = r
        \/ r \in kills
        \/ \E j \in Clicks : apply[owner[r]][j].step = "created" /\ apply[owner[r]][j].run = r
    BY <2>1 DEF OwnInv, Adapters!AdaptersAreOwned
  <2>3. chat[owner[r]].mounted /\ chat[owner[r]].ref = r => owner[r] # c
    OBVIOUS
  <2>4. ASSUME NEW j \in Clicks, apply[owner[r]][j].step = "created" PROVE apply'[owner[r]][j] = apply[owner[r]][j]
    BY <1>1, <2>1, <2>4
  <2>5. QED
    BY <1>1, <2>1, <2>2, <2>3, <2>4
<1>6. QED
  BY <1>2, <1>3, <1>4, <1>5 DEF OwnInv

\* Apply stops the run its view knows, or leaves it unstopped for want of a link.
LEMMA ApplyKeeps ==
  ASSUME OwnInv, NEW c \in Chats, NEW k \in Clicks, Adapters!Apply(c, k)
  PROVE  OwnInv'
<1>0. RunsTyped /\ ChatsTyped
  BY DEF OwnInv
<1>1. /\ chat[c].mounted /\ apply[c][k].step = "none"
      /\ rushed \subseteq rushed' /\ rushed' \subseteq rushed \cup {c}
      /\ c \notin rushed' => \A j \in Clicks : apply[c][j].step = "none"
      /\ UNCHANGED <<alive, owner, used, kills>>
  BY IdleClick DEF Adapters!Apply, Adapters!CoreKept, Adapters!coreVars
<1>2. CASE Adapters!Restarts(c) /\ linked
  <2> DEFINE x == [step |-> "stop", run |-> chat[c].ref]
  <2>1. UNCHANGED <<chat, unstopped>> /\ apply' = [apply EXCEPT ![c][k] = x]
    BY <1>2 DEF Adapters!Apply
  <2>2. chat[c].ref \in used /\ x \in Click /\ x.step = "stop" /\ x.run = chat[c].ref
    BY <1>0, <1>2 DEF ChatsTyped, RunsTyped, Click, Adapters!Restarts
  <2>3. /\ apply' \in [Chats -> [Clicks -> Click]] /\ apply'[c][k] = x
        /\ \A d \in Chats, j \in Clicks : d # c \/ j # k => apply'[d][j] = apply[d][j]
    BY ZenonT(60), <1>0, <2>1, <2>2, ClickUpdates
  <2> HIDE DEF x
  <2>4. RunsTyped' /\ ChatsTyped' /\ StoppedIsDead'
    BY <1>0, <1>1, <2>1, <2>2, <2>3 DEF OwnInv, RunsTyped, ChatsTyped, StoppedIsDead
  <2>5. OneClick'
    BY <1>1, <2>1, <2>2, <2>3 DEF OwnInv, OneClick
  <2>6. Adapters!AdaptersAreOwned'
    <3> SUFFICES ASSUME NEW r \in alive, owner[r] # NoChat, owner[r] \notin rushed', r \notin unstopped
                 PROVE  \/ chat[owner[r]].mounted /\ chat[owner[r]].ref = r
                        \/ r \in kills
                        \/ \E j \in Clicks : apply'[owner[r]][j].step = "created" /\ apply'[owner[r]][j].run = r
      BY <1>1, <2>1 DEF Adapters!AdaptersAreOwned
    <3>1. owner[r] \in Chats /\ owner[r] \notin rushed
      BY <1>0, <1>1 DEF RunsTyped
    <3>2. \A j \in Clicks : apply[owner[r]][j].step = "created" => apply'[owner[r]][j] = apply[owner[r]][j]
      BY <1>1, <2>3, <3>1
    <3>3. QED
      BY <3>1, <3>2 DEF OwnInv, Adapters!AdaptersAreOwned
  <2>7. QED
    BY <2>4, <2>5, <2>6 DEF OwnInv
<1>3. CASE ~(Adapters!Restarts(c) /\ linked)
  <2>1. /\ Adapters!Creating(c, k)
        /\ unstopped' = IF chat[c].ref # NoRun THEN unstopped \cup {chat[c].ref} ELSE unstopped
    BY <1>3 DEF Adapters!Apply, Adapters!Restarts
  <2>2. chat[c].ref \notin alive \/ chat[c].ref \in unstopped'
    BY <1>0, <2>1, ServicesBounds DEF RunsTyped
  <2>3. QED
    BY <1>1, <2>1, <2>2, ForgettingKeeps
<1>4. QED
  BY <1>2, <1>3

\* Core ends the run of a stop.
LEMMA CoreStopsKeeps ==
  ASSUME OwnInv, NEW c \in Chats, NEW k \in Clicks, Adapters!CoreStops(c, k)
  PROVE  OwnInv'
<1>0. RunsTyped /\ ChatsTyped /\ apply[c][k] \in Click
  BY DEF OwnInv, ChatsTyped
<1> DEFINE x == [apply[c][k] EXCEPT !.step = "stopped"]
<1>1. /\ apply[c][k].step = "stop" /\ alive' = alive \ {apply[c][k].run}
      /\ UNCHANGED <<owner, used, chat, kills, rushed, unstopped>>
      /\ apply' = [apply EXCEPT ![c][k].step = "stopped"]
  BY DEF Adapters!CoreStops, Adapters!Ends, Adapters!At
<1>2. x \in Click /\ x.step = "stopped" /\ x.run = apply[c][k].run
  BY <1>0 DEF Click
<1>3. apply' = [apply EXCEPT ![c][k] = x]
  BY <1>0, <1>1 DEF ChatsTyped
<1>4. /\ apply' \in [Chats -> [Clicks -> Click]] /\ apply'[c][k] = x
      /\ \A d \in Chats, j \in Clicks : d # c \/ j # k => apply'[d][j] = apply[d][j]
  BY ZenonT(60), <1>0, <1>2, <1>3, ClickUpdates
<1> HIDE DEF x
<1>5. RunsTyped' /\ ChatsTyped' /\ StoppedIsDead'
  BY <1>0, <1>1, <1>2, <1>4 DEF OwnInv, RunsTyped, ChatsTyped, StoppedIsDead
<1>6. OneClick'
  BY <1>1, <1>2, <1>4 DEF OwnInv, OneClick
<1>7. Adapters!AdaptersAreOwned'
  <2> SUFFICES ASSUME NEW r \in alive', owner[r] # NoChat, owner[r] \notin rushed, r \notin unstopped
               PROVE  \/ chat[owner[r]].mounted /\ chat[owner[r]].ref = r
                      \/ r \in kills
                      \/ \E j \in Clicks : apply'[owner[r]][j].step = "created" /\ apply'[owner[r]][j].run = r
    BY <1>1 DEF Adapters!AdaptersAreOwned
  <2>1. owner[r] \in Chats /\ r \in alive
    BY <1>0, <1>1 DEF RunsTyped
  <2>2. \A j \in Clicks : apply[owner[r]][j].step = "created" => apply'[owner[r]][j] = apply[owner[r]][j]
    BY <1>1, <1>4, <2>1
  <2>3. QED
    BY <2>1, <2>2 DEF OwnInv, Adapters!AdaptersAreOwned
<1>8. QED
  BY <1>5, <1>6, <1>7 DEF OwnInv

\* The view forgets the run that is stopped (use-adapter-lifecycle.ts:34).
LEMMA StopAnsweredKeeps ==
  ASSUME OwnInv, NEW c \in Chats, NEW k \in Clicks, Adapters!StopAnswered(c, k)
  PROVE  OwnInv'
<1>1. /\ Adapters!Creating(c, k) /\ apply[c][k].step = "stopped"
      /\ UNCHANGED <<alive, owner, used, kills, rushed, unstopped>>
  BY DEF Adapters!StopAnswered, Adapters!At, Adapters!CoreKept, Adapters!coreVars
<1>2. c \notin rushed => /\ chat[c].mounted /\ chat[c].ref = apply[c][k].run
                         /\ \A j \in Clicks : j # k => apply[c][j].step = "none"
  BY <1>1 DEF OwnInv, OneClick
<1>3. apply[c][k].run \notin alive \/ apply[c][k].run \in unstopped
  BY <1>1 DEF OwnInv, StoppedIsDead
<1>4. QED
  BY <1>1, <1>2, <1>3, ForgettingKeeps

\* The view knows the run that was created for it, and knew none before.
LEMMA CreateAnsweredKeeps ==
  ASSUME OwnInv, NEW c \in Chats, NEW k \in Clicks, Adapters!CreateAnswered(c, k)
  PROVE  OwnInv'
<1>0. RunsTyped /\ ChatsTyped /\ apply[c][k] \in Click /\ chat[c] \in Adapters!Hook
  BY DEF OwnInv, ChatsTyped
<1>1. /\ apply[c][k].step = "created"
      /\ UNCHANGED <<alive, owner, used, kills, rushed, unstopped>>
      /\ chat' = [chat EXCEPT ![c].ref = apply[c][k].run, ![c].status = "running"]
      /\ apply' = [apply EXCEPT ![c][k] = Adapters!Idle]
  BY DEF Adapters!CreateAnswered, Adapters!At, Adapters!CoreKept, Adapters!coreVars
<1>2. apply[c][k].run \in used /\ apply[c][k].run \in RunIds
  BY <1>0, <1>1 DEF ChatsTyped, RunsTyped
<1>3. chat' \in [Chats -> Adapters!Hook]
  BY <1>0, <1>1, <1>2 DEF Adapters!Hook, ChatsTyped
<1>4. /\ chat'[c].ref = apply[c][k].run /\ chat'[c].mounted = chat[c].mounted
      /\ \A d \in Chats : d # c => chat'[d] = chat[d]
  BY <1>0, <1>1 DEF Adapters!Hook, ChatsTyped
<1>5. /\ apply' \in [Chats -> [Clicks -> Click]] /\ apply'[c][k].step = "none"
      /\ \A d \in Chats, j \in Clicks : d # c \/ j # k => apply'[d][j] = apply[d][j]
  <2>1. Adapters!Idle \in Click /\ Adapters!Idle.step = "none"
    BY IdleClick
  <2>2. ChatsTyped /\ apply' = [apply EXCEPT ![c][k] = Adapters!Idle]
    BY <1>0, <1>1
  <2>3. QED
    BY ZenonT(60), <2>1, <2>2, ClickUpdates
<1>6. RunsTyped' /\ ChatsTyped' /\ StoppedIsDead'
  BY <1>0, <1>1, <1>2, <1>3, <1>4, <1>5 DEF OwnInv, RunsTyped, ChatsTyped, StoppedIsDead
<1>7. c \notin rushed => /\ \A j \in Clicks : apply'[c][j].step = "none"
                         /\ \A j \in Clicks : apply[c][j].step = "created" => j = k
                         /\ chat[c].mounted /\ chat[c].ref = NoRun
  BY <1>1, <1>5 DEF OwnInv, OneClick
<1>8. OneClick'
  <2> SUFFICES ASSUME NEW d \in Chats, d \notin rushed
               PROVE  /\ \A i, j \in Clicks : apply'[d][i].step # "none" /\ apply'[d][j].step # "none" => i = j
                      /\ \A j \in Clicks :
                           /\ apply'[d][j].step # "none" => chat'[d].mounted
                           /\ apply'[d][j].step \in {"stop", "stopped"} => chat'[d].ref = apply'[d][j].run
                           /\ apply'[d][j].step \in {"create", "created"} => chat'[d].ref = NoRun
    BY <1>1 DEF OneClick
  <2>1. CASE d = c
    BY <1>7, <2>1
  <2>2. CASE d # c
    <3>1. chat'[d] = chat[d] /\ \A j \in Clicks : apply'[d][j] = apply[d][j]
      BY <1>4, <1>5, <2>2
    <3>2. QED
      BY <3>1 DEF OwnInv, OneClick
  <2>3. QED
    BY <2>1, <2>2
<1>9. Adapters!AdaptersAreOwned'
  <2> SUFFICES ASSUME NEW r \in alive, owner[r] # NoChat, owner[r] \notin rushed, r \notin unstopped
               PROVE  \/ chat'[owner[r]].mounted /\ chat'[owner[r]].ref = r
                      \/ r \in kills
                      \/ \E j \in Clicks : apply'[owner[r]][j].step = "created" /\ apply'[owner[r]][j].run = r
    BY <1>1 DEF Adapters!AdaptersAreOwned
  <2>1. owner[r] \in Chats /\ r # NoRun
    BY <1>0, ServicesBounds DEF RunsTyped
  <2>2. \/ chat[owner[r]].mounted /\ chat[owner[r]].ref = r
        \/ r \in kills
        \/ \E j \in Clicks : apply[owner[r]][j].step = "created" /\ apply[owner[r]][j].run = r
    BY DEF OwnInv, Adapters!AdaptersAreOwned
  <2>3. CASE owner[r] = c
    BY <1>4, <1>7, <2>1, <2>2, <2>3
  <2>4. CASE owner[r] # c
    <3>1. chat'[owner[r]] = chat[owner[r]] /\ \A j \in Clicks : apply'[owner[r]][j] = apply[owner[r]][j]
      BY <1>4, <1>5, <2>1, <2>4
    <3>2. QED
      BY <2>2, <3>1
  <2>5. QED
    BY <2>3, <2>4
<1>10. QED
  BY <1>6, <1>8, <1>9 DEF OwnInv

\* A run that Core refuses was never there.
LEMMA CreateFailsKeeps ==
  ASSUME OwnInv, NEW c \in Chats, NEW k \in Clicks, Adapters!CreateFails(c, k)
  PROVE  OwnInv'
<1>0. RunsTyped /\ ChatsTyped /\ chat[c] \in Adapters!Hook
  BY DEF OwnInv, ChatsTyped
<1>1. /\ apply[c][k].step = "create"
      /\ UNCHANGED <<alive, owner, used, kills, rushed, unstopped>>
      /\ chat' = [chat EXCEPT ![c].status = "error"]
      /\ apply' = [apply EXCEPT ![c][k] = Adapters!Idle]
  BY DEF Adapters!CreateFails, Adapters!At, Adapters!CoreKept, Adapters!coreVars
<1>2. /\ chat' \in [Chats -> Adapters!Hook]
      /\ \A d \in Chats : chat'[d].ref = chat[d].ref /\ chat'[d].mounted = chat[d].mounted
  BY <1>0, <1>1 DEF Adapters!Hook, ChatsTyped
<1>3. /\ apply' \in [Chats -> [Clicks -> Click]] /\ apply'[c][k].step = "none"
      /\ \A d \in Chats, j \in Clicks : d # c \/ j # k => apply'[d][j] = apply[d][j]
  <2>1. Adapters!Idle \in Click /\ Adapters!Idle.step = "none"
    BY IdleClick
  <2>2. apply' = [apply EXCEPT ![c][k] = Adapters!Idle]
    BY <1>1
  <2>3. QED
    BY ZenonT(60), <1>0, <2>1, <2>2, ClickUpdates
<1>4. RunsTyped' /\ ChatsTyped' /\ StoppedIsDead'
  BY <1>0, <1>1, <1>2, <1>3 DEF OwnInv, RunsTyped, ChatsTyped, StoppedIsDead
<1>5. OneClick'
  BY <1>1, <1>2, <1>3 DEF OwnInv, OneClick
<1>6. Adapters!AdaptersAreOwned'
  <2> SUFFICES ASSUME NEW r \in alive, owner[r] # NoChat, owner[r] \notin rushed, r \notin unstopped
               PROVE  \/ chat'[owner[r]].mounted /\ chat'[owner[r]].ref = r
                      \/ r \in kills
                      \/ \E j \in Clicks : apply'[owner[r]][j].step = "created" /\ apply'[owner[r]][j].run = r
    BY <1>1 DEF Adapters!AdaptersAreOwned
  <2>1. owner[r] \in Chats
    BY <1>0 DEF RunsTyped
  <2>2. \A j \in Clicks : apply[owner[r]][j].step = "created" => apply'[owner[r]][j] = apply[owner[r]][j]
    BY <1>1, <1>3, <2>1
  <2>3. QED
    BY <1>2, <2>1, <2>2 DEF OwnInv, Adapters!AdaptersAreOwned
<1>7. QED
  BY <1>4, <1>5, <1>6 DEF OwnInv

\* A view that is left stops the run it knows, or cannot.
LEMMA UnmountKeeps ==
  ASSUME OwnInv, NEW c \in Chats, Adapters!Unmount(c)
  PROVE  OwnInv'
<1>0. RunsTyped /\ ChatsTyped /\ chat[c] \in Adapters!Hook
  BY DEF OwnInv, ChatsTyped
<1>1. /\ UNCHANGED <<alive, owner, used, apply>>
      /\ chat' = [chat EXCEPT ![c].mounted = FALSE] /\ rushed \subseteq rushed'
      /\ kills' = kills \cup Adapters!CleanUp(c)
      /\ unstopped' = IF chat[c].ref # NoRun /\ ~linked THEN unstopped \cup {chat[c].ref} ELSE unstopped
  BY DEF Adapters!Unmount, Adapters!CoreKept, Adapters!coreVars
<1>2. /\ chat' \in [Chats -> Adapters!Hook] /\ chat'[c].ref = chat[c].ref
      /\ \A d \in Chats : d # c => chat'[d] = chat[d]
  BY <1>0, <1>1 DEF Adapters!Hook, ChatsTyped
<1>3. c \notin rushed' => \A k \in Clicks : apply[c][k].step = "none"
  BY IdleClick DEF Adapters!Unmount
<1>4. RunsTyped' /\ ChatsTyped' /\ StoppedIsDead'
  BY <1>0, <1>1, <1>2 DEF OwnInv, RunsTyped, ChatsTyped, StoppedIsDead
<1>5. OneClick'
  BY <1>1, <1>2, <1>3 DEF OwnInv, OneClick
<1>6. Adapters!AdaptersAreOwned'
  <2> SUFFICES ASSUME NEW r \in alive, owner[r] # NoChat, owner[r] \notin rushed', r \notin unstopped'
               PROVE  \/ chat'[owner[r]].mounted /\ chat'[owner[r]].ref = r
                      \/ r \in kills'
                      \/ \E j \in Clicks : apply[owner[r]][j].step = "created" /\ apply[owner[r]][j].run = r
    BY <1>1 DEF Adapters!AdaptersAreOwned
  <2>1. owner[r] \in Chats /\ r # NoRun /\ owner[r] \notin rushed /\ r \notin unstopped
    BY <1>0, <1>1, ServicesBounds DEF RunsTyped
  <2>2. \/ chat[owner[r]].mounted /\ chat[owner[r]].ref = r
        \/ r \in kills
        \/ \E j \in Clicks : apply[owner[r]][j].step = "created" /\ apply[owner[r]][j].run = r
    BY <2>1 DEF OwnInv, Adapters!AdaptersAreOwned
  <2>3. CASE owner[r] = c /\ chat[c].ref = r
    BY <1>1, <2>1, <2>3 DEF Adapters!CleanUp
  <2>4. CASE ~(owner[r] = c /\ chat[c].ref = r)
    BY <1>1, <1>2, <2>1, <2>2, <2>4
  <2>5. QED
    BY <2>3, <2>4
<1>7. QED
  BY <1>4, <1>5, <1>6 DEF OwnInv

\* A link that is lost loses stops and answers, which is noted.
LEMMA LinkLostKeeps ==
  ASSUME OwnInv, Adapters!LinkLost
  PROVE  OwnInv'
<1>0. RunsTyped /\ ChatsTyped
  BY DEF OwnInv
<1>1. UNCHANGED <<alive, owner, used, rushed>> /\ kills' = {}
  BY DEF Adapters!LinkLost, Adapters!coreVars
<1>2. apply' = [c \in Chats |-> [k \in Clicks |->
        IF apply[c][k].step \in {"stop", "stopped"} THEN [apply[c][k] EXCEPT !.step = "stopped"]
        ELSE Adapters!Idle]]
  BY DEF Adapters!LinkLost
<1>3. \A c \in Chats, k \in Clicks :
        \/ /\ apply[c][k].step \in {"stop", "stopped"} /\ apply'[c][k].step = "stopped"
           /\ apply'[c][k].run = apply[c][k].run /\ apply'[c][k] \in Click
        \/ apply'[c][k] = Adapters!Idle
  BY <1>0, <1>2 DEF ChatsTyped, Click
<1>4. apply' \in [Chats -> [Clicks -> Click]]
  BY <1>2, <1>3, IdleClick
<1>5. /\ chat' \in [Chats -> Adapters!Hook]
      /\ \A c \in Chats : chat'[c].ref = chat[c].ref /\ chat'[c].mounted = chat[c].mounted
  <2>1. chat' = [c \in Chats |->
          IF \E k \in Clicks : apply[c][k].step \in {"create", "created"}
            THEN [chat[c] EXCEPT !.status = "error"] ELSE chat[c]]
    BY DEF Adapters!LinkLost
  <2>2. \A c \in Chats : chat[c] \in Adapters!Hook
    BY <1>0 DEF ChatsTyped
  <2>3. \A c \in Chats : /\ [chat[c] EXCEPT !.status = "error"] \in Adapters!Hook
                         /\ [chat[c] EXCEPT !.status = "error"].ref = chat[c].ref
                         /\ [chat[c] EXCEPT !.status = "error"].mounted = chat[c].mounted
    BY <2>2 DEF Adapters!Hook
  <2>4. QED
    BY <2>1, <2>2, <2>3
<1>6. /\ unstopped \subseteq unstopped' /\ kills \subseteq unstopped'
      /\ \A c \in Chats, k \in Clicks :
           apply[c][k].step \in {"stop", "created"} => apply[c][k].run \in unstopped'
  BY <1>0 DEF Adapters!LinkLost, ChatsTyped
<1>7. RunsTyped' /\ ChatsTyped'
  BY <1>0, <1>1, <1>3, <1>4, <1>5, IdleClick DEF RunsTyped, ChatsTyped
<1>8. OneClick'
  BY <1>1, <1>3, <1>5, IdleClick DEF OwnInv, OneClick
<1>9. StoppedIsDead'
  BY <1>1, <1>3, <1>6, IdleClick DEF OwnInv, StoppedIsDead
<1>10. Adapters!AdaptersAreOwned'
  <2> SUFFICES ASSUME NEW r \in alive, owner[r] # NoChat, owner[r] \notin rushed, r \notin unstopped'
               PROVE  chat'[owner[r]].mounted /\ chat'[owner[r]].ref = r
    BY <1>1 DEF Adapters!AdaptersAreOwned
  <2>1. owner[r] \in Chats
    BY <1>0 DEF RunsTyped
  <2>2. QED
    BY <1>5, <1>6, <2>1 DEF OwnInv, Adapters!AdaptersAreOwned
<1>11. QED
  BY <1>7, <1>8, <1>9, <1>10 DEF OwnInv

\* Every step keeps the invariant of the adapters.
LEMMA OwnStepKeeps ==
  ASSUME OwnInv, Adapters!PageRunsNext
  PROVE  OwnInv'
<1> USE DEF Adapters!CoreKept, Adapters!coreVars, Adapters!ChatsKept, Adapters!chatVars
<1>1. ASSUME NEW c \in Chats, NEW k \in Clicks, NEW run \in RunIds, Adapters!CoreCreates(c, k, run)
      PROVE  OwnInv'
  BY <1>1, StartsKeepsOwn DEF Adapters!CoreCreates, Adapters!At
<1>2. ASSUME NEW run \in RunIds, Adapters!CoreKills(run) \/ Adapters!RunExits(run) PROVE OwnInv'
  BY <1>2, EndsKeepsOwn DEF Adapters!CoreKills, Adapters!RunExits
<1>3. ASSUME NEW run \in RunIds, Adapters!CoreServesCreate(run) PROVE OwnInv'
  BY <1>3, StartsKeepsOwn DEF Adapters!CoreServesCreate
<1>4. CASE Adapters!CoreServesKill
  BY <1>4, EndsKeepsOwn DEF Adapters!CoreServesKill
<1>5. ASSUME NEW run \in RunIds, Adapters!SessionStopped(run) \/ Adapters!KillInstance(run) PROVE OwnInv'
  BY <1>5, QuietKeepsOwn DEF Adapters!SessionStopped, Adapters!KillInstance
<1>6. CASE \/ Adapters!Refresh \/ Adapters!CoreLists \/ Adapters!ListAnswered
           \/ Adapters!CreateInstance \/ Adapters!InstanceCreated \/ Adapters!LinkBack
  BY <1>6, QuietKeepsOwn DEF Adapters!Refresh, Adapters!CoreLists, Adapters!ListAnswered,
     Adapters!CreateInstance, Adapters!InstanceCreated, Adapters!LinkBack
<1>7. QED
  BY <1>1, <1>2, <1>3, <1>4, <1>5, <1>6, ApplyKeeps, CoreStopsKeeps, StopAnsweredKeeps,
     CreateAnsweredKeeps, CreateFailsKeeps, UnmountKeeps, LinkLostKeeps DEF Adapters!PageRunsNext

-----------------------------------------------------------------------------
(* The behaviours of MCServices *)
\* A step of another part leaves the sessions as they are.
LEMMA AuthStays == AuthInv /\ UNCHANGED authVars => AuthInv'
<1> SUFFICES ASSUME AuthInv, UNCHANGED authVars PROVE AuthInv'
  OBVIOUS
<1>1. UNCHANGED <<authFile, authDir, secrets, auth, cookie, screen, crashes, overlapped>>
  BY DEF authVars
<1>2. Server!AuthTypeOK' = Server!AuthTypeOK /\ OneWriter' = OneWriter
  BY <1>1 DEF Server!AuthTypeOK, OneWriter
<1>3. AuthTyped'
  BY <1>1, <1>2 DEF AuthInv, AuthTyped
<1>4. QED
  BY <1>1, <1>2, <1>3 DEF AuthInv

\* A step of another part leaves the server as it is.
LEMMA CoreStays == CoreInv /\ UNCHANGED serverVars => CoreInv'
  BY DEF CoreInv, CoreTyped, Stored, Server!StreamFollowsCalls, Server!Unsettled, Server!Target,
     serverVars

\* A step of another part leaves the installs as they are.
LEMMA InstallsStay == InstallsInv /\ UNCHANGED installVars => InstallsInv'
  BY NoInstallStep DEF installVars, InstallsInv, InstallsTyped

\* A step of another part leaves the page's runs as they are.
LEMMA AdaptersStay == OwnInv /\ ListInv /\ UNCHANGED adapterVars => OwnInv' /\ ListInv'
<1> SUFFICES ASSUME OwnInv, ListInv, UNCHANGED adapterVars PROVE OwnInv' /\ ListInv'
  OBVIOUS
<1>1. UNCHANGED <<alive, owner, used, chat, apply, kills, rushed, unstopped, stops, stale, instances, listing>>
  BY DEF adapterVars
<1>2. QED
  BY <1>1, QuietKeepsOwn, QuietKeepsList

\* The inductive invariant of the services
ServicesInv == AuthInv /\ CoreInv /\ InstallsInv /\ OwnInv /\ ListInv

\* It holds of every part initially.
LEMMA ServicesInitInv == Init => ServicesInv
  BY AuthInitInv, CoreInitInv, InstallsInitInv, OwnInitInv, ListInitInv DEF Init, ServicesInv

\* Every step keeps it.
LEMMA ServicesStep == ServicesInv /\ [Next]_allVars => ServicesInv'
<1> SUFFICES ASSUME ServicesInv, [Next]_allVars PROVE ServicesInv'
  OBVIOUS
<1> USE DEF ServicesInv
<1>1. CASE ServerStep
  BY <1>1, CoreStepKeeps, AuthStays, InstallsStay, AdaptersStay DEF ServerStep
<1>2. CASE AuthStep
  BY <1>2, AuthStepKeeps, CoreStays, InstallsStay, AdaptersStay DEF AuthStep
<1>3. CASE InstallStep
  BY <1>3, InstallStepKeeps, AuthStays, CoreStays, AdaptersStay DEF InstallStep
<1>4. CASE AdapterStep
  BY <1>4, OwnStepKeeps, ListStepKeeps, AuthStays, CoreStays, InstallsStay DEF AdapterStep
<1>5. CASE UNCHANGED allVars
  BY <1>5, AuthStays, CoreStays, InstallsStay, AdaptersStay DEF allVars
<1>6. QED
  BY <1>1, <1>2, <1>3, <1>4, <1>5 DEF Next

\* The invariant of the services holds in every behaviour.
THEOREM ServicesCorrect == Spec => []ServicesInv
  BY ServicesInitInv, ServicesStep, PTL DEF Spec

\* A session that a browser was given stays valid until it logs out, unless two
\* first setups overlapped (app-ui-auth.ts:136, setup/route.ts:23).
THEOREM SessionsHoldCorrect == Spec => []SessionsHold
<1>1. ServicesInv => SessionsHold
  BY AuthHolds DEF ServicesInv, SessionsHold
<1>2. QED
  BY <1>1, ServicesCorrect, PTL

\* The page that changed the target last has its event stream where its calls
\* go, unless it left the settings before it reconnected or no answer came
\* (connection-section.tsx:156).
THEOREM StreamFollowsCallsCorrect == Spec => []StreamFollowsCalls
<1>1. ServicesInv => StreamFollowsCalls
  BY DEF ServicesInv, CoreInv, StreamFollowsCalls
<1>2. QED
  BY <1>1, ServicesCorrect, PTL

\* A restart of the server keeps its target, unless file or memory was changed
\* alone (core-target.ts:61).
THEOREM TargetSurvivesRestartCorrect == Spec => TargetSurvivesRestart
<1>1. ServicesInv /\ [Next]_allVars =>
        [tracked' # tracked /\ tracked' = Server!NoCore /\ ~unstored
           => Server!Target' = Server!Target]_(Server!coreServerVars)
  <2> SUFFICES ASSUME ServicesInv, [Next]_allVars, tracked' # tracked, tracked' = Server!NoCore, ~unstored
               PROVE  Server!Target' = Server!Target
    OBVIOUS
  <2>1. Server!CoreServerNext
    BY DEF Next, ServerStep, AuthStep, InstallStep, AdapterStep, allVars, serverVars
  <2>2. QED
    BY <2>1, RestartKeepsTarget DEF ServicesInv
<1>2. QED
  BY <1>1, ServicesCorrect, PTL DEF Spec, TargetSurvivesRestart, Server!TargetSurvivesRestart

\* No more records say "success" than installs succeeded, and a record says of
\* its install what became of it, unless installs or their records were mixed up
\* or the report of a success got no answer (install-manager.ts:60,
\* dependency-panel.tsx:140).
THEOREM OutcomesAreTheirOwnCorrect == Spec => []OutcomesAreTheirOwn
<1>1. ServicesInv => OutcomesAreTheirOwn
  BY InstallsEarned DEF ServicesInv, InstallsInv, OutcomesAreTheirOwn
<1>2. QED
  BY <1>1, ServicesCorrect, PTL

\* An adapter that lives is known to its view, or will be stopped, and a run
\* listed as running lives, or its end is on its way or noted as missed
\* (use-adapter-lifecycle.ts:34, use-ws.ts:94).
THEOREM RunsAreKnownCorrect == Spec => []RunsAreKnown
<1>1. ServicesInv => RunsAreKnown
  BY DEF ServicesInv, OwnInv, ListInv, RunsAreKnown
<1>2. QED
  BY <1>1, ServicesCorrect, PTL
=============================================================================
