---------------------------- MODULE RegistriesProofs ---------------------------
(***************************************************************************)
(* Proofs about what a page keeps of the apps and of their settings: of    *)
(* PluginSync, for every number of apps and every set of PUTs, types,      *)
(* views and panels that agree between two loops, registered apps that are *)
(* the enabled ones if no change was dropped, and the copy of the server's *)
(* states; of SettingsEdits, for every set of keys and values, that an     *)
(* edit is kept until it is stored.                                        *)
(***************************************************************************)
EXTENDS MCRegistries, SequenceTheorems, WellFoundedInduction, TLAPS

-----------------------------------------------------------------------------
(***************************************************************************)
(* The invariant.  While the loop waits for the manifest of app at, it has *)
(* collected what it registered of the apps before at, and the app at is   *)
(* not registered; if nothing changed or failed since it began, the apps   *)
(* before at are registered as enabled, and at is enabled.                 *)
(***************************************************************************)

Before(n) == {a \in App : a < n}

StatesOnly == phase # "states" => \A a \in App : gets[a] = "none"

BetweenLoops == phase # "manifest" => panels = views /\ collected = {}

InLoop ==
  phase = "manifest" =>
    /\ at \notin views
    /\ collected = views \cap Before(at)
    /\ ~dropped /\ ~failed => known[at] = "on" /\ collected = On \cap Before(at)

SyncInv ==
  /\ StatesOnly
  /\ views \subseteq cached
  /\ BetweenLoops
  /\ InLoop
  /\ RegisteredAsEnabled

-----------------------------------------------------------------------------
(* Types *)

LEMMA NoPutType ==
  ASSUME NEW step \in {"unsent", "sent", "answered", "refused", "settled"}
  PROVE  NoPut(step) \in Put
BY AppsAssumption DEF NoPut, Put, App, Enabled

\* The apps from i on, before stop, that are enabled in s, and the others
Kept(i, s, stop) == {a \in i..NumApps : a < stop /\ s[a] = "on"}
Gone(i, s, stop) == {a \in i..NumApps : a < stop /\ s[a] # "on"}

\* What the loop does, from app i to where it stops
LEMMA LoopStops ==
  ASSUME NEW i, NEW s, NEW m, NEW new, Loop(i, s, m, new)
  PROVE  \E stop \in i..NumApps + 1 :
           /\ new \cup Kept(i, s, stop) \subseteq m
           /\ views' = (views \ Gone(i, s, stop)) \cup (new \cup Kept(i, s, stop))
           /\ \/ /\ stop \in i..NumApps /\ s[stop] = "on" /\ stop \notin m
                 /\ phase' = "manifest" /\ at' = stop
                 /\ collected' = collected \cup (new \cup Kept(i, s, stop))
                 /\ UNCHANGED panels
              \/ /\ stop = NumApps + 1
                 /\ phase' = "idle" /\ at' = 1
                 /\ collected' = {}
                 /\ panels' = collected \cup (new \cup Kept(i, s, stop))
<1> DEFINE enabled == {a \in i..NumApps : s[a] = "on"}
<1>1. \A stop : {a \in enabled : a < stop} = Kept(i, s, stop)
  BY DEF Kept
<1>2. \A stop : {a \in i..NumApps \ enabled : a < stop} = Gone(i, s, stop)
  BY DEF Gone
<1> QED
  BY <1>1, <1>2 DEF Loop, Register

\* Wherever the loop goes on, it registers apps and waits for one of them.
LEMMA LoopTypes ==
  ASSUME NEW i \in 1..NumApps + 1, NEW s, NEW m \in SUBSET App, NEW new \in SUBSET App,
         collected \subseteq App, views \subseteq App, panels \subseteq App,
         Loop(i, s, m, new)
  PROVE  /\ phase' \in {"idle", "manifest"} /\ at' \in App
         /\ collected' \subseteq App /\ views' \subseteq App /\ panels' \subseteq App
<1>1. \A a \in i..NumApps : a \in App
  BY AppsAssumption DEF App
<1>2. 1 \in App
  BY AppsAssumption DEF App
<1>3. \A stop : Kept(i, s, stop) \subseteq App
  BY <1>1 DEF Kept
<1> QED
  BY <1>1, <1>2, <1>3, LoopStops

LEMMA InitTypes == Init => TypeOK
<1> SUFFICES ASSUME Init PROVE TypeOK
  OBVIOUS
<1>1. 1 \in App
  BY AppsAssumption DEF App
<1>2. puts \in [Puts -> Put]
  BY NoPutType DEF Init
<1>3. /\ known \in [App -> Enabled \cup {"none"}]
      /\ gets \in [App -> Enabled \cup {"none", "sent"}]
  BY DEF Init
<1> QED
  BY <1>1, <1>2, <1>3 DEF Init, TypeOK

LEMMA StepTypes == TypeOK /\ [Next]_vars => TypeOK'
<1> SUFFICES ASSUME TypeOK, [Next]_vars
             PROVE  TypeOK'
  OBVIOUS
<1> USE DEF TypeOK
<1>1. ASSUME NEW ok \in BOOLEAN, ListAnswered(ok) PROVE TypeOK'
  BY <1>1 DEF ListAnswered
<1>2. ASSUME NEW ok \in BOOLEAN, ManifestArrives(ok) PROVE TypeOK'
  <2> DEFINE new == IF ok THEN {at} ELSE {}
  <2>1. at + 1 \in 1..NumApps + 1 /\ new \in SUBSET App /\ cached' \in SUBSET App
    BY <1>2, AppsAssumption DEF ManifestArrives, App
  <2>2. Loop(at + 1, known, cached', new)
    BY <1>2 DEF ManifestArrives
  <2>3. /\ phase' \in {"idle", "manifest"} /\ at' \in App
        /\ collected' \subseteq App /\ views' \subseteq App /\ panels' \subseteq App
    BY <2>1, <2>2, LoopTypes
  <2> QED
    BY <1>2, <2>1, <2>3 DEF ManifestArrives, registryVars, requestVars
<1>3. ASSUME NEW ok \in BOOLEAN, RefreshAnswered(ok) PROVE TypeOK'
  BY <1>3 DEF RefreshAnswered, Notify, StartSync, requestVars
<1>4. CASE HeadAnswered
  BY <1>4 DEF HeadAnswered, registryVars
<1>5. CASE LinkUp
  BY <1>5 DEF LinkUp, StartSync, registryVars, requestVars, historyVars
<1>6. CASE LinkDown
  BY <1>6 DEF LinkDown, registryVars, requestVars, historyVars, syncVars
<1>7. CASE Refresh
  BY <1>7 DEF Refresh, requestVars, historyVars, syncVars
<1>8. ASSUME NEW a \in App, ManifestFetched(a) PROVE TypeOK'
  BY <1>8 DEF ManifestFetched, requestVars, historyVars, syncVars
<1>9. ASSUME NEW a \in App, ServerGets(a) PROVE TypeOK'
  BY <1>9 DEF ServerGets, registryVars, historyVars, syncVars
<1>10. ASSUME NEW a \in App, NEW ok \in BOOLEAN, GetSettles(a, ok) PROVE TypeOK'
  <2>1. known' \in [App -> Enabled \cup {"none"}] /\ gets' \in [App -> Enabled \cup {"none", "sent"}]
    BY <1>10 DEF GetSettles, Enabled
  <2>2. CASE UNCHANGED syncVars /\ UNCHANGED <<dropped, failed>>
    BY <1>10, <2>1, <2>2 DEF GetSettles, syncVars
  <2>3. CASE Loop(1, known', cached, {}) /\ dropped' = FALSE /\ failed' = FALSE
    <3>1. 1 \in 1..NumApps + 1
      BY AppsAssumption
    <3>2. /\ phase' \in {"idle", "manifest"} /\ at' \in App
          /\ collected' \subseteq App /\ views' \subseteq App /\ panels' \subseteq App
      BY <2>3, <3>1, LoopTypes
    <3> QED
      BY <1>10, <2>1, <2>3, <3>2 DEF GetSettles
  <2> QED
    BY <1>10, <2>2, <2>3 DEF GetSettles
<1>11. ASSUME NEW p \in Puts, NEW a \in App, NEW want \in Enabled \cup {"asIs"}, SendPut(p, a, want)
       PROVE  TypeOK'
  <2>1. NoPut("sent") \in Put
    BY NoPutType
  <2>2. puts' \in [Puts -> Put]
    BY <1>11, <2>1 DEF SendPut, Put
  <2> QED
    BY <1>11, <2>2 DEF SendPut, registryVars, historyVars, syncVars
<1>12. ASSUME NEW p \in Puts, NEW state \in Enabled \cup {"none"}, PutSettles(p, state),
              UNCHANGED <<phase, dropped>> \/ Notify,
              doubtful' \in {doubtful, doubtful \cup {puts[p].app}}
       PROVE  TypeOK'
  <2>1. NoPut("settled") \in Put /\ puts[p].app \in App
    BY NoPutType DEF Put
  <2>2. puts' \in [Puts -> Put] /\ known' \in [App -> Enabled \cup {"none"}]
    BY <1>12, <2>1 DEF PutSettles
  <2> QED
    BY <1>12, <2>1, <2>2 DEF PutSettles, Notify, StartSync
<1>13. ASSUME NEW p \in Puts, ServerPuts(p) PROVE TypeOK'
  <2>1. NoPut("answered") \in Put /\ puts[p] \in Put
    BY NoPutType
  <2>2. Written(puts[p]) \in Enabled
    BY <2>1 DEF Written, Put
  <2>3. puts' \in [Puts -> Put] /\ stored' \in [App -> Enabled]
    BY <1>13, <2>1, <2>2 DEF ServerPuts, Put
  <2> QED
    BY <1>13, <2>3 DEF ServerPuts, registryVars, historyVars, syncVars
<1>14. ASSUME NEW p \in Puts, ServerRefuses(p) PROVE TypeOK'
  <2>1. puts' \in [Puts -> Put]
    BY <1>14 DEF ServerRefuses, Put
  <2> QED
    BY <1>14, <2>1 DEF ServerRefuses, registryVars, historyVars, syncVars
<1>15. ASSUME NEW p \in Puts, PutAnswered(p) PROVE TypeOK'
  <2>1. puts[p].got \in Enabled
    BY DEF Put
  <2> QED
    BY <1>12, <1>15, <2>1 DEF PutAnswered
<1>16. ASSUME NEW p \in Puts, PutRefused(p) PROVE TypeOK'
  <2>1. puts[p].prev \in Enabled \cup {"none"} /\ known[puts[p].app] \in Enabled \cup {"none"}
    BY DEF Put
  <2> QED
    BY <1>12, <1>16, <2>1 DEF PutRefused
<1>17. ASSUME NEW p \in Puts, PutLost(p) PROVE TypeOK'
  <2>1. known[puts[p].app] \in Enabled \cup {"none"}
    BY DEF Put
  <2> QED
    BY <1>12, <1>17, <2>1 DEF PutLost
<1>18. CASE UNCHANGED vars
  BY <1>18 DEF vars, registryVars, requestVars, historyVars, syncVars
<1> QED
  BY <1>1, <1>2, <1>3, <1>4, <1>5, <1>6, <1>7, <1>8, <1>9, <1>10, <1>11, <1>13, <1>14,
     <1>15, <1>16, <1>17, <1>18 DEF Next

\* Page and server keep the types of their state.
THEOREM TypeCorrect == Spec => []TypeOK
<1> QED
  BY InitTypes, StepTypes, PTL DEF Spec

-----------------------------------------------------------------------------
(* The loop *)

EnabledIn(s, apps) == {a \in apps : s[a] = "on"}

\* What is registered up to where the loop stops is what it has collected.
LEMMA LoopCollects ==
  ASSUME NEW i \in 1..NumApps + 1, NEW s, NEW m, NEW new \in SUBSET Before(i),
         views \subseteq m, views \subseteq App,
         collected = views \cap Before(i),
         Loop(i, s, m, new)
  PROVE  /\ views' \subseteq m
         /\ \/ phase' = "idle" /\ collected' = {} /\ panels' = views'
            \/ /\ phase' = "manifest" /\ s[at'] = "on"
               /\ at' \notin views' /\ collected' = views' \cap Before(at')
<1>1. PICK stop \in i..NumApps + 1 :
        /\ new \cup Kept(i, s, stop) \subseteq m
        /\ views' = (views \ Gone(i, s, stop)) \cup (new \cup Kept(i, s, stop))
        /\ \/ /\ stop \in i..NumApps /\ s[stop] = "on" /\ stop \notin m
              /\ phase' = "manifest" /\ at' = stop
              /\ collected' = collected \cup (new \cup Kept(i, s, stop))
           \/ /\ stop = NumApps + 1
              /\ phase' = "idle"
              /\ collected' = {}
              /\ panels' = collected \cup (new \cup Kept(i, s, stop))
  BY LoopStops
<1>2. views' \subseteq m
  BY <1>1
<1>3. views' \cap Before(stop) = collected \cup (new \cup Kept(i, s, stop))
  <2>1. \A a \in App : a < stop => a < i \/ a \in Kept(i, s, stop) \/ a \in Gone(i, s, stop)
    BY <1>1, AppsAssumption DEF App, Kept, Gone
  <2>2. Before(i) \subseteq Before(stop) /\ Kept(i, s, stop) \subseteq Before(stop)
    BY <1>1, AppsAssumption DEF App, Kept, Before
  <2>3. Before(i) \cap Gone(i, s, stop) = {}
    BY AppsAssumption DEF App, Gone, Before
  <2>4. \A a \in Before(stop) : a \in Before(i) \/ a \in Kept(i, s, stop) \/ a \in Gone(i, s, stop)
    BY <2>1 DEF Before
  <2>5. Kept(i, s, stop) \cap Gone(i, s, stop) = {}
    BY DEF Kept, Gone
  <2> QED
    BY <1>1, <2>2, <2>3, <2>4, <2>5
<1>4. CASE stop = NumApps + 1
  <2>1. \A a \in App : a < stop
    BY <1>4, AppsAssumption DEF App
  <2>2. Before(stop) = App
    BY <2>1 DEF Before
  <2>3. Kept(i, s, stop) \subseteq App /\ new \subseteq App
    BY AppsAssumption DEF App, Kept, Before
  <2>4. views' \subseteq Before(stop)
    BY <1>1, <2>2, <2>3
  <2>5. stop \notin i..NumApps
    BY <1>4, AppsAssumption
  <2> QED
    BY <1>1, <1>2, <1>3, <2>4, <2>5
<1>5. CASE stop # NumApps + 1
  BY <1>1, <1>2, <1>3, <1>5
<1> QED
  BY <1>4, <1>5

\* If what it has collected before are the enabled apps, so are those after.
LEMMA LoopFollows ==
  ASSUME NEW i \in 1..NumApps + 1, NEW s, NEW m, NEW new,
         collected \cup new = EnabledIn(s, Before(i)),
         Loop(i, s, m, new)
  PROVE  \/ phase' = "idle" /\ panels' = EnabledIn(s, App)
         \/ phase' = "manifest" /\ collected' = EnabledIn(s, Before(at'))
<1>1. PICK stop \in i..NumApps + 1 :
        \/ /\ stop \in i..NumApps
           /\ phase' = "manifest" /\ at' = stop
           /\ collected' = collected \cup (new \cup Kept(i, s, stop))
        \/ /\ stop = NumApps + 1
           /\ phase' = "idle"
           /\ panels' = collected \cup (new \cup Kept(i, s, stop))
  BY LoopStops
<1>2. collected \cup (new \cup Kept(i, s, stop)) = EnabledIn(s, Before(stop))
  <2>1. \A a : a \in Before(stop) <=> a \in Before(i) \/ (a \in i..NumApps /\ a < stop)
    BY <1>1, AppsAssumption DEF App, Before
  <2>2. EnabledIn(s, Before(stop)) = EnabledIn(s, Before(i)) \cup Kept(i, s, stop)
    BY <2>1 DEF EnabledIn, Kept
  <2> QED
    BY <2>2
<1>3. CASE stop = NumApps + 1
  <2>1. \A a \in App : a < stop
    BY <1>3, AppsAssumption DEF App
  <2>2. Before(stop) = App
    BY <2>1 DEF Before
  <2>3. stop \notin i..NumApps
    BY <1>3, AppsAssumption
  <2> QED
    BY <1>1, <1>2, <2>2, <2>3
<1> QED
  BY <1>1, <1>2, <1>3

-----------------------------------------------------------------------------
(* The invariant *)

LEMMA InitSync == Init => SyncInv
BY DEF Init, SyncInv, StatesOnly, BetweenLoops, InLoop, RegisteredAsEnabled, On

\* A notification starts a sync or drops the change, unless a sync has yet
\* to come to its loop.
LEMMA NotifyPhase ==
  ASSUME TypeOK, Notify
  PROVE  /\ phase \notin {"states", "manifest"} => phase' \notin {"states", "manifest"}
         /\ phase \in {"states", "manifest"} => phase' = phase
         /\ phase' \in {"idle", "manifest"} => phase' = phase /\ dropped'
BY DEF TypeOK, Notify, StartSync

LEMMA StepSync == TypeOK /\ SyncInv /\ [Next]_vars => SyncInv'
<1> SUFFICES ASSUME TypeOK, SyncInv, [Next]_vars
             PROVE  SyncInv'
  OBVIOUS
<1>t. /\ NumApps \in Nat \ {0} /\ at \in App /\ views \subseteq App /\ cached \subseteq App
      /\ phase \in {"idle", "list", "head", "states", "manifest"}
      /\ known \in [App -> Enabled \cup {"none"}]
      /\ gets \in [App -> Enabled \cup {"none", "sent"}]
      /\ dropped \in BOOLEAN /\ failed \in BOOLEAN
  BY AppsAssumption DEF TypeOK
<1> USE DEF SyncInv, StatesOnly, BetweenLoops, InLoop, RegisteredAsEnabled
<1>1. ASSUME NEW ok \in BOOLEAN, ListAnswered(ok) PROVE SyncInv'
  BY <1>1, <1>t DEF ListAnswered, On
<1>2. ASSUME NEW ok \in BOOLEAN, ManifestArrives(ok) PROVE SyncInv'
  <2> DEFINE new == IF ok THEN {at} ELSE {}
  <2>1. /\ phase = "manifest" /\ cached' = cached \cup new
        /\ Loop(at + 1, known, cached', new)
        /\ failed' = (failed \/ ~ok)
        /\ UNCHANGED <<known, gets, dropped>>
    BY <1>2 DEF ManifestArrives, requestVars
  <2>2. at + 1 \in 1..NumApps + 1 /\ Before(at + 1) = Before(at) \cup {at}
    BY <1>t DEF App, Before
  <2>3. /\ views' \subseteq cached'
        /\ \/ phase' = "idle" /\ collected' = {} /\ panels' = views'
           \/ /\ phase' = "manifest" /\ known[at'] = "on"
              /\ at' \notin views' /\ collected' = views' \cap Before(at')
    <3>1. new \in SUBSET Before(at + 1) /\ views \subseteq cached' /\ views \subseteq App
      BY <1>t, <2>1, <2>2
    <3>2. collected = views \cap Before(at + 1)
      BY <2>1, <2>2
    <3> HIDE DEF new
    <3> QED
      BY <2>1, <2>2, <3>1, <3>2, LoopCollects
  <2>4. ASSUME ~dropped, ~failed, ok
        PROVE  \/ phase' = "idle" /\ panels' = On
               \/ phase' = "manifest" /\ collected' = On \cap Before(at')
    <3>1. collected \cup new = EnabledIn(known, Before(at + 1))
      BY <1>t, <2>1, <2>2, <2>4 DEF EnabledIn, On, Before
    <3> HIDE DEF new
    <3>2. \/ phase' = "idle" /\ panels' = EnabledIn(known, App)
          \/ phase' = "manifest" /\ collected' = EnabledIn(known, Before(at'))
      BY <2>1, <2>2, <3>1, LoopFollows
    <3> QED
      BY <3>2 DEF EnabledIn, On, Before
  <2>5. On' = On
    BY <2>1 DEF On
  <2>6. RegisteredAsEnabled'
    BY <1>2, <1>t, <2>1, <2>3, <2>4, <2>5
  <2>7. InLoop'
    BY <1>2, <1>t, <2>1, <2>3, <2>4, <2>5
  <2> QED
    BY <2>1, <2>3, <2>6, <2>7
<1>3. ASSUME NEW ok \in BOOLEAN, RefreshAnswered(ok) PROVE SyncInv'
  <2>1. UNCHANGED <<known, cached, at, collected, views, panels, gets, failed>>
    BY <1>3 DEF RefreshAnswered, requestVars
  <2>2. CASE Notify
    BY <2>1, <2>2, <1>t, NotifyPhase DEF On, Before
  <2>3. CASE UNCHANGED <<phase, dropped>>
    BY <2>1, <2>3 DEF On, Before
  <2> QED
    BY <1>3, <2>2, <2>3 DEF RefreshAnswered
<1>4. CASE HeadAnswered
  BY <1>4 DEF HeadAnswered, registryVars, On
<1>5. CASE LinkUp
  BY <1>5, <1>t DEF LinkUp, StartSync, registryVars, requestVars, historyVars, On, Before
<1>6. CASE LinkDown
  BY <1>6 DEF LinkDown, registryVars, requestVars, historyVars, syncVars, On, Before
<1>7. CASE Refresh
  BY <1>7 DEF Refresh, requestVars, historyVars, syncVars, On, Before
<1>8. ASSUME NEW a \in App, ManifestFetched(a) PROVE SyncInv'
  BY <1>8 DEF ManifestFetched, requestVars, historyVars, syncVars, On, Before
<1>9. ASSUME NEW a \in App, ServerGets(a) PROVE SyncInv'
  <2>1. phase = "states"
    BY <1>9, <1>t DEF ServerGets
  <2> QED
    BY <1>9, <2>1 DEF ServerGets, registryVars, historyVars, syncVars
<1>10. ASSUME NEW a \in App, NEW ok \in BOOLEAN, GetSettles(a, ok) PROVE SyncInv'
  <2>1. phase = "states" /\ collected = {}
    BY <1>10, <1>t DEF GetSettles
  <2>2. CASE UNCHANGED syncVars /\ UNCHANGED <<dropped, failed>>
    BY <1>10, <2>1, <2>2 DEF GetSettles, syncVars
  <2>3. ASSUME \A b \in App \ {a} : gets[b] = "none" PROVE SyncInv'
    <3>1. Loop(1, known', cached, {}) /\ cached' = cached
      BY <1>10, <2>3 DEF GetSettles
    <3>2. \A b \in App : gets'[b] = "none"
      BY <1>10, <1>t, <2>3 DEF GetSettles
    <3>3. 1 \in 1..NumApps + 1 /\ Before(1) = {}
      BY <1>t DEF App, Before
    <3>4. /\ views' \subseteq cached
          /\ \/ phase' = "idle" /\ collected' = {} /\ panels' = views'
             \/ /\ phase' = "manifest" /\ known'[at'] = "on"
                /\ at' \notin views' /\ collected' = views' \cap Before(at')
      BY <1>t, <2>1, <3>1, <3>3, LoopCollects
    <3>5. collected \cup {} = EnabledIn(known', Before(1))
      BY <2>1, <3>3 DEF EnabledIn
    <3>6. \/ phase' = "idle" /\ panels' = EnabledIn(known', App)
          \/ phase' = "manifest" /\ collected' = EnabledIn(known', Before(at'))
      BY <3>1, <3>3, <3>5, LoopFollows
    <3>7. /\ On' = EnabledIn(known', App)
          /\ \A n : EnabledIn(known', Before(n)) = On' \cap Before(n)
      BY DEF EnabledIn, On, Before
    <3> QED
      BY <3>1, <3>2, <3>4, <3>6, <3>7
  <2> QED
    BY <1>10, <2>2, <2>3 DEF GetSettles
<1>11. ASSUME NEW p \in Puts, NEW a \in App, NEW want \in Enabled \cup {"asIs"}, SendPut(p, a, want)
       PROVE  SyncInv'
  <2>1. UNCHANGED <<known, cached, gets, phase, at, collected, views, panels, dropped, failed>>
    BY <1>11 DEF SendPut, registryVars, syncVars
  <2> QED
    BY <2>1 DEF On, Before
<1>12. ASSUME NEW p \in Puts, NEW state, PutSettles(p, state),
              Notify \/ (known' = known /\ UNCHANGED <<phase, dropped>>)
       PROVE  SyncInv'
  <2>1. UNCHANGED <<cached, at, collected, views, panels, gets, failed>>
    BY <1>12 DEF PutSettles
  <2>2. CASE Notify
    BY <2>1, <2>2, <1>t, NotifyPhase DEF Before
  <2>3. CASE known' = known /\ UNCHANGED <<phase, dropped>>
    BY <2>1, <2>3 DEF On, Before
  <2> QED
    BY <1>12, <2>2, <2>3
<1>13. ASSUME NEW p \in Puts, PutAnswered(p) PROVE SyncInv'
  BY <1>12, <1>13 DEF PutAnswered
<1>14. ASSUME NEW p \in Puts, PutSettles(p, known[puts[p].app]), UNCHANGED <<phase, dropped>>
       PROVE  SyncInv'
  <2>1. known' = known
    BY <1>14, <1>t DEF PutSettles
  <2> QED
    BY <1>12, <1>14, <2>1
<1>15. ASSUME NEW p \in Puts, PutRefused(p) PROVE SyncInv'
  BY <1>12, <1>14, <1>15 DEF PutRefused
<1>16. ASSUME NEW p \in Puts, PutLost(p) PROVE SyncInv'
  BY <1>14, <1>16 DEF PutLost
<1>17. ASSUME NEW p \in Puts, ServerPuts(p) PROVE SyncInv'
  <2>1. UNCHANGED <<known, cached, gets, phase, at, collected, views, panels, dropped, failed>>
    BY <1>17 DEF ServerPuts, registryVars, syncVars, historyVars
  <2> QED
    BY <2>1 DEF On, Before
<1>18. ASSUME NEW p \in Puts, ServerRefuses(p) PROVE SyncInv'
  <2>1. UNCHANGED <<known, cached, gets, phase, at, collected, views, panels, dropped, failed>>
    BY <1>18 DEF ServerRefuses, registryVars, syncVars, historyVars
  <2> QED
    BY <2>1 DEF On, Before
<1>19. CASE UNCHANGED vars
  BY <1>19 DEF vars, registryVars, requestVars, historyVars, syncVars, On, Before
<1> QED
  BY <1>1, <1>2, <1>3, <1>4, <1>5, <1>6, <1>7, <1>8, <1>9, <1>10, <1>11, <1>13, <1>15,
     <1>16, <1>17, <1>18, <1>19 DEF Next

LEMMA SyncCorrect == Spec => []SyncInv
<1> QED
  BY TypeCorrect, InitSync, StepSync, PTL DEF Spec

\* Panels are registered for the apps that have views, whenever no loop is
\* under way.
THEOREM PanelsFollowViewsCorrect == Spec => []PanelsFollowViews
<1>1. SyncInv => PanelsFollowViews
  BY DEF SyncInv, BetweenLoops, PanelsFollowViews
<1> QED
  BY <1>1, SyncCorrect, PTL

\* Once a sync has ended, the registered apps are those the page knows to be
\* enabled, if nothing failed and no change was dropped since the loop began.
THEOREM RegisteredAsEnabledCorrect == Spec => []RegisteredAsEnabled
<1>1. SyncInv => RegisteredAsEnabled
  BY DEF SyncInv
<1> QED
  BY <1>1, SyncCorrect, PTL

-----------------------------------------------------------------------------
(***************************************************************************)
(* The page and the server.  Of an app whose requests did not overlap, at  *)
(* most one is in flight; its answer is what the server stores, and until  *)
(* a PUT is answered the page knows what the server stores.                *)
(***************************************************************************)

OfApp(p, a) == InFlight(p) /\ puts[p].app = a

Alone(p, a) ==
  /\ gets[a] = "none"
  /\ \A q \in Puts : OfApp(q, a) => q = p
  /\ puts[p].step = "answered" => puts[p].got = stored[a]
  /\ puts[p].step # "answered" => /\ known[a] \in {"none", stored[a]}
                                  /\ puts[p].prev \in {"none", known[a]}

Mirrored(a) ==
  /\ gets[a] \in {"none", "sent", stored[a]}
  /\ \A p \in Puts : OfApp(p, a) => Alone(p, a)
  /\ gets[a] = "none" /\ ~Putting(a) => known[a] \in {"none", stored[a]}

MirrorInv == \A a \in App \ doubtful : Mirrored(a)

LEMMA InitMirror == Init => MirrorInv
<1> SUFFICES ASSUME Init, NEW a \in App PROVE Mirrored(a)
  BY DEF MirrorInv
<1>1. \A p \in Puts : puts[p].step = "unsent"
  BY DEF Init, NoPut
<1>2. \A p \in Puts : ~InFlight(p)
  BY <1>1 DEF InFlight
<1> QED
  BY <1>2 DEF Init, Mirrored, OfApp, Putting

\* A callback that touches neither requests nor states
LEMMA MirrorUntouched ==
  ASSUME MirrorInv, UNCHANGED <<stored, known, gets, puts, doubtful>>
  PROVE  MirrorInv'
BY DEF MirrorInv, Mirrored, Alone, OfApp, InFlight, Putting

\* A sync asks for all states: what is in flight of an app overlaps.
LEMMA MirrorAsked ==
  ASSUME gets' = [a \in App |-> "sent"], doubtful' = {a \in App : Putting(a)},
         UNCHANGED <<stored, known, puts>>
  PROVE  MirrorInv'
BY DEF MirrorInv, Mirrored, OfApp, InFlight, Putting

\* A PUT is handled: of its app nothing else is in flight.
LEMMA MirrorSettled ==
  ASSUME TypeOK, MirrorInv, NEW p \in Puts, NEW state, InFlight(p), PutSettles(p, state),
         doubtful \subseteq doubtful',
         puts[p].app \in doubtful' \/ (doubtful' = doubtful /\ state \in {"none", stored[puts[p].app]})
  PROVE  MirrorInv'
<1> DEFINE b == puts[p].app
<1>1. /\ puts \in [Puts -> Put] /\ known \in [App -> Enabled \cup {"none"}]
      /\ b \in App
  BY DEF TypeOK, Put
<1>2. /\ puts'[p].step = "settled" /\ \A q \in Puts \ {p} : puts'[q] = puts[q]
      /\ known'[b] = state /\ \A a \in App \ {b} : known'[a] = known[a]
      /\ UNCHANGED <<stored, gets>>
  BY <1>1 DEF PutSettles, NoPut
<1>3. \A q \in Puts : InFlight(q)' <=> q # p /\ InFlight(q)
  BY <1>2 DEF InFlight
<1>4. \A q \in Puts, a \in App : OfApp(q, a)' <=> q # p /\ OfApp(q, a)
  BY <1>2, <1>3 DEF OfApp
<1> SUFFICES ASSUME NEW a \in App \ doubtful' PROVE Mirrored(a)'
  BY DEF MirrorInv
<1>5. Mirrored(a)
  BY DEF MirrorInv
<1>6. CASE a = b
  <2>1. OfApp(p, a) /\ Alone(p, a)
    BY <1>5, <1>6 DEF Mirrored, OfApp
  <2>2. gets'[a] = "none" /\ \A q \in Puts : ~OfApp(q, a)'
    BY <1>2, <1>4, <2>1 DEF Alone
  <2>3. known'[a] \in {"none", stored'[a]}
    BY <1>2, <1>6
  <2> QED
    BY <2>2, <2>3 DEF Mirrored
<1>7. CASE a # b
  <2>1. \A q \in Puts : OfApp(q, a)' <=> OfApp(q, a)
    BY <1>4, <1>7 DEF OfApp
  <2>2. Putting(a)' <=> Putting(a)
    BY <2>1 DEF Putting, OfApp
  <2>3. \A q \in Puts : OfApp(q, a) => puts'[q] = puts[q]
    BY <1>2, <1>7 DEF OfApp
  <2> QED
    BY <1>2, <1>5, <1>7, <2>1, <2>2, <2>3 DEF Mirrored, Alone
<1> QED
  BY <1>6, <1>7

LEMMA StepMirror == TypeOK /\ MirrorInv /\ [Next]_vars => MirrorInv'
<1> SUFFICES ASSUME TypeOK, MirrorInv, [Next]_vars
             PROVE  MirrorInv'
  OBVIOUS
<1>t. /\ puts \in [Puts -> Put] /\ known \in [App -> Enabled \cup {"none"}]
      /\ gets \in [App -> Enabled \cup {"none", "sent"}] /\ stored \in [App -> Enabled]
  BY DEF TypeOK
<1>1. ASSUME NEW ok \in BOOLEAN, ListAnswered(ok) PROVE MirrorInv'
  BY <1>1, MirrorAsked, MirrorUntouched DEF ListAnswered
<1>2. CASE HeadAnswered
  BY <1>2, MirrorAsked DEF HeadAnswered, registryVars
<1>3. ASSUME NEW ok \in BOOLEAN, ManifestArrives(ok) \/ RefreshAnswered(ok) PROVE MirrorInv'
  BY <1>3, MirrorUntouched DEF ManifestArrives, RefreshAnswered, requestVars
<1>4. CASE LinkUp \/ LinkDown \/ Refresh \/ UNCHANGED vars
  BY <1>4, MirrorUntouched DEF LinkUp, LinkDown, Refresh, vars, registryVars, requestVars, historyVars
<1>5. ASSUME NEW a \in App, ManifestFetched(a) PROVE MirrorInv'
  BY <1>5, MirrorUntouched DEF ManifestFetched, requestVars, historyVars
<1>6. ASSUME NEW b \in App, ServerGets(b) PROVE MirrorInv'
  <2>1. /\ UNCHANGED <<stored, known, puts, doubtful>>
        /\ gets[b] = "sent" /\ gets'[b] = stored[b]
        /\ \A a \in App \ {b} : gets'[a] = gets[a]
    BY <1>6, <1>t DEF ServerGets, registryVars, historyVars
  <2>2. stored[b] \in {"on", "off"}
    BY <1>t DEF Enabled
  <2> QED
    BY <2>1, <2>2 DEF MirrorInv, Mirrored, Alone, OfApp, InFlight, Putting
<1>7. ASSUME NEW b \in App, NEW ok \in BOOLEAN, GetSettles(b, ok) PROVE MirrorInv'
  <2>1. /\ UNCHANGED <<stored, puts>>
        /\ gets[b] # "none" /\ (ok => gets[b] # "sent")
        /\ gets'[b] = "none" /\ known'[b] = (IF ok THEN gets[b] ELSE "on")
        /\ \A a \in App \ {b} : gets'[a] = gets[a] /\ known'[a] = known[a]
        /\ doubtful' = IF ok THEN doubtful ELSE doubtful \cup {b}
    BY <1>7, <1>t DEF GetSettles
  <2> SUFFICES ASSUME NEW a \in App \ doubtful' PROVE Mirrored(a)'
    BY DEF MirrorInv
  <2>2. Mirrored(a)
    BY <2>1 DEF MirrorInv
  <2>3. CASE a = b
    <3>1. ok /\ known'[a] = stored[a]
      BY <2>1, <2>2, <2>3 DEF Mirrored
    <3>2. \A p \in Puts : ~OfApp(p, a)
      BY <2>1, <2>2, <2>3 DEF Mirrored, Alone
    <3> QED
      BY <2>1, <2>3, <3>1, <3>2 DEF Mirrored, OfApp, InFlight
  <2>4. CASE a # b
    BY <2>1, <2>2, <2>4 DEF Mirrored, Alone, OfApp, InFlight, Putting
  <2> QED
    BY <2>3, <2>4
<1>8. ASSUME NEW p \in Puts, NEW b \in App, NEW want \in Enabled \cup {"asIs"}, SendPut(p, b, want)
      PROVE  MirrorInv'
  <2>1. /\ UNCHANGED <<stored, known, gets>>
        /\ puts[p].step = "unsent"
        /\ puts'[p].step = "sent" /\ puts'[p].app = b /\ puts'[p].prev \in {"none", known[b]}
        /\ \A q \in Puts \ {p} : puts'[q] = puts[q]
        /\ doubtful' = IF Putting(b) \/ gets[b] # "none" THEN doubtful \cup {b} ELSE doubtful
    BY <1>8, <1>t DEF SendPut, registryVars, NoPut
  <2>2. \A q \in Puts \ {p}, a \in App : OfApp(q, a)' <=> OfApp(q, a)
    BY <2>1 DEF OfApp, InFlight
  <2>3. \A a \in App : ~OfApp(p, a) /\ (OfApp(p, a)' <=> a = b)
    BY <2>1 DEF OfApp, InFlight
  <2> SUFFICES ASSUME NEW a \in App \ doubtful' PROVE Mirrored(a)'
    BY DEF MirrorInv
  <2>4. Mirrored(a)
    BY <2>1 DEF MirrorInv
  <2>5. CASE a = b
    <3>1. ~Putting(a) /\ gets[a] = "none" /\ known[a] \in {"none", stored[a]}
      BY <2>1, <2>4, <2>5 DEF Mirrored
    <3>2. \A q \in Puts \ {p} : ~OfApp(q, a)'
      BY <2>2, <3>1 DEF Putting, OfApp
    <3>3. Alone(p, a)'
      BY <2>1, <2>5, <3>1, <3>2 DEF Alone
    <3>4. Putting(a)'
      BY <2>3, <2>5 DEF Putting, OfApp
    <3> QED
      BY <2>1, <3>1, <3>2, <3>3, <3>4 DEF Mirrored
  <2>6. CASE a # b
    <3>1. \A q \in Puts : OfApp(q, a)' <=> OfApp(q, a)
      BY <2>2, <2>3, <2>6
    <3>2. Putting(a)' <=> Putting(a)
      BY <3>1 DEF Putting, OfApp
    <3>3. \A q \in Puts : OfApp(q, a) => puts'[q] = puts[q]
      BY <2>1, <2>3
    <3> QED
      BY <2>1, <2>4, <3>1, <3>2, <3>3 DEF Mirrored, Alone
  <2> QED
    BY <2>5, <2>6
<1>9. ASSUME NEW p \in Puts, ServerPuts(p) \/ ServerRefuses(p) PROVE MirrorInv'
  <2> DEFINE b == puts[p].app
  <2>1. b \in App /\ puts[p] \in Put
    BY <1>t DEF Put
  <2>2. /\ UNCHANGED <<known, gets, doubtful>>
        /\ puts[p].step = "sent" /\ puts'[p].app = b
        /\ \A q \in Puts \ {p} : puts'[q] = puts[q]
        /\ \A a \in App \ {b} : stored'[a] = stored[a]
        /\ \/ puts'[p].step = "answered" /\ puts'[p].got = stored'[b]
           \/ /\ puts'[p].step = "refused" /\ puts'[p].prev = puts[p].prev
              /\ stored'[b] = stored[b]
    <3>1. CASE ServerPuts(p)
      BY <1>t, <2>1, <3>1 DEF ServerPuts, registryVars, historyVars, NoPut
    <3>2. CASE ServerRefuses(p)
      BY <1>t, <2>1, <3>2 DEF ServerRefuses, registryVars, historyVars, Put
    <3> QED
      BY <1>9, <3>1, <3>2
  <2>3. \A q \in Puts, a \in App : OfApp(q, a)' <=> OfApp(q, a)
    BY <2>2 DEF OfApp, InFlight
  <2>4. \A a \in App : Putting(a)' <=> Putting(a)
    BY <2>3 DEF Putting, OfApp
  <2> SUFFICES ASSUME NEW a \in App \ doubtful' PROVE Mirrored(a)'
    BY DEF MirrorInv
  <2>5. Mirrored(a)
    BY <2>2 DEF MirrorInv
  <2>6. CASE a = b
    <3>1. OfApp(p, a) /\ Alone(p, a)
      BY <2>2, <2>5, <2>6 DEF Mirrored, OfApp, InFlight
    <3>2. Alone(p, a)'
      BY <2>2, <2>3, <2>6, <3>1 DEF Alone
    <3>3. gets'[a] = "none" /\ Putting(a)' /\ \A q \in Puts : OfApp(q, a)' => q = p
      BY <2>2, <2>3, <2>4, <3>1 DEF Alone, Putting, OfApp
    <3> QED
      BY <3>2, <3>3 DEF Mirrored
  <2>7. CASE a # b
    <3>1. \A q \in Puts : OfApp(q, a) => puts'[q] = puts[q]
      BY <2>2, <2>7 DEF OfApp
    <3> QED
      BY <2>2, <2>3, <2>4, <2>5, <2>7, <3>1 DEF Mirrored, Alone
  <2> QED
    BY <2>6, <2>7
<1>10. ASSUME NEW p \in Puts, PutAnswered(p) PROVE MirrorInv'
  <2>1. puts[p].app \in App /\ InFlight(p) /\ OfApp(p, puts[p].app)
    BY <1>10, <1>t DEF PutAnswered, InFlight, OfApp, Put
  <2>2. puts[p].app \notin doubtful => puts[p].got = stored[puts[p].app]
    BY <1>10, <2>1 DEF MirrorInv, Mirrored, Alone, PutAnswered
  <2>3. PutSettles(p, puts[p].got) /\ doubtful' = doubtful
    BY <1>10 DEF PutAnswered
  <2> QED
    BY <2>1, <2>2, <2>3, MirrorSettled
<1>11. ASSUME NEW p \in Puts, PutRefused(p) PROVE MirrorInv'
  <2>1. puts[p].app \in App /\ InFlight(p) /\ OfApp(p, puts[p].app) /\ puts[p].step = "refused"
    BY <1>11, <1>t DEF PutRefused, InFlight, OfApp, Put
  <2>2. puts[p].app \notin doubtful =>
          /\ known[puts[p].app] \in {"none", stored[puts[p].app]}
          /\ puts[p].prev \in {"none", known[puts[p].app]}
    BY <2>1 DEF MirrorInv, Mirrored, Alone
  <2>3. PICK state \in {puts[p].prev, known[puts[p].app]} : PutSettles(p, state)
    BY <1>11 DEF PutRefused
  <2>4. doubtful' = doubtful
    BY <1>11 DEF PutRefused
  <2> QED
    BY <2>1, <2>2, <2>3, <2>4, MirrorSettled
<1>12. ASSUME NEW p \in Puts, PutLost(p) PROVE MirrorInv'
  <2>1. /\ InFlight(p) /\ PutSettles(p, known[puts[p].app])
        /\ doubtful' = doubtful \cup {puts[p].app}
    BY <1>12 DEF PutLost
  <2> QED
    BY <2>1, MirrorSettled
<1> QED
  BY <1>1, <1>2, <1>3, <1>4, <1>5, <1>6, <1>7, <1>8, <1>9, <1>10, <1>11, <1>12 DEF Next

\* The page knows what the server has stored of an app whose requests
\* neither overlapped nor were lost.
THEOREM MirrorsServerCorrect == Spec => []MirrorsServer
<1>1. MirrorInv => MirrorsServer
  BY DEF MirrorInv, Mirrored, MirrorsServer
<1> QED
  BY <1>1, TypeCorrect, InitMirror, StepMirror, PTL DEF Spec

-----------------------------------------------------------------------------
(***************************************************************************)
(* The settings.  An edit that is not exempt is what dirtyMap has; when    *)
(* that has nothing, it is what Core stores; a key that is still to be     *)
(* sent is as in dirtyMap, and one that was saved also as Core stores it;  *)
(* a key being reset is exempt.                                            *)
(***************************************************************************)
SettingsTypes ==
  /\ coreStored = [k \in Keys |-> coreStored[k]] /\ dirty = [k \in Keys |-> dirty[k]]
  /\ edited = [k \in Keys |-> edited[k]]
  /\ save.todo = [k \in Keys |-> save.todo[k]] /\ save.saved = [k \in Keys |-> save.saved[k]]
  /\ save = [on |-> save.on, todo |-> save.todo, saved |-> save.saved]

EditKept(k) ==
  /\ dirty[k] # None => edited[k] = dirty[k]
  /\ dirty[k] = None /\ edited[k] # None => coreStored[k] = edited[k]
  /\ save.todo[k] # None => dirty[k] = save.todo[k]
  /\ save.saved[k] # None =>
       save.todo[k] = None /\ dirty[k] = save.saved[k] /\ coreStored[k] = save.saved[k]

SavesKeep ==
  /\ \A k \in Keys \ exempt : EditKept(k)
  /\ reset # None => reset \in exempt

\* What is typed for a plugin and not overwritten is what its save sends, and
\* what Core stores when that was answered.
TypingKept ==
  pTyped # None /\ ~overwritten =>
    /\ IF pDirty THEN pShown = pTyped ELSE pStored = pTyped
    /\ pSave \notin {"none", "stuck"} => pDirty
    /\ pSave \in Values \cup {Default} => pSave = pTyped
    /\ pSave = "written" => pStored = pTyped

ShownIsValue == pShown \in Values \cup {Default}

SettingsInv == SettingsTypes /\ SavesKeep /\ TypingKept /\ ShownIsValue

LEMMA SettingsStart == Settings!SettingsInit => SettingsInv
BY DEF Settings!SettingsInit, Settings!Clean, Settings!NoSave, SettingsInv, SettingsTypes,
       SavesKeep, EditKept, TypingKept, ShownIsValue

LEMMA SettingsStepKeeps ==
  ASSUME SettingsInv, [Settings!SettingsNext]_Settings!settingsVars
  PROVE  SettingsInv'
<1> USE DEF SettingsInv
<1>p. ASSUME UNCHANGED Settings!pluginVars PROVE TypingKept' /\ ShownIsValue'
  BY <1>p DEF Settings!pluginVars, TypingKept, ShownIsValue
<1>c. ASSUME UNCHANGED Settings!coreVars PROVE SettingsTypes' /\ SavesKeep'
  BY <1>c DEF Settings!coreVars, SettingsTypes, SavesKeep, EditKept
<1>1. CASE UNCHANGED Settings!settingsVars
  BY <1>1, <1>p, <1>c DEF Settings!settingsVars
<1>2. CASE Settings!Opens
  <2>1. SettingsTypes' /\ SavesKeep'
    BY <1>2 DEF Settings!Opens, SettingsTypes, SavesKeep, EditKept
  <2> QED
    BY <1>2, <2>1 DEF Settings!Opens, TypingKept, ShownIsValue
<1>3. CASE Settings!CoreLists
  BY <1>3, <1>p DEF Settings!CoreLists, SettingsTypes, SavesKeep, EditKept
<1>4. ASSUME NEW ok \in BOOLEAN, Settings!Listed(ok) PROVE SettingsInv'
  BY <1>4, <1>p DEF Settings!Listed, Settings!Clean, SettingsTypes, SavesKeep, EditKept
<1>5. CASE Settings!SaveAll
  BY <1>5, <1>p DEF Settings!SaveAll, Settings!Clean, SettingsTypes, SavesKeep, EditKept
<1>6. ASSUME NEW k \in Keys, NEW ok \in BOOLEAN, Settings!SaveKey(k, ok) PROVE SettingsInv'
  <2>1. /\ save.todo[k] # None
        /\ save' = [on |-> save.on, todo |-> [save.todo EXCEPT ![k] = None],
                    saved |-> [save.saved EXCEPT ![k] = IF ok THEN save.todo[k] ELSE None]]
        /\ coreStored' = IF ok THEN [coreStored EXCEPT ![k] = save.todo[k]] ELSE coreStored
        /\ UNCHANGED <<dirty, reset, edited, exempt>>
    BY <1>6 DEF Settings!SaveKey, SettingsTypes
  <2>2. SettingsTypes'
    BY <2>1 DEF SettingsTypes
  <2>3. ASSUME NEW j \in Keys \ exempt PROVE EditKept(j)'
    <3>1. EditKept(j)
      BY <2>3 DEF SavesKeep
    <3>2. CASE j = k
      BY <2>1, <3>1, <3>2 DEF EditKept, SettingsTypes
    <3>3. CASE j # k
      <4>1. save'.todo[j] = save.todo[j] /\ save'.saved[j] = save.saved[j]
            /\ coreStored'[j] = coreStored[j] /\ dirty' = dirty /\ edited' = edited
        BY <2>1, <3>3 DEF SettingsTypes
      <4> QED
        BY <3>1, <4>1 DEF EditKept
    <3> QED
      BY <3>2, <3>3
  <2> QED
    BY <1>6, <1>p, <2>1, <2>2, <2>3 DEF Settings!SaveKey, SavesKeep
<1>7. CASE Settings!SaveEnds
  BY <1>7, <1>p DEF Settings!SaveEnds, Settings!Unsaved, Settings!NoSave, Settings!Clean,
                    SettingsTypes, SavesKeep, EditKept
<1>8. ASSUME NEW k \in Keys, Settings!Reset(k) PROVE SettingsInv'
  BY <1>8, <1>p DEF Settings!Reset, SettingsTypes, SavesKeep, EditKept
<1>9. ASSUME NEW ok \in BOOLEAN, Settings!ResetSettles(ok) PROVE SettingsInv'
  <2>1. ASSUME NEW j \in Keys \ exempt PROVE EditKept(j)'
    <3>1. EditKept(j) /\ j # reset
      BY <1>9, <2>1 DEF SavesKeep, Settings!ResetSettles
    <3> QED
      BY <1>9, <3>1 DEF Settings!ResetSettles, EditKept, SettingsTypes
  <2> QED
    BY <1>9, <1>p, <2>1 DEF Settings!ResetSettles, SettingsTypes, SavesKeep
<1>10. ASSUME NEW k \in Keys, NEW v \in Values, Settings!Edit(k, v) PROVE SettingsInv'
  <2>1. ASSUME NEW j \in Keys \ exempt' PROVE EditKept(j)'
    <3>1. CASE j = k
      BY <1>10, <2>1, <3>1 DEF Settings!Edit, EditKept, SettingsTypes
    <3>2. CASE j # k
      <4>1. EditKept(j)
        BY <1>10, <2>1, <3>2 DEF Settings!Edit, SavesKeep
      <4> QED
        BY <1>10, <3>2, <4>1 DEF Settings!Edit, EditKept, SettingsTypes
    <3> QED
      BY <3>1, <3>2
  <2>2. SettingsTypes' /\ (reset # None => reset \in exempt)'
    BY <1>10 DEF Settings!Edit, SettingsTypes, SavesKeep
  <2> QED
    BY <1>10, <1>p, <2>1, <2>2 DEF Settings!Edit, SavesKeep
<1>11. ASSUME NEW v \in Values, Settings!Type(v) PROVE SettingsInv'
  BY <1>11, <1>c, SettingsBounds DEF Settings!Type, TypingKept, ShownIsValue
<1>12. ASSUME NEW n \in 1..MaxLoads, NEW ok \in BOOLEAN, Settings!LoadReads(n, ok)
       PROVE  SettingsInv'
  BY <1>12, <1>c, SettingsBounds DEF Settings!LoadReads, TypingKept, ShownIsValue
<1>13. ASSUME NEW n \in 1..MaxLoads, Settings!LoadAnswered(n) PROVE SettingsInv'
  BY <1>13, <1>c, SettingsBounds DEF Settings!LoadAnswered, TypingKept, ShownIsValue
<1>14. CASE Settings!PluginSave
  BY <1>14, <1>c, SettingsBounds DEF Settings!PluginSave, TypingKept, ShownIsValue
<1>15. ASSUME NEW ok \in BOOLEAN, Settings!PluginSaveSettles(ok) PROVE SettingsInv'
  BY <1>15, <1>c, SettingsBounds DEF Settings!PluginSaveSettles, TypingKept, ShownIsValue
<1>16. CASE Settings!PluginSaved
  BY <1>16, <1>c, SettingsBounds DEF Settings!PluginSaved, TypingKept, ShownIsValue
<1> QED
  BY <1>1, <1>2, <1>3, <1>4, <1>5, <1>6, <1>7, <1>8, <1>9, <1>10, <1>11, <1>12, <1>13, <1>14,
     <1>15, <1>16 DEF Settings!SettingsNext

\* What the user typed in the settings is shown until it is stored, for any
\* number of keys, edits, saves and reads, with the exceptions the module
\* names (settings-panel.tsx:75, 261).
THEOREM EditsKeptCorrect == MCSpec => []EditsKept
<1>1. SettingsInv => EditsKept
  BY DEF SettingsInv, SavesKeep, EditKept, TypingKept, EditsKept, Settings!EditsKept,
         Settings!PluginEditsKept
<1>2. MCInit => SettingsInv
  BY SettingsStart DEF MCInit
<1>3. SettingsInv /\ [MCNext]_allVars => SettingsInv'
  <2> SUFFICES ASSUME SettingsInv, [MCNext]_allVars PROVE SettingsInv'
    OBVIOUS
  <2>1. [Settings!SettingsNext]_Settings!settingsVars
    BY DEF MCNext, allVars, SyncStep, RegistriesStep, ConditionsStep, MenusStep, SettingsStep,
           settingsVars, Settings!settingsVars, Settings!coreVars, Settings!pluginVars
  <2> QED
    BY <2>1, SettingsStepKeeps
<1> QED
  BY <1>1, <1>2, <1>3, PTL DEF MCSpec

-----------------------------------------------------------------------------
(***************************************************************************)
(* The registries.  An id that one app claims is the app's while the app   *)
(* is registered, at any time.  While a sync that nothing disturbed runs,  *)
(* what it has not come to is the rest of the list; the apps it has come   *)
(* to are registered and collected, in the order of the list, exactly if   *)
(* they are enabled; and no registered app has left the list.              *)
(***************************************************************************)
ContribTypes ==
  /\ gives \in [Apps -> SUBSET Ids] /\ configured \subseteq Apps /\ registered \subseteq Apps
  /\ listed \in Seq(Apps) /\ todo \in Seq(Apps) /\ gathered \in Seq(Apps) /\ bulk \in Seq(Apps)
  /\ fetching \in Apps \cup {NoApp}
  /\ entry = [i \in Ids |-> entry[i]] /\ viewOwner = [i \in Ids |-> viewOwner[i]]
  /\ running \in BOOLEAN /\ upToDate \in BOOLEAN
  /\ ~running => todo = <<>> /\ fetching = NoApp

OwnedIfRegistered(i) ==
  ~Contrib!Clashes(i) =>
    /\ \A c \in Contrib!Claimants(i) :
         /\ entry[i] = IF c \in registered \cup {Host} THEN c ELSE NoApp
         /\ c = MCPrefixOf[i] => viewOwner[i] = IF c \in registered THEN c ELSE NoApp
    /\ Contrib!Claimants(i) = {} => entry[i] = NoApp

Owned == (\A i \in Ids : OwnedIfRegistered(i)) /\ fills = configured \cap registered

\* How many apps of the list the sync is done with
Done == Len(listed) - Len(todo) - (IF fetching = NoApp THEN 0 ELSE 1)

RestIsTodo ==
  /\ Done \in Nat
  /\ \A j \in 1..Len(todo) : todo[j] = listed[Len(listed) - Len(todo) + j]
  /\ fetching # NoApp => fetching \in on /\ fetching = listed[Done + 1]

InOrder ==
  /\ \A m \in DOMAIN gathered : \E p \in 1..Done : listed[p] = gathered[m]
  /\ \A m, n \in DOMAIN gathered : m < n =>
       \E p, q \in 1..Done : p < q /\ listed[p] = gathered[m] /\ listed[q] = gathered[n]

DoneAsEnabled ==
  /\ \A m \in DOMAIN gathered : gathered[m] \in on /\ gathered[m] \in registered
  /\ \A p \in 1..Done : listed[p] \in on => \E m \in DOMAIN gathered : gathered[m] = listed[p]
  /\ \A a \in registered :
       /\ \E p \in DOMAIN listed : listed[p] = a
       /\ a \in on \/ \E j \in DOMAIN todo : todo[j] = a

Undisturbed == running /\ upToDate => RestIsTodo /\ InOrder /\ DoneAsEnabled

Ended ==
  ~running /\ upToDate =>
    /\ registered = Contrib!Active
    /\ Contrib!Range(bulk) = Contrib!Active
    /\ \A m, n \in DOMAIN bulk : m < n =>
         \E p, q \in DOMAIN listed : p < q /\ listed[p] = bulk[m] /\ listed[q] = bulk[n]
    /\ panelOwner = Contrib!PanelOwners(bulk)

ContribInv == ContribTypes /\ Owned /\ Undisturbed /\ Ended

\* The first of some places
LEMMA FirstIsOne ==
  ASSUME NEW S, S \subseteq Nat, S # {}
  PROVE  Contrib!Min(S) \in S
<1>1. \E x \in S : \A y \in S : ~(<<y, x>> \in OpToRel(<, Nat))
  BY NatLessThanWellFounded, WFMin
<1>a. OpToRel(<, Nat) = {ss \in Nat \X Nat : ss[1] < ss[2]}
  BY Zenon DEF OpToRel
<1>2. \E x \in S : \A y \in S : x =< y
  <2>1. PICK x \in S : \A y \in S : ~(<<y, x>> \in OpToRel(<, Nat))
    BY <1>1
  <2>2. \A y \in S : ~(<<y, x>> \in {ss \in Nat \X Nat : ss[1] < ss[2]})
    BY <2>1, <1>a, Zenon
  <2>3. \A y \in S : y \in Nat /\ x \in Nat
    OBVIOUS
  <2>4. \A y \in S : ~(y < x)
    BY <2>2, <2>3
  <2> QED
    BY <2>3, <2>4
<1> QED
  BY <1>2 DEF Contrib!Min

LEMMA RemovingType ==
  ASSUME NEW A, NEW l \in Seq(A), NEW n \in DOMAIN l
  PROVE  Contrib!RemoveAt(l, n) \in Seq(A)
<1>1. n \in 1..Len(l)
  BY LenProperties
<1>2. SubSeq(l, 1, n - 1) \in Seq(A) /\ SubSeq(l, n + 1, Len(l)) \in Seq(A)
  BY <1>1, SubSeqProperties, LenProperties
<1> QED
  BY <1>2, ConcatProperties DEF Contrib!RemoveAt

\* What Forget does to the ids one app claims
LEMMA Forgotten ==
  ASSUME ContribTypes, Owned, NEW gone, Contrib!Forget(gone), UNCHANGED <<gives, configured>>
  PROVE  /\ Owned' /\ registered' \subseteq Apps
         /\ entry' = [i \in Ids |-> entry'[i]] /\ viewOwner' = [i \in Ids |-> viewOwner'[i]]
<1>1. registered' = registered \ gone /\ fills' = fills \ gone
  BY DEF Contrib!Forget
<1>2. ASSUME NEW i \in Ids, NEW c \in Contrib!Claimants(i), ~Contrib!Clashes(i)
      PROVE  /\ entry'[i] = IF c \in registered' \cup {Host} THEN c ELSE NoApp
             /\ c = MCPrefixOf[i] => viewOwner'[i] = IF c \in registered' THEN c ELSE NoApp
  <2>1. /\ entry[i] = IF c \in registered \cup {Host} THEN c ELSE NoApp
        /\ c = MCPrefixOf[i] => viewOwner[i] = IF c \in registered THEN c ELSE NoApp
    BY <1>2 DEF Owned, OwnedIfRegistered
  <2>2. \A a \in Apps : i \in gives[a] <=> a = c /\ c # Host
    BY <1>2, OwnersBounds DEF Contrib!Clashes, Contrib!Claimants, ContribTypes
  <2>3. c # Host => c \in Apps
    BY <1>2 DEF Contrib!Claimants
  <2>4. i \in UNION {gives[a] : a \in gone \cap registered} <=> c \in gone \cap registered /\ c # Host
    BY <2>2, <2>3 DEF ContribTypes
  <2>5. entry'[i] = IF c \in gone \cap registered /\ c # Host THEN NoApp ELSE entry[i]
    BY <2>4 DEF Contrib!Forget
  <2>6. viewOwner'[i] = IF MCPrefixOf[i] \in gone THEN NoApp ELSE viewOwner[i]
    BY DEF Contrib!Forget
  <2> QED
    BY <1>1, <2>1, <2>3, <2>5, <2>6, OwnersBounds DEF ContribTypes
<1>3. ASSUME NEW i \in Ids, ~Contrib!Clashes(i), Contrib!Claimants(i) = {} PROVE entry'[i] = NoApp
  BY <1>3 DEF Contrib!Forget, Owned, OwnedIfRegistered
<1>4. \A i \in Ids : Contrib!Claimants(i)' = Contrib!Claimants(i) /\ Contrib!Clashes(i)' = Contrib!Clashes(i)
  BY DEF Contrib!Claimants, Contrib!Clashes
<1>5. ASSUME NEW i \in Ids PROVE OwnedIfRegistered(i)'
  BY <1>2, <1>3, <1>4 DEF OwnedIfRegistered
<1> QED
  BY <1>1, <1>5 DEF Owned, ContribTypes, Contrib!Forget

LEMMA Registered ==
  ASSUME ContribTypes, Owned, NEW a \in Apps, Contrib!Register(a), UNCHANGED <<gives, configured>>
  PROVE  /\ Owned' /\ registered' = registered \cup {a}
         /\ entry' = [i \in Ids |-> entry'[i]] /\ viewOwner' = [i \in Ids |-> viewOwner'[i]]
<1>1. registered' = registered \cup {a}
      /\ fills' = IF a \in configured THEN fills \cup {a} ELSE fills
  BY DEF Contrib!Register
<1>2. ASSUME NEW i \in Ids, NEW c \in Contrib!Claimants(i), ~Contrib!Clashes(i)
      PROVE  /\ entry'[i] = IF c \in registered' \cup {Host} THEN c ELSE NoApp
             /\ c = MCPrefixOf[i] => viewOwner'[i] = IF c \in registered' THEN c ELSE NoApp
  <2>1. /\ entry[i] = IF c \in registered \cup {Host} THEN c ELSE NoApp
        /\ c = MCPrefixOf[i] => viewOwner[i] = IF c \in registered THEN c ELSE NoApp
    BY <1>2 DEF Owned, OwnedIfRegistered
  <2>2. i \in gives[a] <=> a = c
    BY <1>2, OwnersBounds DEF Contrib!Clashes, Contrib!Claimants, ContribTypes
  <2>3. /\ entry'[i] = IF a = c THEN a ELSE entry[i]
        /\ viewOwner'[i] = IF a = c THEN a ELSE viewOwner[i]
    BY <2>2 DEF Contrib!Register
  <2> QED
    BY <1>1, <2>1, <2>3
<1>3. ASSUME NEW i \in Ids, ~Contrib!Clashes(i), Contrib!Claimants(i) = {} PROVE entry'[i] = NoApp
  BY <1>3 DEF Contrib!Register, Owned, OwnedIfRegistered, Contrib!Claimants
<1>4. \A i \in Ids : Contrib!Claimants(i)' = Contrib!Claimants(i) /\ Contrib!Clashes(i)' = Contrib!Clashes(i)
  BY DEF Contrib!Claimants, Contrib!Clashes
<1>5. ASSUME NEW i \in Ids PROVE OwnedIfRegistered(i)'
  BY <1>2, <1>3, <1>4 DEF OwnedIfRegistered
<1>6. fills' = configured \cap registered'
  BY <1>1 DEF Owned
<1> QED
  BY <1>1, <1>5, <1>6 DEF Owned, Contrib!Register

LEMMA OwnedUntouched ==
  ASSUME Owned, UNCHANGED <<gives, configured, entry, viewOwner, registered, fills>>
  PROVE  Owned'
BY DEF Owned, OwnedIfRegistered, Contrib!Clashes, Contrib!Claimants

\* What is left after the first
LEMMA RestOfTodo ==
  ASSUME NEW t \in Seq(Apps), t # <<>>
  PROVE  /\ Tail(t) \in Seq(Apps) /\ Head(t) \in Apps /\ Head(t) = t[1] /\ Len(t) \in Nat \ {0}
         /\ Len(Tail(t)) = Len(t) - 1
         /\ \A j \in 1..Len(t) - 1 : Tail(t)[j] = t[j + 1]
         /\ DOMAIN t = 1..Len(t) /\ DOMAIN Tail(t) = 1..Len(t) - 1
<1>1. Len(t) \in Nat /\ Len(t) # 0 /\ DOMAIN t = 1..Len(t)
  BY LenProperties, EmptySeq
<1>2. /\ Tail(t) \in Seq(Apps) /\ Len(Tail(t)) = Len(t) - 1
      /\ \A j \in 1..Len(Tail(t)) : Tail(t)[j] = t[j + 1]
  BY HeadTailProperties
<1>3. DOMAIN Tail(t) = 1..Len(Tail(t))
  BY <1>2, LenProperties
<1>4. Head(t) \in Apps /\ Head(t) = t[1]
  BY <1>1, HeadTailProperties
<1> QED
  BY <1>1, <1>2, <1>3, <1>4

LEMMA StepBeginSync ==
  ASSUME ContribInv, Contrib!BeginSync
  PROVE  ContribInv'
<1>1. /\ ~running /\ running' = TRUE /\ todo' = listed /\ gathered' = <<>> /\ upToDate' = TRUE
      /\ Contrib!Forget(Contrib!Deleted)
      /\ UNCHANGED <<gives, configured, listed, on, panelOwner, bulk, fetching>>
  BY DEF Contrib!BeginSync, Contrib!given, Contrib!shown
<1>2. ContribTypes /\ Owned /\ fetching = NoApp
  BY <1>1 DEF ContribInv, ContribTypes
<1>3. /\ Owned' /\ registered' \subseteq Apps
      /\ entry' = [i \in Ids |-> entry'[i]] /\ viewOwner' = [i \in Ids |-> viewOwner'[i]]
  BY <1>1, <1>2, Forgotten
<1>4. <<>> \in Seq(Apps) /\ DOMAIN <<>> = {}
  BY EmptySeq
<1>5. ContribTypes'
  BY <1>1, <1>2, <1>3, <1>4 DEF ContribTypes
<1>6. Len(listed) \in Nat /\ DOMAIN listed = 1..Len(listed)
  BY <1>2, LenProperties DEF ContribTypes
<1>7. Done' = 0
  BY <1>1, <1>2, <1>6 DEF Done
<1>8. RestIsTodo'
  BY <1>1, <1>2, <1>6, <1>7 DEF RestIsTodo
<1>9. InOrder'
  BY <1>1, <1>4 DEF InOrder
<1>10. ASSUME NEW a \in registered' PROVE \E p \in DOMAIN listed : listed[p] = a
  BY <1>1 DEF Contrib!Forget, Contrib!Deleted, Contrib!Range
<1>11. DoneAsEnabled'
  BY <1>1, <1>4, <1>7, <1>10 DEF DoneAsEnabled
<1> QED
  BY <1>1, <1>3, <1>5, <1>8, <1>9, <1>11 DEF ContribInv, Undisturbed, Ended

LEMMA StepNextApp ==
  ASSUME ContribInv, Contrib!NextApp
  PROVE  ContribInv'
<1>1. /\ todo # <<>> /\ fetching = NoApp /\ todo' = Tail(todo)
      /\ UNCHANGED <<gives, configured, listed, on, panelOwner, bulk, gathered, running, upToDate>>
  BY DEF Contrib!NextApp, Contrib!given, Contrib!shown
<1>2. ContribTypes /\ Owned /\ running
  BY <1>1 DEF ContribInv, ContribTypes
<1>3. /\ todo' \in Seq(Apps) /\ Head(todo) \in Apps /\ Head(todo) = todo[1]
      /\ Len(todo) \in Nat \ {0} /\ Len(todo') = Len(todo) - 1
      /\ \A j \in 1..Len(todo) - 1 : todo'[j] = todo[j + 1]
      /\ DOMAIN todo = 1..Len(todo) /\ DOMAIN todo' = 1..Len(todo) - 1
  BY <1>1, <1>2, RestOfTodo DEF ContribTypes
<1>4. Len(listed) \in Nat /\ DOMAIN listed = 1..Len(listed)
  BY <1>2, LenProperties DEF ContribTypes
<1>5. CASE Head(todo) \in on
  <2>1. fetching' = Head(todo) /\ UNCHANGED <<entry, viewOwner, registered, fills>>
    BY <1>5 DEF Contrib!NextApp, Contrib!registries
  <2>2. ContribTypes' /\ Owned'
    BY <1>1, <1>2, <1>3, <2>1, OwnedUntouched DEF ContribTypes
  <2>3. ASSUME upToDate PROVE RestIsTodo' /\ InOrder' /\ DoneAsEnabled'
    <3>1. RestIsTodo /\ InOrder /\ DoneAsEnabled
      BY <1>2, <2>3 DEF ContribInv, Undisturbed
    <3>2. Done = Len(listed) - Len(todo) /\ Done' = Done
      BY <1>1, <1>3, <1>4, <2>1, OwnersBounds DEF Done
    <3>3. RestIsTodo'
      <4>1. ASSUME NEW j \in 1..Len(todo') PROVE todo'[j] = listed[Len(listed) - Len(todo') + j]
        <5>1. j + 1 \in 1..Len(todo) /\ Len(listed) - Len(todo') + j = Len(listed) - Len(todo) + (j + 1)
          BY <1>3, <1>4
        <5> QED
          BY <1>3, <3>1, <5>1 DEF RestIsTodo
      <4>2. fetching' = listed[Done + 1]
        BY <1>3, <2>1, <3>1, <3>2 DEF RestIsTodo
      <4> QED
        BY <1>1, <1>5, <2>1, <3>1, <3>2, <4>1, <4>2 DEF RestIsTodo
    <3>4. InOrder'
      BY <1>1, <3>1, <3>2 DEF InOrder
    <3>5. ASSUME NEW a \in registered, a \notin on PROVE \E j \in DOMAIN todo' : todo'[j] = a
      <4>1. PICK j \in DOMAIN todo : todo[j] = a
        BY <3>1, <3>5 DEF DoneAsEnabled
      <4>2. j \in 1..Len(todo) /\ j # 1
        BY <1>3, <1>5, <3>5, <4>1
      <4>3. j - 1 \in 1..Len(todo) - 1 /\ todo'[j - 1] = todo[(j - 1) + 1] /\ (j - 1) + 1 = j
        BY <1>3, <4>2
      <4> QED
        BY <1>3, <4>1, <4>3
    <3> QED
      BY <1>1, <2>1, <3>1, <3>2, <3>3, <3>4, <3>5 DEF DoneAsEnabled
  <2> QED
    BY <1>1, <1>2, <2>2, <2>3 DEF ContribInv, Undisturbed, Ended
<1>6. CASE Head(todo) \notin on
  <2>1. fetching' = NoApp /\ Contrib!Forget({Head(todo)})
    BY <1>6 DEF Contrib!NextApp
  <2>2. /\ Owned' /\ registered' \subseteq Apps
        /\ entry' = [i \in Ids |-> entry'[i]] /\ viewOwner' = [i \in Ids |-> viewOwner'[i]]
    BY <1>1, <1>2, <2>1, Forgotten
  <2>3. ContribTypes'
    BY <1>1, <1>2, <1>3, <2>1, <2>2 DEF ContribTypes
  <2>4. registered' = registered \ {Head(todo)}
    BY <2>1 DEF Contrib!Forget
  <2>5. ASSUME upToDate PROVE RestIsTodo' /\ InOrder' /\ DoneAsEnabled'
    <3>1. RestIsTodo /\ InOrder /\ DoneAsEnabled
      BY <1>2, <2>5 DEF ContribInv, Undisturbed
    <3>2. Done = Len(listed) - Len(todo) /\ Done' = Done + 1 /\ Done \in Nat
      BY <1>1, <1>3, <1>4, <2>1, <3>1 DEF Done, RestIsTodo
    <3>3. RestIsTodo'
      <4>1. ASSUME NEW j \in 1..Len(todo') PROVE todo'[j] = listed[Len(listed) - Len(todo') + j]
        <5>1. j + 1 \in 1..Len(todo) /\ Len(listed) - Len(todo') + j = Len(listed) - Len(todo) + (j + 1)
          BY <1>3, <1>4
        <5> QED
          BY <1>3, <3>1, <5>1 DEF RestIsTodo
      <4>2. listed' = listed /\ fetching' = NoApp /\ Done' \in Nat
        BY <1>1, <2>1, <3>2
      <4> QED
        BY <4>1, <4>2 DEF RestIsTodo
    <3>4. InOrder'
      <4>1. \A p \in 1..Done : p \in 1..Done'
        BY <3>2
      <4> QED
        BY <1>1, <3>1, <4>1 DEF InOrder
    <3>5. ASSUME NEW a \in registered', a \notin on PROVE \E j \in DOMAIN todo' : todo'[j] = a
      <4>1. PICK j \in DOMAIN todo : todo[j] = a
        BY <2>4, <3>1, <3>5 DEF DoneAsEnabled
      <4>2. j \in 1..Len(todo) /\ j # 1
        BY <1>3, <2>4, <3>5, <4>1
      <4>3. j - 1 \in 1..Len(todo) - 1 /\ todo'[j - 1] = todo[(j - 1) + 1] /\ (j - 1) + 1 = j
        BY <1>3, <4>2
      <4> QED
        BY <1>3, <4>1, <4>3
    <3>6. ASSUME NEW p \in 1..Done', listed[p] \in on PROVE \E m \in DOMAIN gathered : gathered[m] = listed[p]
      <4>1. todo[1] = listed[Done + 1]
        BY <1>3, <3>1, <3>2 DEF RestIsTodo
      <4>2. p \in 1..Done
        BY <1>3, <1>6, <3>2, <3>6, <4>1
      <4> QED
        BY <3>1, <3>6, <4>2 DEF DoneAsEnabled
    <3>7. DoneAsEnabled'
      BY <1>1, <1>6, <2>4, <3>1, <3>5, <3>6 DEF DoneAsEnabled
    <3> QED
      BY <3>3, <3>4, <3>7
  <2> QED
    BY <1>1, <1>2, <2>2, <2>3, <2>5 DEF ContribInv, Undisturbed, Ended
<1> QED
  BY <1>5, <1>6

LEMMA StepManifestComes ==
  ASSUME ContribInv, Contrib!ManifestComes
  PROVE  ContribInv'
<1>1. /\ fetching # NoApp /\ fetching' = NoApp /\ Contrib!Register(fetching)
      /\ gathered' = Append(gathered, fetching)
      /\ UNCHANGED <<gives, configured, listed, on, panelOwner, bulk, todo, running, upToDate>>
  BY DEF Contrib!ManifestComes, Contrib!given, Contrib!shown
<1>2. ContribTypes /\ Owned /\ running /\ fetching \in Apps
  BY <1>1 DEF ContribInv, ContribTypes
<1>3. /\ Owned' /\ registered' = registered \cup {fetching}
      /\ entry' = [i \in Ids |-> entry'[i]] /\ viewOwner' = [i \in Ids |-> viewOwner'[i]]
  BY <1>1, <1>2, Registered
<1>4. /\ gathered' \in Seq(Apps) /\ Len(gathered) \in Nat /\ Len(gathered') = Len(gathered) + 1
      /\ \A m \in 1..Len(gathered) : gathered'[m] = gathered[m]
      /\ gathered'[Len(gathered) + 1] = fetching
      /\ DOMAIN gathered = 1..Len(gathered) /\ DOMAIN gathered' = 1..Len(gathered) + 1
  BY <1>1, <1>2, AppendProperties, LenProperties DEF ContribTypes
<1>5. ContribTypes'
  BY <1>1, <1>2, <1>3, <1>4 DEF ContribTypes
<1>6. Len(listed) \in Nat /\ Len(todo) \in Nat
  BY <1>2, LenProperties DEF ContribTypes
<1>7. ASSUME upToDate PROVE RestIsTodo' /\ InOrder' /\ DoneAsEnabled'
  <2>1. RestIsTodo /\ InOrder /\ DoneAsEnabled
    BY <1>2, <1>7 DEF ContribInv, Undisturbed
  <2>2. Done' = Done + 1 /\ Done \in Nat
    BY <1>1, <1>6, <2>1 DEF Done, RestIsTodo
  <2>3. fetching \in on /\ fetching = listed[Done + 1]
    BY <1>1, <2>1 DEF RestIsTodo
  <2>4. RestIsTodo'
    <3>1. \A j \in 1..Len(todo) : todo[j] = listed[Len(listed) - Len(todo) + j]
      BY <2>1 DEF RestIsTodo
    <3>2. listed' = listed /\ todo' = todo /\ fetching' = NoApp /\ Done' \in Nat
      BY <1>1, <2>2
    <3> QED
      BY <3>1, <3>2 DEF RestIsTodo
  <2>5. ASSUME NEW m \in DOMAIN gathered' PROVE \E p \in 1..Done' : listed[p] = gathered'[m]
    <3>1. CASE m \in 1..Len(gathered)
      <4>1. PICK p \in 1..Done : listed[p] = gathered[m]
        BY <1>4, <2>1, <3>1 DEF InOrder
      <4>2. p \in 1..Done'
        BY <2>2
      <4> QED
        BY <1>4, <3>1, <4>1, <4>2
    <3>2. CASE m = Len(gathered) + 1
      <4>1. Done + 1 \in 1..Done'
        BY <2>2
      <4> QED
        BY <1>4, <2>3, <3>2, <4>1
    <3> QED
      BY <1>4, <3>1, <3>2
  <2>6. ASSUME NEW m \in DOMAIN gathered', NEW n \in DOMAIN gathered', m < n
        PROVE  \E p, q \in 1..Done' : p < q /\ listed[p] = gathered'[m] /\ listed[q] = gathered'[n]
    <3>1. m \in 1..Len(gathered)
      BY <1>4, <2>6
    <3>2. CASE n \in 1..Len(gathered)
      <4>1. PICK p \in 1..Done, q \in 1..Done :
              p < q /\ listed[p] = gathered[m] /\ listed[q] = gathered[n]
        BY <1>4, <2>1, <2>6, <3>1, <3>2 DEF InOrder
      <4>2. p \in 1..Done' /\ q \in 1..Done'
        BY <2>2
      <4> QED
        BY <1>4, <3>1, <3>2, <4>1, <4>2
    <3>3. CASE n = Len(gathered) + 1
      <4>1. PICK p \in 1..Done : listed[p] = gathered[m]
        BY <1>4, <2>1, <3>1 DEF InOrder
      <4>2. p \in 1..Done' /\ Done + 1 \in 1..Done' /\ p < Done + 1
        BY <2>2
      <4> QED
        BY <1>4, <2>3, <3>1, <3>3, <4>1, <4>2
    <3> QED
      BY <1>4, <3>2, <3>3
  <2>7. InOrder'
    BY <1>1, <2>5, <2>6 DEF InOrder
  <2>8. ASSUME NEW m \in DOMAIN gathered' PROVE gathered'[m] \in on /\ gathered'[m] \in registered'
    BY <1>3, <1>4, <2>1, <2>3 DEF DoneAsEnabled
  <2>9. ASSUME NEW p \in 1..Done', listed[p] \in on
        PROVE  \E m \in DOMAIN gathered' : gathered'[m] = listed[p]
    <3>1. CASE p \in 1..Done
      <4>1. PICK m \in DOMAIN gathered : gathered[m] = listed[p]
        BY <2>1, <2>9, <3>1 DEF DoneAsEnabled
      <4> QED
        BY <1>4, <4>1
    <3>2. CASE p = Done + 1
      <4>1. Len(gathered) + 1 \in DOMAIN gathered'
        BY <1>4
      <4> QED
        BY <1>4, <2>3, <3>2, <4>1
    <3> QED
      BY <2>2, <3>1, <3>2
  <2>10. ASSUME NEW a \in registered'
         PROVE  /\ \E p \in DOMAIN listed : listed[p] = a
                /\ a \in on \/ \E j \in DOMAIN todo : todo[j] = a
    <3>1. CASE a \in registered
      BY <2>1, <3>1 DEF DoneAsEnabled
    <3>2. CASE a = fetching
      <4>1. Done + 1 \in DOMAIN listed
        BY <1>1, <1>2, <1>6, <2>2, LenProperties DEF ContribTypes, Done
      <4> QED
        BY <2>3, <3>2, <4>1
    <3> QED
      BY <1>3, <3>1, <3>2
  <2>11. DoneAsEnabled'
    BY <1>1, <2>8, <2>9, <2>10 DEF DoneAsEnabled
  <2> QED
    BY <2>4, <2>7, <2>11
<1> QED
  BY <1>1, <1>2, <1>3, <1>5, <1>7 DEF ContribInv, Undisturbed, Ended

LEMMA StepEndSync ==
  ASSUME ContribInv, Contrib!EndSync
  PROVE  ContribInv'
<1>1. /\ running /\ todo = <<>> /\ fetching = NoApp
      /\ running' = FALSE /\ panelOwner' = Contrib!PanelOwners(gathered) /\ bulk' = gathered
      /\ UNCHANGED <<gives, configured, listed, on, entry, viewOwner, registered, fills, todo,
                     fetching, gathered, upToDate>>
  BY DEF Contrib!EndSync, Contrib!given, Contrib!registries
<1>2. ContribTypes /\ Owned
  BY DEF ContribInv
<1>3. ContribTypes' /\ Owned'
  BY <1>1, <1>2, OwnedUntouched DEF ContribTypes
<1>4. ASSUME upToDate
      PROVE  /\ registered = Contrib!Active
             /\ Contrib!Range(gathered) = Contrib!Active
             /\ \A m, n \in DOMAIN gathered : m < n =>
                  \E p, q \in DOMAIN listed : p < q /\ listed[p] = gathered[m] /\ listed[q] = gathered[n]
  <2>1. RestIsTodo /\ InOrder /\ DoneAsEnabled
    BY <1>1, <1>4 DEF ContribInv, Undisturbed
  <2>2. Len(listed) \in Nat /\ DOMAIN listed = 1..Len(listed) /\ Len(todo) = 0 /\ DOMAIN todo = {}
    BY <1>1, <1>2, LenProperties, EmptySeq DEF ContribTypes
  <2>3. 1..Done = DOMAIN listed
    BY <1>1, <2>2 DEF Done
  <2>4. Contrib!Range(gathered) \subseteq registered
    BY <2>1 DEF DoneAsEnabled, Contrib!Range
  <2>5. registered \subseteq Contrib!Active
    BY <2>1, <2>2 DEF DoneAsEnabled, Contrib!Active, Contrib!Range
  <2>6. ASSUME NEW a \in Contrib!Active PROVE a \in Contrib!Range(gathered)
    <3>1. PICK p \in DOMAIN listed : listed[p] = a
      BY <2>6 DEF Contrib!Active, Contrib!Range
    <3>2. a \in on
      BY <2>6 DEF Contrib!Active
    <3>3. \E m \in DOMAIN gathered : gathered[m] = a
      BY <2>1, <2>3, <3>1, <3>2 DEF DoneAsEnabled
    <3> QED
      BY <3>3 DEF Contrib!Range
  <2>7. registered = Contrib!Active /\ Contrib!Range(gathered) = Contrib!Active
    BY <2>4, <2>5, <2>6
  <2>8. ASSUME NEW m \in DOMAIN gathered, NEW n \in DOMAIN gathered, m < n
        PROVE  \E p, q \in DOMAIN listed : p < q /\ listed[p] = gathered[m] /\ listed[q] = gathered[n]
    <3>1. PICK p \in 1..Done, q \in 1..Done :
            p < q /\ listed[p] = gathered[m] /\ listed[q] = gathered[n]
      BY <2>1, <2>8 DEF InOrder
    <3>2. p \in DOMAIN listed /\ q \in DOMAIN listed
      BY <2>3
    <3> QED
      BY <3>1, <3>2
  <2> QED
    BY <2>7, <2>8
<1>5. Contrib!Active' = Contrib!Active /\ Contrib!Range(gathered)' = Contrib!Range(gathered)
      /\ Contrib!PanelOwners(gathered)' = Contrib!PanelOwners(gathered)
  BY <1>1 DEF Contrib!Active, Contrib!Range, Contrib!PanelOwners
<1>6. Ended'
  BY <1>1, <1>4, <1>5 DEF Ended
<1> QED
  BY <1>1, <1>3, <1>6 DEF ContribInv, Undisturbed

LEMMA StepContrib ==
  ASSUME ContribInv, [Contrib!ContribNext]_contribVars
  PROVE  ContribInv'
<1>1. CASE UNCHANGED contribVars
  <2>1. /\ ContribTypes' /\ Owned'
    BY <1>1, OwnedUntouched DEF contribVars, ContribInv, ContribTypes
  <2>2. Undisturbed'
    BY <1>1 DEF contribVars, ContribInv, Undisturbed, RestIsTodo, InOrder, DoneAsEnabled, Done
  <2>3. Contrib!Active' = Contrib!Active /\ Contrib!Range(bulk)' = Contrib!Range(bulk)
        /\ Contrib!PanelOwners(bulk)' = Contrib!PanelOwners(bulk)
    BY <1>1 DEF contribVars, Contrib!Active, Contrib!Range, Contrib!PanelOwners
  <2>4. Ended'
    BY <1>1, <2>3 DEF contribVars, ContribInv, Ended
  <2> QED
    BY <2>1, <2>2, <2>4 DEF ContribInv
<1>2. CASE Contrib!SyncOfNone
  <2>1. ContribTypes' /\ Owned'
    BY <1>2, OwnedUntouched
    DEF Contrib!SyncOfNone, Contrib!given, Contrib!registries, Contrib!shown, ContribInv, ContribTypes
  <2> QED
    BY <1>2, <2>1 DEF Contrib!SyncOfNone, ContribInv, Undisturbed, Ended
<1>3. CASE Contrib!ManifestFails
  <2>1. ContribTypes' /\ Owned'
    BY <1>3, OwnedUntouched
    DEF Contrib!ManifestFails, Contrib!given, Contrib!registries, Contrib!shown, ContribInv, ContribTypes
  <2> QED
    BY <1>3, <2>1 DEF Contrib!ManifestFails, ContribInv, Undisturbed, Ended
<1>4. CASE Contrib!Switch
  <2>1. /\ upToDate' = FALSE
        /\ UNCHANGED <<gives, configured, entry, viewOwner, registered, fills, bulk, todo, fetching,
                       gathered, running>>
    BY <1>4 DEF Contrib!Switch, Contrib!given, Contrib!registries, Contrib!shown
  <2>2. listed \in Seq(Apps)
    BY DEF ContribInv, ContribTypes
  <2>3. listed' \in Seq(Apps)
    <3>1. CASE listed' = listed
      BY <2>2, <3>1
    <3>2. ASSUME NEW a \in Apps, listed' = Append(listed, a) PROVE listed' \in Seq(Apps)
      BY <2>2, <3>2, AppendProperties
    <3>3. ASSUME NEW n \in DOMAIN listed, listed' = Contrib!RemoveAt(listed, n)
          PROVE  listed' \in Seq(Apps)
      BY <2>2, <3>3, RemovingType
    <3> QED
      BY <1>4, <3>1, <3>2, <3>3 DEF Contrib!Switch
  <2>4. ContribTypes' /\ Owned'
    BY <2>1, <2>3, OwnedUntouched DEF ContribInv, ContribTypes
  <2> QED
    BY <2>1, <2>4 DEF ContribInv, Undisturbed, Ended
<1> QED
  BY <1>1, <1>2, <1>3, <1>4, StepBeginSync, StepNextApp, StepManifestComes, StepEndSync
  DEF Contrib!ContribNext

LEMMA StartContrib == MCInit => ContribInv
<1> SUFFICES ASSUME MCInit PROVE ContribInv
  OBVIOUS
<1>1. Contrib!NothingRegistered
  BY DEF MCInit, Contrib!ContribInit
<1>2. /\ gives \in [Apps -> SUBSET Ids] /\ configured \subseteq Apps /\ listed \in Seq(Apps)
  <2>1. CASE subject = "registries"
    <3>1. gives \in [Apps -> SUBSET Ids] /\ configured \in SUBSET Apps /\ listed \in Contrib!Listings
      BY <2>1 DEF MCInit, Contrib!ContribInit
    <3>2. \A a, b \in Apps : <<a, b>> \in Seq(Apps) /\ <<a>> \in Seq(Apps) /\ <<>> \in Seq(Apps)
      OBVIOUS
    <3>3. listed \in Seq(Apps)
      <4>1. \/ \E a, b \in Apps : listed = <<a, b>>
            \/ \E a \in Apps : listed = <<a>>
            \/ listed = <<>>
        BY <3>1 DEF Contrib!Listings
      <4> QED
        BY <4>1, <3>2, EmptySeq
    <3> QED
      BY <3>1, <3>3
  <2>2. CASE subject # "registries"
    <3>1. gives = [a \in Apps |-> {}] /\ configured = {} /\ listed = <<>>
      BY <2>2 DEF MCInit
    <3> QED
      BY <3>1, EmptySeq
  <2> QED
    BY <2>1, <2>2
<1>3. /\ entry = [i \in Ids |-> IF i = HostId THEN Host ELSE NoApp]
      /\ viewOwner = [i \in Ids |-> NoApp] /\ registered = {} /\ fills = {}
      /\ bulk = <<>> /\ todo = <<>> /\ gathered = <<>> /\ fetching = NoApp
      /\ running = FALSE /\ upToDate = FALSE
  BY <1>1 DEF Contrib!NothingRegistered
<1>4. ContribTypes
  <2>1. <<>> \in Seq(Apps)
    BY EmptySeq
  <2> QED
    BY <1>2, <1>3, <2>1 DEF ContribTypes
<1>5. ASSUME NEW i \in Ids PROVE OwnedIfRegistered(i)
  <2>1. entry[i] = (IF i = HostId THEN Host ELSE NoApp) /\ viewOwner[i] = NoApp
    BY <1>3
  <2>2. ASSUME ~Contrib!Clashes(i), NEW c \in Contrib!Claimants(i)
        PROVE  entry[i] = IF c \in registered \cup {Host} THEN c ELSE NoApp
    BY <1>3, <2>1, <2>2, OwnersBounds DEF Contrib!Clashes, Contrib!Claimants
  <2> QED
    BY <1>3, <2>1, <2>2 DEF OwnedIfRegistered, Contrib!Claimants
<1> QED
  BY <1>3, <1>4, <1>5 DEF ContribInv, Owned, Undisturbed, Ended

LEMMA ContribCorrect == MCSpec => []ContribInv
<1>1. ContribInv /\ [MCNext]_allVars => ContribInv'
  <2> SUFFICES ASSUME ContribInv, [MCNext]_allVars PROVE ContribInv'
    OBVIOUS
  <2>1. [Contrib!ContribNext]_contribVars
    BY DEF MCNext, allVars, SyncStep, RegistriesStep, ConditionsStep, MenusStep, SettingsStep
  <2> QED
    BY <2>1, StepContrib
<1> QED
  BY <1>1, StartContrib, PTL DEF MCSpec

\* After a sync that found everything, the registries hold what the enabled
\* apps contribute and nothing of any other, for any number of apps and ids and
\* any list (plugin-sync.ts:35).
THEOREM RegistriesHoldTheActiveCorrect == MCSpec => []RegistriesHoldTheActive
<1>1. ContribInv => RegistriesHoldTheActive
  <2> SUFFICES ASSUME ContribInv, ~running, upToDate PROVE Contrib!RegistriesHoldTheActive
    BY DEF RegistriesHoldTheActive, Contrib!RegistriesHoldTheActive
  <2>1. /\ registered = Contrib!Active /\ Contrib!Range(bulk) = Contrib!Active
        /\ \A m, n \in DOMAIN bulk : m < n =>
             \E p, q \in DOMAIN listed : p < q /\ listed[p] = bulk[m] /\ listed[q] = bulk[n]
        /\ panelOwner = Contrib!PanelOwners(bulk)
    BY DEF ContribInv, Ended
  <2>2. Contrib!Active \subseteq Apps
    BY <2>1 DEF ContribInv, ContribTypes
  <2>3. ASSUME NEW i \in Ids, ~Contrib!Clashes(i)
        PROVE  /\ entry[i] = Contrib!OwnerOf(i)
               /\ MCPrefixOf[i] \in Contrib!Claimants(i) => viewOwner[i] = Contrib!OwnerOf(i)
    <3>1. OwnedIfRegistered(i)
      BY DEF ContribInv, Owned
    <3>2. CASE Contrib!Claimants(i) = {}
      BY <2>3, <3>1, <3>2 DEF OwnedIfRegistered, Contrib!OwnerOf
    <3>3. ASSUME NEW c \in Contrib!Claimants(i)
          PROVE  /\ entry[i] = Contrib!OwnerOf(i)
                 /\ MCPrefixOf[i] \in Contrib!Claimants(i) => viewOwner[i] = Contrib!OwnerOf(i)
      <4>1. Contrib!Claimants(i) = {c}
        BY <2>3, <3>3 DEF Contrib!Clashes
      <4>2. Contrib!OwnerOf(i) = IF c \in registered \cup {Host} THEN c ELSE NoApp
        BY <2>1, <4>1 DEF Contrib!OwnerOf
      <4>3. MCPrefixOf[i] # Host
        BY OwnersBounds DEF MCPrefixOf
      <4> QED
        BY <2>3, <3>1, <4>1, <4>2, <4>3 DEF OwnedIfRegistered
    <3> QED
      BY <3>2, <3>3
  <2>4. ASSUME NEW i \in Ids
        PROVE  LET givers == Contrib!Claimants(i) \cap Contrib!Active IN
               IF givers = {} THEN panelOwner[i] = NoApp ELSE panelOwner[i] \in givers
    <3> DEFINE places == {n \in DOMAIN bulk : i \in gives[bulk[n]]}
    <3>1. panelOwner[i] = IF places = {} THEN NoApp ELSE bulk[Contrib!Min(places)]
      BY <2>1 DEF Contrib!PanelOwners
    <3>2. \A a \in Contrib!Active : a \in Contrib!Claimants(i) <=> i \in gives[a]
      BY <2>2, OwnersBounds DEF Contrib!Claimants
    <3>3. places \subseteq Nat
      BY LenProperties DEF ContribInv, ContribTypes
    <3>4. CASE places = {}
      BY <2>1, <3>1, <3>2, <3>4 DEF Contrib!Range
    <3>5. CASE places # {}
      <4>1. Contrib!Min(places) \in places
        BY <3>3, <3>5, FirstIsOne
      <4>2. bulk[Contrib!Min(places)] \in Contrib!Claimants(i) \cap Contrib!Active
        BY <2>1, <3>2, <4>1 DEF Contrib!Range
      <4> QED
        BY <3>1, <3>5, <4>2
    <3> QED
      BY <3>4, <3>5
  <2>5. fills = configured \cap Contrib!Active
    BY <2>1 DEF ContribInv, Owned
  <2> QED
    BY <2>1, <2>3, <2>4, <2>5 DEF Contrib!RegistriesHoldTheActive
<1> QED
  BY <1>1, ContribCorrect, PTL
=============================================================================
