------------------------------ MODULE PluginSync ------------------------------
(***************************************************************************)
(* Which apps have their views, commands and panels registered:            *)
(* app/lib/app-registry/plugin-sync.ts, the page's copy of the app states  *)
(* (app-registry.ts), the effect that starts a sync (core/use-app-sync.ts) *)
(* and the server's app-state.json (api/apps/[appId]/state/route.ts).      *)
(*                                                                         *)
(* A sync loads the list of apps, the state of each, and then goes through *)
(* the list, waiting for each manifest it does not have.  A toggle or a    *)
(* grant is a PUT of its own, whose answer notifies the subscriber, which  *)
(* starts a sync, unless one is under way.  Each action is one callback.   *)
(*                                                                         *)
(* Apps are numbered as listed; the list does not change.  Left out: what  *)
(* an app contributes, the modes of its grants, apps without a user        *)
(* interface, other pages that write app-state.json.                       *)
(***************************************************************************)
EXTENDS Naturals

CONSTANTS
  NumApps,   \* how many apps are installed
  Puts       \* bound: PUTs of the page, each sent once

ASSUME AppsAssumption == NumApps \in Nat \ {0}

App == 1..NumApps
Enabled == {"on", "off"}

VARIABLES
  stored,     \* enabled of each app in app-state.json
  known,      \* _states of the page
  loaded,     \* _loaded
  cached,     \* apps whose manifest is in _manifests
  refreshing, \* the plugin manager is loading the list
  listening,  \* the effect of useAppSync is subscribed
  phase,      \* of syncAllPlugins: what it waits for, "idle" if _syncLock is not set
  at,         \* the app whose manifest it waits for
  collected,  \* apps in allLeft, allRight, allStatusBar, allMobileKeyboard
  views,      \* apps whose views and commands are registered
  panels,     \* apps whose panels, status items and keys are registered
  gets,       \* loadAppState in flight: "none", "sent" or the answer
  puts,       \* setEnabled and setGrant in flight
  dropped,    \* a change was not followed by a sync (history)
  failed,     \* a list or a manifest was not loaded (history)
  doubtful    \* apps whose requests overlapped or were lost (history)

syncVars == <<phase, at, collected, views, panels>>
registryVars == <<known, loaded, cached, refreshing>>
requestVars == <<gets, puts>>
historyVars == <<dropped, failed, doubtful>>
vars == <<stored, registryVars, listening, syncVars, requestVars, historyVars>>

Put == [step: {"unsent", "sent", "answered", "refused", "settled"}, app: App,
        want: Enabled \cup {"asIs"}, prev: Enabled \cup {"none"}, got: Enabled]
NoPut(step) == [step |-> step, app |-> 1, want |-> "asIs", prev |-> "none", got |-> "on"]

TypeOK ==
  /\ stored \in [App -> Enabled]
  /\ known \in [App -> Enabled \cup {"none"}]
  /\ loaded \in BOOLEAN /\ refreshing \in BOOLEAN /\ listening \in BOOLEAN
  /\ phase \in {"idle", "list", "head", "states", "manifest"}
  /\ at \in App
  /\ cached \subseteq App /\ collected \subseteq App
  /\ views \subseteq App /\ panels \subseteq App
  /\ gets \in [App -> Enabled \cup {"none", "sent"}]
  /\ puts \in [Puts -> Put]
  /\ dropped \in BOOLEAN /\ failed \in BOOLEAN /\ doubtful \subseteq App

-----------------------------------------------------------------------------
(* syncAllPlugins *)

On == {a \in App : known[a] = "on"}
InFlight(p) == puts[p].step \in {"sent", "answered", "refused"}
Putting(a) == \E p \in Puts : InFlight(p) /\ puts[p].app = a

\* The list is loaded once; later a HEAD request passes the time.
StartSync ==
  phase' = IF phase # "idle" THEN phase ELSE IF loaded THEN "head" ELSE "list"

\* Mutant: the subscriber does nothing.
NotifyUnheard ==
  /\ UNCHANGED phase
  /\ dropped' = (dropped \/ phase = "manifest" \/ (phase = "idle" /\ ~listening))

\* notify(): a change during the loop, or that nobody hears of, is not
\* followed by a sync; before its loop a sync has yet to read it.
Notify ==
  /\ IF listening THEN StartSync ELSE UNCHANGED phase
  /\ dropped' = (dropped \/ phase = "manifest" \/ (phase = "idle" /\ ~listening))

\* registerAppContributions for some, unregisterApp for others
Register(on, off) == views' = (views \ off) \cup on

\* The loop goes on from app i with states s and manifests m, when the apps
\* of new have just been loaded, until it must wait for a manifest or has
\* seen all apps; then panels, status items and keys are replaced.
Loop(i, s, m, new) ==
  \E stop \in i..NumApps + 1 :
    LET enabled == {a \in i..NumApps : s[a] = "on"}
        on == new \cup {a \in enabled : a < stop}
        off == {a \in i..NumApps \ enabled : a < stop}
    IN  /\ on \subseteq m
        /\ Register(on, off)
        /\ \/ /\ stop \in enabled \ m
              /\ phase' = "manifest" /\ at' = stop
              /\ collected' = collected \cup on
              /\ UNCHANGED panels
           \/ /\ stop = NumApps + 1
              /\ phase' = "idle" /\ at' = 1
              /\ collected' = {}
              /\ panels' = collected \cup on

\* loadApps: its own notification meets the lock.
ListAnswered(ok) ==
  /\ phase = "list"
  /\ loaded' = (loaded \/ ok)
  /\ IF ok
     THEN /\ phase' = "states" /\ gets' = [a \in App |-> "sent"]
          /\ doubtful' = {a \in App : Putting(a)}
          /\ UNCHANGED failed
     ELSE phase' = "idle" /\ failed' = TRUE /\ UNCHANGED <<gets, doubtful>>
  /\ UNCHANGED <<stored, known, cached, refreshing, listening, at, collected, views, panels,
                 puts, dropped>>

HeadAnswered ==
  /\ phase = "head"
  /\ phase' = "states" /\ gets' = [a \in App |-> "sent"]
  /\ doubtful' = {a \in App : Putting(a)}
  /\ UNCHANGED <<stored, registryVars, listening, at, collected, views, panels, puts,
                 dropped, failed>>

\* loadAppState; a state that cannot be loaded counts as enabled.  The last
\* one lets the loop begin.
GetSettles(a, ok) ==
  /\ gets[a] # "none" /\ (ok => gets[a] # "sent")
  /\ gets' = [gets EXCEPT ![a] = "none"]
  /\ known' = [known EXCEPT ![a] = IF ok THEN gets[a] ELSE "on"]
  /\ doubtful' = IF ok THEN doubtful ELSE doubtful \cup {a}
  /\ IF \A b \in App \ {a} : gets[b] = "none"
     THEN Loop(1, known', cached, {}) /\ dropped' = FALSE /\ failed' = FALSE
     ELSE UNCHANGED <<syncVars, dropped, failed>>
  /\ UNCHANGED <<stored, loaded, cached, refreshing, listening, puts>>

\* getManifest of the loop: the app is registered, whatever has become of it.
ManifestArrives(ok) ==
  LET new == IF ok THEN {at} ELSE {}
  IN  /\ phase = "manifest"
      /\ cached' = cached \cup new
      /\ Loop(at + 1, known, cached', new)
      /\ failed' = (failed \/ ~ok)
      /\ UNCHANGED <<stored, known, loaded, refreshing, listening, requestVars, dropped, doubtful>>

-----------------------------------------------------------------------------
(* The effect of useAppSync *)

LinkUp ==
  /\ ~listening /\ listening' = TRUE
  /\ UNCHANGED <<stored, registryVars, at, collected, views, panels, requestVars, historyVars>>
  /\ StartSync

LinkDown ==
  /\ listening /\ listening' = FALSE
  /\ UNCHANGED <<stored, registryVars, syncVars, requestVars, historyVars>>

-----------------------------------------------------------------------------
(* The plugin manager *)

\* refresh(), while the list is not loaded
Refresh ==
  /\ ~loaded /\ ~refreshing /\ refreshing' = TRUE
  /\ UNCHANGED <<stored, known, loaded, cached, listening, syncVars, requestVars, historyVars>>

RefreshAnswered(ok) ==
  /\ refreshing /\ refreshing' = FALSE
  /\ loaded' = (loaded \/ ok)
  /\ IF ok THEN Notify ELSE UNCHANGED <<phase, dropped>>
  /\ UNCHANGED <<stored, known, cached, listening, at, collected, views, panels, requestVars,
                 failed, doubtful>>

\* getManifest of a page that shows the app
ManifestFetched(a) ==
  /\ a \notin cached /\ cached' = cached \cup {a}
  /\ UNCHANGED <<stored, known, loaded, refreshing, listening, syncVars, requestVars, historyVars>>

\* setEnabled, from the list or from a detail page, which has a copy of its
\* own of what it toggles; setGrant leaves enabled as it is.
SendPut(p, a, want) ==
  /\ loaded
  /\ puts[p].step = "unsent"
  /\ puts' = [puts EXCEPT ![p] =
                [NoPut("sent") EXCEPT !.app = a, !.want = want,
                                      !.prev = IF want = "asIs" THEN "none" ELSE known[a]]]
  /\ doubtful' = IF Putting(a) \/ gets[a] # "none" THEN doubtful \cup {a} ELSE doubtful
  /\ UNCHANGED <<stored, registryVars, listening, syncVars, gets, dropped, failed>>

\* The page hears of a new state, or of none.
PutSettles(p, state) ==
  /\ puts' = [puts EXCEPT ![p] = NoPut("settled")]
  /\ known' = [known EXCEPT ![puts[p].app] = state]
  /\ UNCHANGED <<stored, loaded, cached, refreshing, listening, at, collected, views, panels,
                 gets, failed>>

PutAnswered(p) ==
  /\ puts[p].step = "answered"
  /\ PutSettles(p, puts[p].got)
  /\ Notify
  /\ UNCHANGED doubtful

\* Mutant: a refusal is taken for a success.
PutRefusedKept(p) ==
  /\ puts[p].step = "refused"
  /\ IF puts[p].want = "asIs"
     THEN PutSettles(p, known[puts[p].app]) /\ UNCHANGED <<phase, dropped>>
     ELSE PutSettles(p, puts[p].want) /\ Notify
  /\ UNCHANGED doubtful

\* A refusal rolls back to the state before the PUT, if there was one.
PutRefused(p) ==
  /\ puts[p].step = "refused"
  /\ IF puts[p].prev = "none"
     THEN PutSettles(p, known[puts[p].app]) /\ UNCHANGED <<phase, dropped>>
     ELSE PutSettles(p, puts[p].prev) /\ Notify
  /\ UNCHANGED doubtful

\* The connection breaks: nobody handles the rejection.
PutLost(p) ==
  /\ InFlight(p)
  /\ PutSettles(p, known[puts[p].app])
  /\ doubtful' = doubtful \cup {puts[p].app}
  /\ UNCHANGED <<phase, dropped>>

-----------------------------------------------------------------------------
(* The server *)

ServerGets(a) ==
  /\ gets[a] = "sent"
  /\ gets' = [gets EXCEPT ![a] = stored[a]]
  /\ UNCHANGED <<stored, registryVars, listening, syncVars, puts, historyVars>>

\* ensureApp, and what the request says of it
Written(put) == IF put.want = "asIs" THEN stored[put.app] ELSE put.want

\* PUT reads, changes and writes the file in one callback.
ServerPuts(p) ==
  /\ puts[p].step = "sent"
  /\ stored' = [stored EXCEPT ![puts[p].app] = Written(puts[p])]
  /\ puts' = [puts EXCEPT ![p] =
                [NoPut("answered") EXCEPT !.app = puts[p].app, !.got = Written(puts[p])]]
  /\ UNCHANGED <<registryVars, listening, syncVars, gets, historyVars>>

ServerRefuses(p) ==
  /\ puts[p].step = "sent"
  /\ puts' = [puts EXCEPT ![p].step = "refused"]
  /\ UNCHANGED <<stored, registryVars, listening, syncVars, gets, historyVars>>

-----------------------------------------------------------------------------
\* A page is opened; what the server has stored is from earlier.
Init ==
  /\ stored \in [App -> Enabled]
  /\ known = [a \in App |-> "none"]
  /\ loaded = FALSE /\ cached = {} /\ refreshing = FALSE
  /\ listening = FALSE
  /\ phase = "idle" /\ at = 1 /\ collected = {} /\ views = {} /\ panels = {}
  /\ gets = [a \in App |-> "none"]
  /\ puts = [p \in Puts |-> NoPut("unsent")]
  /\ dropped = FALSE /\ failed = FALSE /\ doubtful = {}

Next ==
  \/ \E ok \in BOOLEAN : ListAnswered(ok) \/ ManifestArrives(ok) \/ RefreshAnswered(ok)
  \/ HeadAnswered
  \/ LinkUp
  \/ LinkDown
  \/ Refresh
  \/ \E a \in App :
       \/ ManifestFetched(a)
       \/ ServerGets(a)
       \/ \E ok \in BOOLEAN : GetSettles(a, ok)
  \/ \E p \in Puts :
       \/ \E a \in App, want \in Enabled \cup {"asIs"} : SendPut(p, a, want)
       \/ ServerPuts(p)
       \/ ServerRefuses(p)
       \/ PutAnswered(p)
       \/ PutRefused(p)
       \/ PutLost(p)

Spec == Init /\ [][Next]_vars

-----------------------------------------------------------------------------
(***************************************************************************)
(* Properties                                                              *)
(***************************************************************************)

\* Views and commands are registered app by app, panels, status items and
\* keys all at once at the end of a sync: before and after a sync the two
\* agree, whatever was toggled or failed while it ran.
PanelsFollowViews == phase \in {"idle", "list", "head", "states"} => panels = views

\* When no sync runs, the apps that are registered are those the page knows
\* to be enabled, if no change was dropped since the last loop began and
\* nothing failed to load.  A change that is dropped before the loop is not
\* missed.
RegisteredAsEnabled == phase = "idle" /\ ~dropped /\ ~failed => views = On

\* The page mirrors the server (app-registry.ts:2) for an app whose requests
\* neither overlapped nor were lost.
MirrorsServer ==
  \A a \in App : gets[a] = "none" /\ ~Putting(a) /\ a \notin doubtful
                 => known[a] \in {"none", stored[a]}

(***************************************************************************)
(* "Hot-reload: re-sync when app state changes (enable/disable)"           *)
(* (use-app-sync.ts:34): on a page that listens, an app that is toggled    *)
(* comes and goes at the latest when no sync runs any more.                *)
(***************************************************************************)
HotReload == phase = "idle" /\ listening /\ ~failed => views = On
=============================================================================
