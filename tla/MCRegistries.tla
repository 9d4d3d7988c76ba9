----------------------------- MODULE MCRegistries -----------------------------
(***************************************************************************)
(* What a page knows of the apps and shows of them: the requests that keep *)
(* its copy of their states (PluginSync), the registries their             *)
(* contributions go to, the conditions and menus they are shown by, and    *)
(* the edits of their settings.                                            *)
(* A behaviour is one of one of them, the subject, while the others stay   *)
(* as they are initially.                                                  *)
(***************************************************************************)
EXTENDS PluginSync, FiniteSets, TLC

CONSTANTS
  Apps, Ids, HostId, OwnId, OwnApp, NoApp, Host, MaxSwitches,
  Atoms, ItemIds, MaxOffers,
  Keys, Values, Default, None, MaxEdits, MaxLoads, MaxFetches

VARIABLES
  subject,
  gives, configured, listed, on, entry, viewOwner, registered, panelOwner, bulk, fills,
  todo, fetching, gathered, running, switches, upToDate,
  tree, context, offers, localOnly,
  coreStored, configs, dirty, fetch, save, reset, edits, fetches, edited, exempt,
  pStored, pShown, loads, pSave, pDirty, pTyped, overwritten

\* One id has the prefix of its app, as "terminal.sessions", the others have
\* none, as the view "terminal".
MCPrefixOf == [i \in Ids |-> IF i = OwnId THEN OwnApp ELSE NoApp]

Contrib ==
  INSTANCE Contributions WITH PrefixOf <- MCPrefixOf, known <- viewOwner, collected <- gathered,
                              panels <- panelOwner
Settings == INSTANCE SettingsEdits WITH stored <- coreStored

\* The steps of a save of a plugin's setting are no values.
ASSUME SettingsBounds == {"none", "written", "stuck"} \cap (Values \cup {Default}) = {}

\* An owner is an app, the page itself, or nobody.
ASSUME OwnersBounds == NoApp \notin Apps /\ Host \notin Apps /\ NoApp # Host /\ OwnApp \in Apps

contribVars == <<gives, configured, listed, on, entry, viewOwner, registered, panelOwner, bulk, fills,
                 todo, fetching, gathered, running, switches, upToDate>>
whenVars == <<tree, context>>
menuVars == <<offers, localOnly>>
settingsVars == <<coreStored, configs, dirty, fetch, save, reset, edits, fetches, edited, exempt,
                  pStored, pShown, loads, pSave, pDirty, pTyped, overwritten>>
allVars == <<subject, vars, contribVars, whenVars, menuVars, settingsVars>>

\* Puts are interchangeable.
MCSymmetry == Permutations(Puts)

MCInit ==
  /\ subject \in {"sync", "registries", "conditions", "menus", "settings"}
  /\ Init /\ Settings!SettingsInit
  /\ IF subject = "registries" THEN Contrib!ContribInit /\ configured \subseteq {OwnApp}
     ELSE /\ gives = [a \in Apps |-> {}] /\ configured = {} /\ listed = <<>> /\ on = {}
          /\ Contrib!NothingRegistered
  /\ IF subject = "conditions" THEN Contrib!WhenInit
     ELSE tree = Contrib!Leaf(CHOOSE a \in Atoms : TRUE) /\ context = {}
  /\ IF subject = "menus" THEN Contrib!MenuInit ELSE offers = <<>> /\ localOnly = FALSE

SyncStep ==
  subject = "sync" /\ Next /\ UNCHANGED <<subject, contribVars, whenVars, menuVars, settingsVars>>
RegistriesStep ==
  /\ subject = "registries" /\ Contrib!ContribNext
  /\ UNCHANGED <<subject, vars, whenVars, menuVars, settingsVars>>
ConditionsStep ==
  /\ subject = "conditions" /\ Contrib!WhenNext
  /\ UNCHANGED <<subject, vars, contribVars, menuVars, settingsVars>>
MenusStep ==
  subject = "menus" /\ Contrib!MenuNext /\ UNCHANGED <<subject, vars, contribVars, whenVars, settingsVars>>
SettingsStep ==
  /\ subject = "settings" /\ Settings!SettingsNext
  /\ UNCHANGED <<subject, vars, contribVars, whenVars, menuVars>>

MCNext == SyncStep \/ RegistriesStep \/ ConditionsStep \/ MenusStep \/ SettingsStep

MCSpec == MCInit /\ [][MCNext]_allVars

-----------------------------------------------------------------------------
\* After a sync that found everything, the registries hold what the enabled
\* apps contribute and nothing of any other (plugin-sync.ts:35).
RegistriesHoldTheActive == subject = "registries" => Contrib!RegistriesHoldTheActive

\* A condition holds exactly when it means so (evaluate-when.ts:23), also for
\* the archived parser (extension-points.ts:192), and a menu shows each id once,
\* as its first source has it (context-menu-registry.ts:147).
ShownAsDeclared ==
  CASE subject = "conditions" -> Contrib!ConditionsMeanWhatTheySay /\ Contrib!ParsedAsMeant
    [] subject = "menus" -> Contrib!MenusMerge
    [] OTHER -> TRUE

\* What the user typed in the settings is shown until it is stored, with the
\* exceptions the module names (settings-panel.tsx:75, 261).
EditsKept == subject = "settings" => Settings!EditsKept /\ Settings!PluginEditsKept

\* Stated of the program, and not so: see the modules.
UnregistersAll == Contrib!UnregistersAll
ModifiedIsShown == Settings!ModifiedIsShown
=============================================================================
