---------------------------- MODULE ExtensionLoader ----------------------------
(***************************************************************************)
(* The loader of the archived extensions (agent-core/extension-loader.ts)  *)
(* as the extension host uses it: a scan reads every manifest at once,     *)
(* then imports and activates one extension after the other; a reload      *)
(* unregisters what is active and scans again.                             *)
(*                                                                         *)
(* An extension is its directory, with the id of its manifest and what its *)
(* code does: it exports an adapter, none, or fails (it throws, or its     *)
(* adapter has another id).  import() gives the code of the first import   *)
(* for as long as the process lives.                                       *)
(***************************************************************************)
EXTENDS Naturals

CONSTANTS
  NumDirs,       \* directories, in the order the scan meets them
  ExtIds,
  MaxDiskEdits,  \* bound: edits of the extensions on disk
  MaxScans,      \* bound: requests to activate or reload
  NoDir

Dirs == 1..NumDirs
Codes == {"adapter", "plain", "fails"}
Scan == 1..MaxScans

VARIABLES
  folder,      \* the extensions on disk
  imported,    \* the module cache, by directory
  scan,        \* running scans: what is left to activate, and what was
  adapters,    \* adapterRegistry: the directory an id's adapter came from
  points,      \* extensionPoints: the directory an id's manifest came from
  extensions,  \* activeExtensions
  report,      \* diagnostics of the last scan that ended
  scans, diskEdits,
  crossed      \* two scans ran at a time (history)

loaderVars == <<folder, imported, scan, adapters, points, extensions, report, scans, diskEdits, crossed>>

Folder == [present : BOOLEAN, valid : BOOLEAN, id : ExtIds, code : Codes]
Idle == [on |-> FALSE, todo |-> {}, done |-> {}, diagnostics |-> <<>>]
Nothing == [e \in ExtIds |-> NoDir]

LoaderInit ==
  /\ folder \in [Dirs -> {f \in Folder : f.present /\ f.valid}]
  /\ imported = [d \in Dirs |-> "none"] /\ scan = [s \in Scan |-> Idle]
  /\ adapters = Nothing /\ points = Nothing /\ extensions = {} /\ report = <<>>
  /\ scans = 0 /\ diskEdits = 0 /\ crossed = FALSE

-----------------------------------------------------------------------------
\* An extension is edited, removed or put back.
EditFolder(d, f) ==
  /\ diskEdits < MaxDiskEdits /\ diskEdits' = diskEdits + 1
  /\ f # folder[d] /\ f.id = folder[d].id /\ folder' = [folder EXCEPT ![d] = f]
  /\ UNCHANGED <<imported, scan, adapters, points, extensions, report, scans, crossed>>

\* discoverManifests: a diagnostic for each manifest, in the order of the directories.
Present == {d \in Dirs : folder[d].present}
Discovered ==
  [on |-> TRUE, todo |-> {d \in Present : folder[d].valid}, done |-> {},
   diagnostics |-> [d \in Present |->
     [id |-> folder[d].id, status |-> IF folder[d].valid THEN "discovered" ELSE "invalid"]]]

StartScan ==
  /\ scans < MaxScans /\ scans' = scans + 1
  /\ scan' = [scan EXCEPT ![scans'] = Discovered]
  /\ crossed' = (crossed \/ \E s \in Scan : scan[s].on)

\* host.activate, once when the host has started.
HostActivate ==
  /\ scans = 0 /\ StartScan
  /\ UNCHANGED <<folder, imported, adapters, points, extensions, report, diskEdits>>

\* Mutant: a reload leaves the adapters.
UnregisteredNone(ids) == adapters

Unregistered(ids) == [e \in ExtIds |-> IF e \in ids THEN NoDir ELSE adapters[e]]

\* host.reload: the contributions stay.
HostReload ==
  /\ scans > 0 /\ StartScan
  /\ adapters' = Unregistered(extensions) /\ extensions' = {}
  /\ UNCHANGED <<folder, imported, points, report, diskEdits>>

\* updateDiagnostic finds the first entry of an id.
Updated(diagnostics, id, status) ==
  LET entries == {d \in DOMAIN diagnostics : diagnostics[d].id = id} IN
  [d \in DOMAIN diagnostics |->
     IF d \in entries /\ \A c \in entries : d <= c
     THEN [id |-> id, status |-> status] ELSE diagnostics[d]]

\* importModule and activateExtension of the next extension.
Activate(s, d) ==
  LET id == folder[d].id
      code == IF imported[d] = "none" THEN folder[d].code ELSE imported[d]
  IN /\ d \in scan[s].todo /\ \A e \in scan[s].todo : d <= e
     /\ imported' = [imported EXCEPT ![d] = code]
     /\ adapters' = IF code = "adapter" THEN [adapters EXCEPT ![id] = d] ELSE adapters
     /\ points' = IF code = "fails" THEN points ELSE [points EXCEPT ![id] = d]
     /\ scan' = [scan EXCEPT
          ![s].todo = @ \ {d},
          ![s].done = IF code = "fails" THEN @ ELSE @ \cup {id},
          ![s].diagnostics = Updated(@, id, IF code = "fails" THEN "failed" ELSE "activated")]
     /\ UNCHANGED <<folder, extensions, report, scans, diskEdits, crossed>>

ScanEnds(s) ==
  /\ scan[s].on /\ scan[s].todo = {} /\ scan' = [scan EXCEPT ![s] = Idle]
  /\ extensions' = extensions \cup scan[s].done /\ report' = scan[s].diagnostics
  /\ UNCHANGED <<folder, imported, adapters, points, scans, diskEdits, crossed>>

LoaderNext ==
  \/ HostActivate \/ HostReload
  \/ \E d \in Dirs, f \in Folder : EditFolder(d, f)
  \/ \E s \in Scan : ScanEnds(s) \/ \E d \in Dirs : Activate(s, d)

-----------------------------------------------------------------------------
\* When no scan runs, and none ran while another did, what the report says of
\* an id that one directory has is so: it is active exactly if it was activated,
\* its contributions are then registered, and there is no adapter of what is
\* not active (extension-host.ts:117).
ReportIsTrue ==
  ~crossed /\ (\A s \in Scan : ~scan[s].on) =>
    /\ \A i \in DOMAIN report :
         (\A j \in DOMAIN report \ {i} : report[j].id # report[i].id) =>
            /\ report[i].status \in {"activated", "failed", "invalid"}
            /\ report[i].status = "activated" <=> report[i].id \in extensions
    /\ \A e \in ExtIds :
         /\ e \in extensions => points[e] # NoDir
         /\ adapters[e] # NoDir => e \in extensions
=============================================================================
