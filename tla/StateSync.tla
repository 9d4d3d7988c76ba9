------------------------------ MODULE StateSync ------------------------------
(***************************************************************************)
(* One entry of the StateBus of the archived relay on two nodes            *)
(* (src/state-bridge/: index.ts, sync-engine.ts, storage.ts): written,     *)
(* deleted and expired on either, pushed to the other while they are       *)
(* connected, saved to disk and restored.                                  *)
(*                                                                         *)
(* Hooks of plugins, which can reject a write, and permissions are left    *)
(* out: nothing registers a hook, and every peer may read the entry.  The  *)
(* transport is external and keeps the order.  A value is the number of    *)
(* the write it comes from.                                                *)
(***************************************************************************)
EXTENDS Integers, Sequences

CONSTANTS
  Peers,       \* two nodes
  NoEntry,
  MaxWrites,   \* bound: set() calls
  MaxBreaks    \* bound: disconnects and restarts

VARIABLES
  entry,       \* entries.get(key) of each node, or NoEntry
  nextVersion,
  disk,        \* state.json
  saving,      \* StateStorage: a debounced write is due
  ttls,        \* expiry timers: the writes that armed them
  wire,        \* changes on the way to each node
  joined,      \* both engines have the transport
  writes, breaks,
  writers,     \* history: nodes that wrote
  missed       \* history: a change that no transport carried, or that was lost

syncVars == <<entry, nextVersion, disk, saving, ttls, wire, joined, writes, breaks, writers, missed>>

Entry == [value: 1..MaxWrites, version: Nat, owner: Peers, mode: {"batch", "local-only"},
          ttl: BOOLEAN]
Other(n) == CHOOSE m \in Peers : m # n

SyncTypeOK ==
  /\ entry \in [Peers -> Entry \cup {NoEntry}] /\ disk \in [Peers -> Entry \cup {NoEntry}]
  /\ nextVersion \in [Peers -> Nat] /\ saving \in [Peers -> BOOLEAN]
  /\ ttls \in [Peers -> SUBSET (1..MaxWrites)] /\ joined \in BOOLEAN
  /\ writers \subseteq Peers /\ missed \in BOOLEAN

Change(e) == [value |-> e.value, version |-> e.version, owner |-> e.owner]
Push(n, e) == wire' = [wire EXCEPT ![Other(n)] = Append(@, Change(e))]

-----------------------------------------------------------------------------
(* Mutant: a write to an entry that exists keeps its version. *)
VersionKept(n) == IF entry[n] = NoEntry THEN nextVersion[n] ELSE entry[n].version

Version(n) == IF entry[n] = NoEntry THEN nextVersion[n] ELSE entry[n].version + 1

\* set(): the options can change the mode of the entry and give it a ttl, which
\* it keeps.  A timer is armed on every write of such an entry, and never cleared.
Set(n, mode, ttl) ==
  LET e == [value |-> writes + 1, version |-> Version(n), mode |-> mode,
            owner |-> IF entry[n] = NoEntry THEN n ELSE entry[n].owner,
            ttl |-> ttl \/ (entry[n] # NoEntry /\ entry[n].ttl)]
  IN  /\ writes < MaxWrites /\ writes' = writes + 1
      /\ entry' = [entry EXCEPT ![n] = e]
      /\ nextVersion' = IF entry[n] = NoEntry THEN [nextVersion EXCEPT ![n] = @ + 1] ELSE nextVersion
      /\ ttls' = IF e.ttl THEN [ttls EXCEPT ![n] = @ \cup {writes + 1}] ELSE ttls
      /\ saving' = [saving EXCEPT ![n] = TRUE]
      /\ writers' = writers \cup {n}
      /\ IF joined /\ mode # "local-only"
         THEN Push(n, e) /\ UNCHANGED missed
         ELSE missed' = TRUE /\ UNCHANGED wire
      /\ UNCHANGED <<disk, joined, breaks>>

\* delete(): onLocalChange looks the entry up, which is gone, and sends
\* nothing.
Deleted(n) ==
  /\ entry[n] # NoEntry /\ entry' = [entry EXCEPT ![n] = NoEntry]
  /\ saving' = [saving EXCEPT ![n] = TRUE] /\ missed' = TRUE

Delete(n) ==
  /\ Deleted(n)
  /\ UNCHANGED <<nextVersion, disk, ttls, wire, joined, writes, breaks, writers>>

\* The timer of a write deletes what is there now.
Expire(n, w) ==
  /\ w \in ttls[n] /\ ttls' = [ttls EXCEPT ![n] = @ \ {w}]
  /\ \/ Deleted(n)
     \/ entry[n] = NoEntry /\ UNCHANGED <<entry, saving, missed>>
  /\ UNCHANGED <<nextVersion, disk, wire, joined, writes, breaks, writers>>

\* connect(): listEntries('*') finds no key, because '*' stands for one
\* segment and every key has more, so the snapshot is empty.
Connect ==
  /\ ~joined /\ joined' = TRUE
  /\ UNCHANGED <<entry, nextVersion, disk, saving, ttls, wire, writes, breaks, writers, missed>>

\* requestKeys(): the peer answers with what it has, whatever its mode.
Request(n) ==
  /\ joined /\ entry[Other(n)] # NoEntry /\ wire[n] = <<>>
  /\ Push(Other(n), entry[Other(n)])
  /\ UNCHANGED <<entry, nextVersion, disk, saving, ttls, joined, writes, breaks, writers, missed>>

\* receiveDelta and receiveSnapshot: the higher version wins.
Wins(change, n) == entry[n] = NoEntry \/ change.version > entry[n].version

ApplyRemote(n, change) ==
  /\ entry' = [entry EXCEPT ![n] = [value |-> change.value, version |-> change.version,
       owner |-> change.owner, mode |-> IF @ = NoEntry THEN "batch" ELSE @.mode, ttl |-> FALSE]]
  /\ saving' = [saving EXCEPT ![n] = TRUE]

Receive(n) ==
  /\ wire[n] # <<>> /\ wire' = [wire EXCEPT ![n] = Tail(@)]
  /\ IF Wins(Head(wire[n]), n) THEN ApplyRemote(n, Head(wire[n])) ELSE UNCHANGED <<entry, saving>>
  /\ UNCHANGED <<nextVersion, disk, ttls, joined, writes, breaks, writers, missed>>

Break == breaks < MaxBreaks /\ breaks' = breaks + 1

Disconnect ==
  /\ joined /\ joined' = FALSE /\ Break
  /\ missed' = (missed \/ \E n \in Peers : wire[n] # <<>>)
  /\ wire' = [n \in Peers |-> <<>>]
  /\ UNCHANGED <<entry, nextVersion, disk, saving, ttls, writes, writers>>

\* The debounced save, or flush(); then a restart that restores it
Save(n) ==
  /\ saving[n] /\ saving' = [saving EXCEPT ![n] = FALSE]
  /\ disk' = [disk EXCEPT ![n] = entry[n]]
  /\ UNCHANGED <<entry, nextVersion, ttls, wire, joined, writes, breaks, writers, missed>>

Restart(n) ==
  /\ Break
  /\ entry' = [entry EXCEPT ![n] = disk[n]]
  /\ nextVersion' = [nextVersion EXCEPT ![n] = 1]
  /\ saving' = [saving EXCEPT ![n] = FALSE] /\ ttls' = [ttls EXCEPT ![n] = {}]
  /\ joined' = FALSE /\ wire' = [m \in Peers |-> <<>>]
  /\ missed' = (missed \/ saving[n] \/ \E m \in Peers : wire[m] # <<>>)
  /\ UNCHANGED <<disk, writes, writers>>

-----------------------------------------------------------------------------
SyncInit ==
  /\ entry = [n \in Peers |-> NoEntry] /\ disk = [n \in Peers |-> NoEntry]
  /\ nextVersion = [n \in Peers |-> 1] /\ saving = [n \in Peers |-> FALSE]
  /\ ttls = [n \in Peers |-> {}] /\ wire = [n \in Peers |-> <<>>] /\ joined = FALSE
  /\ writes = 0 /\ breaks = 0 /\ writers = {} /\ missed = FALSE

SyncNext ==
  \/ Connect \/ Disconnect
  \/ \E n \in Peers :
       \/ \E mode \in {"batch", "local-only"}, ttl \in BOOLEAN : Set(n, mode, ttl)
       \/ Delete(n) \/ Request(n) \/ Receive(n) \/ Save(n) \/ Restart(n)
       \/ \E w \in ttls[n] : Expire(n, w)

-----------------------------------------------------------------------------
\* As long as one node writes and each of its changes had a connection to
\* carry it, both nodes have the same value once what is on its way has
\* arrived, over reconnects and restarts (sync-engine.ts:227, storage.ts:40).
NodesAgree ==
  (\A n \in Peers : wire[n] = <<>>) /\ writers # Peers /\ ~missed
    => \A n, m \in Peers : entry[n] # NoEntry =>
         entry[m] # NoEntry /\ Change(entry[m]) = Change(entry[n])
=============================================================================
