------------------------------ MODULE RelayProofs ------------------------------
(***************************************************************************)
(* Proofs about the archived relay, for every bound: two nodes agree on    *)
(* an entry of the state bus, what the report of a scan says of an         *)
(* extension is so, an agent whose connection stands has its instance      *)
(* in the list, what runs on it keeps its one surface, what it has         *)
(* reported is found under its node, a process nobody stopped is the       *)
(* handle of its instance, a browser that comes back is told of its        *)
(* shells, and relays that share surfaces agree on them.                   *)
(***************************************************************************)
EXTENDS MCRelay, SequenceTheorems, FiniteSetTheorems, FunctionTheorems, TLAPS

-----------------------------------------------------------------------------
(***************************************************************************)
(* The state bus.  While only n writes and no change was lost, the other   *)
(* node has nothing newer than n, every change on a wire is as old as what *)
(* n has or older, of one version there is one change, and the last change *)
(* on the way to the other node is what n has.                             *)
(***************************************************************************)
Changes == [value: 1..MaxWrites, version: Nat, owner: Peers]

StateTypes ==
  /\ entry \in [Peers -> State!Entry \cup {NoEntry}]
  /\ disk \in [Peers -> State!Entry \cup {NoEntry}]
  /\ nextVersion \in [Peers -> Nat] /\ saving \in [Peers -> BOOLEAN]
  /\ wire \in [Peers -> Seq(Changes)] /\ writes \in Nat
  /\ ttls = [p \in Peers |-> ttls[p]] /\ writers \subseteq Peers

SavedIsEntry == \A n \in Peers : ~saving[n] => disk[n] = entry[n]

\* What a change c knows is what e has, or older.
NotNewer(c, e) == c.version <= e.version /\ (c.version = e.version => c = State!Change(e))

\* No change on a wire is newer than the entry of n.
AllOld(n) == \A p \in Peers, i \in Nat : i \in DOMAIN wire[p] => NotNewer(wire[p][i], entry[n])

\* Node o knows of the entry of n, which it never wrote, by what n has sent.
Follows(o, n) ==
  IF entry[n] = NoEntry
  THEN entry[o] = NoEntry /\ wire[n] = <<>> /\ wire[o] = <<>>
  ELSE /\ AllOld(n)
       /\ entry[o] # NoEntry => NotNewer(State!Change(entry[o]), entry[n])
       /\ IF wire[o] = <<>>
          THEN entry[o] # NoEntry /\ State!Change(entry[o]) = State!Change(entry[n])
          ELSE wire[o][Len(wire[o])] = State!Change(entry[n])

OneWriter ==
  ~missed =>
    /\ writers = {} => \A n \in Peers : entry[n] = NoEntry
    /\ \A n, o \in Peers : n # o /\ o \notin writers => Follows(o, n)

StateInv == StateTypes /\ SavedIsEntry /\ OneWriter

LEMMA TwoNodes ==
  ASSUME NEW n \in Peers, NEW o \in Peers, n # o
  PROVE  Peers = {n, o} /\ State!Other(n) = o /\ State!Other(o) = n
<1>1. PICK a \in Peers, b \in Peers : a # b /\ Peers = {a, b}
  BY RelayBounds
<1>2. Peers = {n, o}
  BY <1>1
<1> QED
  BY <1>2 DEF State!Other

LEMMA OtherNode ==
  ASSUME NEW n \in Peers
  PROVE  State!Other(n) \in Peers /\ State!Other(n) # n
BY RelayBounds DEF State!Other

LEMMA ChangeType ==
  ASSUME NEW e \in State!Entry
  PROVE  State!Change(e) \in Changes /\ State!Change(e).version = e.version
BY DEF State!Entry, State!Change, Changes

LEMMA StateStarts == State!SyncInit => StateInv
<1> SUFFICES ASSUME State!SyncInit PROVE StateInv
  OBVIOUS
<1>1. StateTypes
  BY DEF State!SyncInit, StateTypes
<1>2. SavedIsEntry /\ OneWriter
  BY DEF State!SyncInit, SavedIsEntry, OneWriter, Follows
<1> QED
  BY <1>1, <1>2 DEF StateInv

\* What is appended to the changes that wait is the last of them.
LEMMA Appended ==
  ASSUME NEW w \in Seq(Changes), NEW c \in Changes
  PROVE  /\ Append(w, c) \in Seq(Changes) /\ Append(w, c) # <<>>
         /\ Append(w, c)[Len(Append(w, c))] = c
         /\ \A i \in Nat : i \in DOMAIN Append(w, c) =>
              Append(w, c)[i] = c \/ (i \in DOMAIN w /\ Append(w, c)[i] = w[i])
<1>1. Append(w, c) \in Seq(Changes) /\ Len(Append(w, c)) = Len(w) + 1
  OBVIOUS
<1>2. /\ DOMAIN w = 1..Len(w) /\ DOMAIN Append(w, c) = 1..Len(w) + 1 /\ Len(w) \in Nat
  BY <1>1, LenProperties
<1>3. Append(w, c)[Len(w) + 1] = c /\ \A i \in 1..Len(w) : Append(w, c)[i] = w[i]
  BY <1>2
<1>4. \A i \in Nat : i \in 1..Len(w) + 1 => i = Len(w) + 1 \/ i \in 1..Len(w)
  BY <1>2
<1>5. 1 \in DOMAIN Append(w, c)
  BY <1>2
<1> QED
  BY <1>1, <1>2, <1>3, <1>4, <1>5

\* The change that is taken off leaves the others, and the last of them.
LEMMA TakenOff ==
  ASSUME NEW w \in Seq(Changes), w # <<>>
  PROVE  /\ Head(w) = w[1] /\ Head(w) \in Changes /\ 1 \in DOMAIN w
         /\ Tail(w) \in Seq(Changes)
         /\ \A i \in Nat : i \in DOMAIN Tail(w) =>
              i + 1 \in Nat /\ i + 1 \in DOMAIN w /\ Tail(w)[i] = w[i + 1]
         /\ IF Tail(w) = <<>> THEN Head(w) = w[Len(w)] ELSE Tail(w)[Len(Tail(w))] = w[Len(w)]
<1>1. DOMAIN w = 1..Len(w) /\ Len(w) \in Nat \ {0}
  BY LenProperties, EmptySeq
<1>2. Tail(w) \in Seq(Changes) /\ Len(Tail(w)) = Len(w) - 1 /\ Head(w) = w[1]
  BY <1>1
<1>3. DOMAIN Tail(w) = 1..Len(w) - 1
  BY <1>2, LenProperties
<1>4. \A i \in 1..Len(w) - 1 : Tail(w)[i] = w[i + 1]
  BY <1>1, HeadTailProperties
<1>5. \A i \in Nat : i \in 1..Len(w) - 1 => i + 1 \in Nat /\ i + 1 \in 1..Len(w)
  BY <1>1
<1>b. Head(w) \in Changes /\ 1 \in DOMAIN w
  BY <1>1, HeadTailProperties
<1>6. CASE Len(w) = 1
  <2>1. Len(Tail(w)) = 0
    BY <1>2, <1>6
  <2>2. Tail(w) = <<>>
    BY <1>2, <2>1, EmptySeq
  <2>3. Head(w) = w[Len(w)]
    BY <1>2, <1>6
  <2> QED
    BY <1>1, <1>2, <1>3, <1>4, <1>5, <1>b, <2>2, <2>3, Zenon
<1>7. CASE Len(w) # 1
  <2>1. Len(w) - 1 \in 1..Len(w) - 1 /\ Len(w) - 1 + 1 = Len(w) /\ Len(w) - 1 \in Nat
    BY <1>1, <1>7
  <2>2. Tail(w)[Len(w) - 1] = w[Len(w) - 1 + 1]
    BY <1>4, <2>1, Zenon
  <2>3. Tail(w)[Len(Tail(w))] = w[Len(w)]
    BY <1>2, <2>1, <2>2, Zenon
  <2>4. Len(Tail(w)) # 0
    BY <1>1, <1>2, <1>7
  <2>5. Tail(w) # <<>>
    BY <2>4, EmptySeq, Zenon
  <2> QED
    BY <1>1, <1>2, <1>3, <1>4, <1>5, <1>b, <2>3, <2>5, Zenon
<1> QED
  BY <1>6, <1>7

-----------------------------------------------------------------------------
\* What is true of each step: types, and what is saved is the entry.
LEMMA StateTypesStep ==
  ASSUME StateTypes, SavedIsEntry, State!SyncNext
  PROVE  StateTypes' /\ SavedIsEntry'
<1> USE DEF StateTypes
<1>c. \A e \in State!Entry : State!Change(e) \in Changes
  BY ChangeType
<1>1. CASE State!Connect
  BY <1>1 DEF State!Connect, SavedIsEntry
<1>2. CASE State!Disconnect
  <2>1. [n \in Peers |-> <<>>] \in [Peers -> Seq(Changes)]
    BY EmptySeq
  <2> QED
    BY <1>2, <2>1 DEF State!Disconnect, State!Break, SavedIsEntry
<1>3. ASSUME NEW n \in Peers, NEW mode \in {"batch", "local-only"}, NEW ttl \in BOOLEAN,
             State!Set(n, mode, ttl)
      PROVE  StateTypes' /\ SavedIsEntry'
  <2> DEFINE e == entry'[n]
  <2>a. PICK r : /\ r = [value |-> writes + 1, version |-> State!Version(n), mode |-> mode,
                         owner |-> IF entry[n] = NoEntry THEN n ELSE entry[n].owner,
                         ttl |-> ttl \/ (entry[n] # NoEntry /\ entry[n].ttl)]
                 /\ entry' = [entry EXCEPT ![n] = r]
    BY <1>3 DEF State!Set
  <2>b. writes + 1 \in 1..MaxWrites
    BY <1>3, RelayBounds DEF State!Set
  <2>c. State!Version(n) \in Nat /\ (IF entry[n] = NoEntry THEN n ELSE entry[n].owner) \in Peers
    BY DEF State!Version, State!Entry
  <2>d. (ttl \/ (entry[n] # NoEntry /\ entry[n].ttl)) \in BOOLEAN
    OBVIOUS
  <2>e. r \in State!Entry
    BY <2>a, <2>b, <2>c, <2>d DEF State!Entry
  <2>f. ttls' = [p \in Peers |-> ttls'[p]]
    <3>1. CASE ttls' = ttls
      BY <3>1
    <3>2. CASE ttls' = [ttls EXCEPT ![n] = @ \cup {writes + 1}]
      BY <3>2
    <3> QED
      BY <1>3, <3>1, <3>2 DEF State!Set
  <2>g. /\ writes' = writes + 1 /\ writers' \subseteq Peers
        /\ saving' = [saving EXCEPT ![n] = TRUE] /\ disk' = disk
    BY <1>3 DEF State!Set
  <2>1. /\ e \in State!Entry /\ entry' = [entry EXCEPT ![n] = e]
        /\ writes' = writes + 1 /\ ttls' = [p \in Peers |-> ttls'[p]]
        /\ saving' = [saving EXCEPT ![n] = TRUE] /\ disk' = disk
    BY <2>a, <2>e, <2>f, <2>g
  <2>2. nextVersion' \in [Peers -> Nat]
    BY <1>3 DEF State!Set
  <2>3. wire' \in [Peers -> Seq(Changes)]
    <3>1. State!Other(n) \in Peers /\ State!Change(r) \in Changes
      BY <1>c, <2>e, OtherNode
    <3>2. \/ wire' = [wire EXCEPT ![State!Other(n)] = Append(@, State!Change(r))]
          \/ wire' = wire
      BY <1>3, <2>a DEF State!Set, State!Push
    <3>3. CASE wire' = wire
      BY <3>3
    <3>4. CASE wire' = [wire EXCEPT ![State!Other(n)] = Append(@, State!Change(r))]
      <4> DEFINE o == State!Other(n)
      <4>1. o \in Peers /\ wire[o] \in Seq(Changes)
        BY <3>1
      <4>2. Append(wire[o], State!Change(r)) \in Seq(Changes)
        BY <3>1, <4>1, Appended
      <4>3. wire' = [wire EXCEPT ![o] = Append(wire[o], State!Change(r))]
        BY <3>4
      <4> HIDE DEF o
      <4> QED
        BY <4>1, <4>2, <4>3
    <3> QED
      BY <3>2, <3>3, <3>4
  <2> HIDE DEF e
  <2>4. entry' \in [Peers -> State!Entry \cup {NoEntry}]
    BY <2>1
  <2>5. StateTypes'
    BY <2>1, <2>2, <2>3, <2>4, <2>g
  <2>6. SavedIsEntry'
    BY <2>1 DEF SavedIsEntry
  <2> QED
    BY <2>5, <2>6
<1>4. ASSUME NEW n \in Peers, State!Delete(n) PROVE StateTypes' /\ SavedIsEntry'
  BY <1>4 DEF State!Delete, State!Deleted, SavedIsEntry
<1>5. ASSUME NEW n \in Peers, NEW w \in ttls[n], State!Expire(n, w)
      PROVE  StateTypes' /\ SavedIsEntry'
  BY <1>5 DEF State!Expire, State!Deleted, SavedIsEntry
<1>6. ASSUME NEW n \in Peers, State!Request(n) PROVE StateTypes' /\ SavedIsEntry'
  <2> DEFINE e == entry[State!Other(n)]
  <2>1. e \in State!Entry /\ State!Other(State!Other(n)) \in Peers
    BY <1>6, OtherNode DEF State!Request
  <2>2. State!Change(e) \in Changes
    BY <1>c, <2>1
  <2>3. wire' = [wire EXCEPT ![State!Other(State!Other(n))] = Append(@, State!Change(e))]
    BY <1>6 DEF State!Request, State!Push
  <2>4. wire' \in [Peers -> Seq(Changes)]
    <3> HIDE DEF e
    <3> QED
      BY <2>1, <2>2, <2>3
  <2> QED
    BY <1>6, <2>4 DEF State!Request, SavedIsEntry
<1>7. ASSUME NEW n \in Peers, State!Receive(n) PROVE StateTypes' /\ SavedIsEntry'
  <2>1. wire[n] \in Seq(Changes) /\ wire[n] # <<>>
    BY <1>7 DEF State!Receive
  <2>2. Head(wire[n]) \in Changes /\ Tail(wire[n]) \in Seq(Changes)
    BY <2>1, TakenOff
  <2>3. wire' = [wire EXCEPT ![n] = Tail(wire[n])]
    BY <1>7 DEF State!Receive
  <2>4. wire' \in [Peers -> Seq(Changes)]
    BY <2>2, <2>3
  <2>5. CASE UNCHANGED <<entry, saving>>
    BY <1>7, <2>4, <2>5 DEF State!Receive, SavedIsEntry
  <2>6. CASE State!ApplyRemote(n, Head(wire[n]))
    <3>1. entry' \in [Peers -> State!Entry \cup {NoEntry}]
      BY <2>2, <2>6 DEF State!ApplyRemote, State!Entry, Changes
    <3>2. saving' = [saving EXCEPT ![n] = TRUE] /\ \A p \in Peers \ {n} : entry'[p] = entry[p]
      BY <2>6 DEF State!ApplyRemote
    <3> QED
      BY <1>7, <2>4, <3>1, <3>2 DEF State!Receive, SavedIsEntry
  <2> QED
    BY <1>7, <2>5, <2>6 DEF State!Receive
<1>8. ASSUME NEW n \in Peers, State!Save(n) PROVE StateTypes' /\ SavedIsEntry'
  BY <1>8 DEF State!Save, SavedIsEntry
<1>9. ASSUME NEW n \in Peers, State!Restart(n) PROVE StateTypes' /\ SavedIsEntry'
  <2>1. [p \in Peers |-> <<>>] \in [Peers -> Seq(Changes)]
    BY EmptySeq
  <2> QED
    BY <1>9, <2>1 DEF State!Restart, State!Break, SavedIsEntry
<1> QED
  BY <1>1, <1>2, <1>3, <1>4, <1>5, <1>6, <1>7, <1>8, <1>9 DEF State!SyncNext


-----------------------------------------------------------------------------
\* A change that is on the way to a node before it is added there.
LEMMA SentIsOld ==
  ASSUME StateTypes, StateTypes', NEW n \in Peers, NEW q \in Peers, NEW c \in Changes,
         wire' = [wire EXCEPT ![q] = Append(@, c)],
         \A p \in Peers, i \in Nat : i \in DOMAIN wire[p] => NotNewer(wire[p][i], entry'[n]),
         NotNewer(c, entry'[n])
  PROVE  AllOld(n)' /\ wire'[q] # <<>> /\ wire'[q][Len(wire'[q])] = c
<1>1. wire[q] \in Seq(Changes) /\ wire'[q] = Append(wire[q], c)
  BY DEF StateTypes
<1>2. \A p \in Peers \ {q} : wire'[p] = wire[p]
  BY DEF StateTypes
<1>3. /\ wire'[q] # <<>> /\ wire'[q][Len(wire'[q])] = c
      /\ \A i \in Nat : i \in DOMAIN wire'[q] =>
           wire'[q][i] = c \/ (i \in DOMAIN wire[q] /\ wire'[q][i] = wire[q][i])
  BY <1>1, Appended
<1>4. AllOld(n)'
  <2> SUFFICES ASSUME NEW p \in Peers, NEW i \in Nat, i \in DOMAIN wire'[p]
               PROVE  NotNewer(wire'[p][i], entry'[n])
    BY DEF AllOld, NotNewer
  <2>1. CASE p = q
    BY <1>3, <2>1
  <2>2. CASE p # q
    BY <1>2, <2>2
  <2> QED
    BY <2>1, <2>2
<1> QED
  BY <1>3, <1>4

\* What node n, the only one that writes, sets is what is last on the way.
LEMMA SetFollows ==
  ASSUME StateInv, StateTypes', ~missed', NEW n \in Peers, NEW o \in Peers, n # o,
         o \notin writers, NEW mode \in {"batch", "local-only"}, NEW ttl \in BOOLEAN,
         State!Set(n, mode, ttl)
  PROVE  Follows(o, n)'
<1> USE DEF StateInv
<1> DEFINE e == entry'[n]
<1>1. ~missed /\ Follows(o, n)
  BY DEF OneWriter, State!Set
<1>2. PICK r : /\ r = [value |-> writes + 1, version |-> State!Version(n), mode |-> mode,
                       owner |-> IF entry[n] = NoEntry THEN n ELSE entry[n].owner,
                       ttl |-> ttl \/ (entry[n] # NoEntry /\ entry[n].ttl)]
               /\ entry' = [entry EXCEPT ![n] = r]
               /\ wire' = [wire EXCEPT ![State!Other(n)] = Append(@, State!Change(r))]
  BY DEF State!Set, State!Push
<1>3. e = r /\ entry'[o] = entry[o]
  BY <1>2 DEF StateTypes
<1>4. e \in State!Entry /\ e # NoEntry /\ e.version = State!Version(n)
  <2>1. e # NoEntry
    <3>1. writes + 1 \in 1..MaxWrites /\ State!Version(n) \in Nat
      <4>1. MaxWrites \in Nat
        BY RelayBounds
      <4>2. writes + 1 \in 1..MaxWrites
        BY <4>1 DEF State!Set, StateTypes
      <4>3. State!Version(n) \in Nat
        BY DEF StateTypes, State!Version, State!Entry
      <4>4. QED
        BY <4>2, <4>3
    <3>2. (IF entry[n] = NoEntry THEN n ELSE entry[n].owner) \in Peers
      BY DEF StateTypes, State!Entry
    <3>3. (ttl \/ (entry[n] # NoEntry /\ entry[n].ttl)) \in BOOLEAN
      OBVIOUS
    <3>4. r \in State!Entry
      BY <1>2, <3>1, <3>2, <3>3 DEF State!Entry
    <3> QED
      BY <1>3, <3>4, RelayBounds
  <2>2. e \in State!Entry \cup {NoEntry}
    BY DEF StateTypes
  <2>3. r.version = State!Version(n)
    BY <1>2
  <2> QED
    BY <1>3, <2>1, <2>2, <2>3
<1>5. State!Other(n) = o
  BY TwoNodes
<1> HIDE DEF e
<1>6. State!Change(e) \in Changes /\ State!Change(e).version = e.version
  BY <1>4, ChangeType
<1>7. wire' = [wire EXCEPT ![o] = Append(@, State!Change(e))]
  BY <1>2, <1>3, <1>5
<1>8. NotNewer(State!Change(e), e)
  BY <1>4, <1>6 DEF NotNewer, State!Entry
<1>9. \A p \in Peers, i \in Nat : i \in DOMAIN wire[p] => NotNewer(wire[p][i], e)
  <2>1. CASE entry[n] = NoEntry
    <3>1. \A p \in Peers : wire[p] = <<>>
      BY <1>1, <2>1, TwoNodes DEF Follows
    <3>2. DOMAIN <<>> = {}
      OBVIOUS
    <3> QED
      BY <3>1, <3>2
  <2>2. CASE entry[n] # NoEntry
    <3>1. entry[n] \in State!Entry /\ e.version = entry[n].version + 1
      BY <1>4, <2>2 DEF StateTypes, State!Version
    <3>2. ASSUME NEW p \in Peers, NEW i \in Nat, i \in DOMAIN wire[p]
          PROVE  NotNewer(wire[p][i], e)
      <4>1. NotNewer(wire[p][i], entry[n])
        BY <1>1, <2>2, <3>2 DEF Follows, AllOld
      <4>2. wire[p] \in Seq(Changes)
        BY DEF StateTypes
      <4>3. wire[p][i] \in Changes
        BY <3>2, <4>2, LenProperties
      <4>4. wire[p][i].version \in Nat /\ entry[n].version \in Nat
        BY <3>1, <4>3 DEF Changes, State!Entry
      <4> QED
        BY <3>1, <4>1, <4>4 DEF NotNewer
    <3> QED
      BY <3>2
  <2> QED
    BY <2>1, <2>2
<1>10. AllOld(n)' /\ wire'[o] # <<>> /\ wire'[o][Len(wire'[o])] = State!Change(e)
  BY <1>6, <1>7, <1>8, <1>9, SentIsOld DEF e
<1>11. entry[o] # NoEntry => NotNewer(State!Change(entry[o]), e)
  <2> SUFFICES ASSUME entry[o] # NoEntry PROVE NotNewer(State!Change(entry[o]), e)
    OBVIOUS
  <2>1. entry[n] # NoEntry /\ NotNewer(State!Change(entry[o]), entry[n])
    BY <1>1 DEF Follows
  <2>2. entry[n] \in State!Entry /\ entry[o] \in State!Entry /\ e.version = entry[n].version + 1
    BY <1>4, <2>1 DEF StateTypes, State!Version
  <2>3. State!Change(entry[o]).version = entry[o].version
    BY <2>2, ChangeType
  <2>4. entry[o].version \in Nat /\ entry[n].version \in Nat
    BY <2>2 DEF State!Entry
  <2> QED
    BY <2>1, <2>2, <2>3, <2>4 DEF NotNewer
<1> QED
  BY <1>3, <1>4, <1>10, <1>11 DEF Follows, e


\* A node that is asked answers with what is not newer than the entry of n.
LEMMA RequestFollows ==
  ASSUME StateInv, StateTypes', ~missed', NEW n \in Peers, NEW o \in Peers, n # o,
         o \notin writers, NEW m \in Peers, State!Request(m)
  PROVE  Follows(o, n)'
<1> USE DEF StateInv
<1> DEFINE p == State!Other(m)
           c == State!Change(entry[p])
<1>1. Follows(o, n) /\ entry' = entry
  BY DEF OneWriter, State!Request
<1>2. p \in Peers /\ p # m /\ State!Other(p) = m
  BY OtherNode, TwoNodes
<1>3. wire' = [wire EXCEPT ![m] = Append(@, c)] /\ entry[p] # NoEntry
  BY <1>2 DEF State!Request, State!Push
<1>4. entry[p] \in State!Entry
  BY <1>2, <1>3 DEF StateTypes
<1>5. c \in Changes
  BY <1>4, ChangeType
<1> HIDE DEF c, p
<1>6. p \in {n, o} /\ m \in {n, o}
  BY <1>2, TwoNodes
<1>7. entry[n] # NoEntry
  BY <1>1, <1>3, <1>6 DEF Follows
<1>8. AllOld(n) /\ NotNewer(c, entry[n])
  <2>1. entry[n] \in State!Entry
    BY <1>7 DEF StateTypes
  <2>2. NotNewer(State!Change(entry[n]), entry[n])
    BY <2>1 DEF NotNewer, State!Entry, State!Change
  <2> QED
    BY <1>1, <1>3, <1>6, <1>7, <2>2 DEF Follows, c
<1>9. AllOld(n)' /\ wire'[m] # <<>> /\ wire'[m][Len(wire'[m])] = c
  BY <1>1, <1>3, <1>5, <1>8, SentIsOld DEF AllOld
<1>10. CASE m = o
  <2>1. c = State!Change(entry[n])
    BY <1>2, <1>6, <1>10 DEF c
  <2> QED
    BY <1>1, <1>7, <1>9, <1>10, <2>1 DEF Follows
<1>11. CASE m = n
  <2>1. wire'[o] = wire[o]
    BY <1>3, <1>11 DEF StateTypes
  <2> QED
    BY <1>1, <1>7, <1>9, <2>1 DEF Follows
<1> QED
  BY <1>6, <1>10, <1>11

\* The writer has nothing to learn; the other node learns what n has, or less
\* while more is on the way.
LEMMA ReceiveFollows ==
  ASSUME StateInv, StateTypes', ~missed', NEW n \in Peers, NEW o \in Peers, n # o,
         o \notin writers, NEW m \in Peers, State!Receive(m)
  PROVE  Follows(o, n)'
<1> USE DEF StateInv
<1> DEFINE c == Head(wire[m])
<1>1. Follows(o, n) /\ wire[m] # <<>> /\ wire[m] \in Seq(Changes)
  BY DEF OneWriter, State!Receive, StateTypes
<1>2. m \in {n, o}
  BY TwoNodes
<1>3. wire' = [wire EXCEPT ![m] = Tail(wire[m])]
  BY DEF State!Receive
<1>4. /\ c = wire[m][1] /\ c \in Changes /\ 1 \in DOMAIN wire[m]
      /\ \A i \in Nat : i \in DOMAIN Tail(wire[m]) =>
           i + 1 \in Nat /\ i + 1 \in DOMAIN wire[m] /\ Tail(wire[m])[i] = wire[m][i + 1]
      /\ IF Tail(wire[m]) = <<>> THEN c = wire[m][Len(wire[m])]
         ELSE Tail(wire[m])[Len(Tail(wire[m]))] = wire[m][Len(wire[m])]
  BY <1>1, TakenOff
<1> HIDE DEF c
<1>5. entry[n] # NoEntry /\ AllOld(n) /\ entry[n] \in State!Entry
  BY <1>1, <1>2 DEF Follows, StateTypes
<1>6. NotNewer(c, entry[n])
  BY <1>4, <1>5 DEF AllOld
<1>7. \A q \in Peers, i \in Nat : i \in DOMAIN wire'[q] => NotNewer(wire'[q][i], entry[n])
  <2>1. ASSUME NEW q \in Peers, NEW i \in Nat, i \in DOMAIN wire'[q]
        PROVE  NotNewer(wire'[q][i], entry[n])
    <3>1. CASE q = m
      <4>1. wire'[q] = Tail(wire[m])
        BY <1>3, <3>1 DEF StateTypes
      <4> QED
        BY <1>4, <1>5, <2>1, <4>1 DEF AllOld
    <3>2. CASE q # m
      BY <1>3, <1>5, <2>1, <3>2 DEF AllOld, StateTypes
    <3> QED
      BY <3>1, <3>2
  <2> QED
    BY <2>1
<1>8. State!Change(entry[n]).version = entry[n].version /\ entry[n].version \in Nat
  BY <1>5, ChangeType DEF State!Entry
<1>9. CASE m = n
  <2>1. ~State!Wins(c, n)
    BY <1>4, <1>5, <1>6, <1>8 DEF State!Wins, NotNewer, Changes
  <2>2. entry' = entry
    BY <1>9, <2>1 DEF State!Receive, c
  <2>3. wire'[o] = wire[o]
    BY <1>3, <1>9 DEF StateTypes
  <2> QED
    BY <1>1, <1>5, <1>7, <2>2, <2>3 DEF Follows, AllOld, NotNewer
<1>10. CASE m = o
  <2>1. wire'[o] = Tail(wire[o]) /\ entry'[n] = entry[n]
    BY <1>3, <1>10 DEF State!Receive, State!ApplyRemote, StateTypes
  <2>2. IF wire'[o] = <<>> THEN c = State!Change(entry[n])
        ELSE wire'[o][Len(wire'[o])] = State!Change(entry[n])
    BY <1>1, <1>4, <1>5, <1>10, <2>1 DEF Follows
  <2>3. AllOld(n)'
    BY <1>7, <2>1 DEF AllOld, NotNewer
  <2>4. CASE State!Wins(c, o)
    <3>1. State!Change(entry'[o]) = c /\ entry'[o] # NoEntry
      <4>1. entry'[o] = [value |-> c.value, version |-> c.version, owner |-> c.owner,
                         mode |-> IF entry[o] = NoEntry THEN "batch" ELSE entry[o].mode,
                         ttl |-> FALSE]
        BY <1>10, <2>4 DEF State!Receive, State!ApplyRemote, StateTypes, c
      <4>2. (IF entry[o] = NoEntry THEN "batch" ELSE entry[o].mode) \in {"batch", "local-only"}
        BY DEF StateTypes, State!Entry
      <4>3. entry'[o] \in State!Entry
        BY <1>4, <4>1, <4>2 DEF State!Entry, Changes
      <4>4. State!Change(entry'[o]) = c
        BY <1>4, <4>1 DEF State!Change, Changes
      <4> QED
        BY <4>3, <4>4, RelayBounds
    <3> QED
      BY <1>5, <1>6, <2>1, <2>2, <2>3, <3>1 DEF Follows, NotNewer
  <2>5. CASE ~State!Wins(c, o)
    <3>1. entry' = entry /\ entry[o] # NoEntry /\ ~(c.version > entry[o].version)
      BY <1>10, <2>5 DEF State!Receive, State!Wins, c
    <3>2. entry[o] \in State!Entry /\ NotNewer(State!Change(entry[o]), entry[n])
      BY <1>1, <1>5, <3>1 DEF Follows, StateTypes
    <3>3. State!Change(entry[o]).version = entry[o].version /\ entry[o].version \in Nat
      BY <3>2, ChangeType DEF State!Entry
    <3>4. c = State!Change(entry[n]) => State!Change(entry[o]) = State!Change(entry[n])
      BY <1>8, <3>1, <3>2, <3>3 DEF NotNewer
    <3> QED
      BY <1>5, <2>1, <2>2, <2>3, <3>1, <3>2, <3>4 DEF Follows, NotNewer
  <2> QED
    BY <2>4, <2>5
<1> QED
  BY <1>2, <1>9, <1>10


LEMMA OneWriterStep ==
  ASSUME StateInv, StateTypes', State!SyncNext
  PROVE  OneWriter'
<1> USE DEF StateInv
<1> SUFFICES ASSUME ~missed'
             PROVE  /\ writers' = {} => \A n \in Peers : entry'[n] = NoEntry
                    /\ \A n, o \in Peers : n # o /\ o \notin writers' => Follows(o, n)'
  BY DEF OneWriter
<1>q. ASSUME ~missed, UNCHANGED <<entry, wire, writers>>
      PROVE  /\ writers' = {} => \A n \in Peers : entry'[n] = NoEntry
             /\ \A n, o \in Peers : n # o /\ o \notin writers' => Follows(o, n)'
  <2>1. \A n, o \in Peers : Follows(o, n)' <=> Follows(o, n)
    BY <1>q DEF Follows, AllOld, NotNewer
  <2> QED
    BY <1>q, <2>1 DEF OneWriter
<1>w. ASSUME \A n \in Peers : wire[n] = <<>>, wire' = [n \in Peers |-> <<>>] PROVE wire' = wire
  BY <1>w DEF StateTypes
<1>1. CASE State!Connect
  BY <1>1, <1>q DEF State!Connect
<1>2. CASE State!Disconnect
  BY <1>2, <1>q, <1>w DEF State!Disconnect
<1>3. ASSUME NEW m \in Peers, NEW mode \in {"batch", "local-only"}, NEW ttl \in BOOLEAN,
             State!Set(m, mode, ttl)
      PROVE  /\ writers' = {} => \A n \in Peers : entry'[n] = NoEntry
             /\ \A n, o \in Peers : n # o /\ o \notin writers' => Follows(o, n)'
  <2>1. writers' = writers \cup {m}
    BY <1>3 DEF State!Set
  <2>2. ASSUME NEW n \in Peers, NEW o \in Peers, n # o, o \notin writers'
        PROVE  Follows(o, n)'
    <3>1. m = n /\ o \notin writers
      BY <2>1, <2>2, TwoNodes
    <3> QED
      BY <1>3, <2>2, <3>1, SetFollows
  <2> QED
    BY <2>1, <2>2
<1>4. ASSUME NEW m \in Peers, State!Delete(m) PROVE FALSE
  BY <1>4 DEF State!Delete, State!Deleted
<1>5. ASSUME NEW m \in Peers, NEW w \in ttls[m], State!Expire(m, w)
      PROVE  ~missed /\ UNCHANGED <<entry, wire, writers>>
  BY <1>5 DEF State!Expire, State!Deleted
<1>6. ASSUME NEW m \in Peers, State!Request(m)
      PROVE  /\ writers' = {} => \A n \in Peers : entry'[n] = NoEntry
             /\ \A n, o \in Peers : n # o /\ o \notin writers' => Follows(o, n)'
  <2>1. UNCHANGED <<entry, writers, missed>>
    BY <1>6 DEF State!Request
  <2>2. \A n, o \in Peers : n # o /\ o \notin writers' => Follows(o, n)'
    BY <1>6, <2>1, RequestFollows
  <2> QED
    BY <2>1, <2>2 DEF OneWriter
<1>7. ASSUME NEW m \in Peers, State!Receive(m)
      PROVE  /\ writers' = {} => \A n \in Peers : entry'[n] = NoEntry
             /\ \A n, o \in Peers : n # o /\ o \notin writers' => Follows(o, n)'
  <2>1. UNCHANGED <<writers, missed>> /\ wire[m] # <<>>
    BY <1>7 DEF State!Receive
  <2>2. \A n, o \in Peers : n # o /\ o \notin writers' => Follows(o, n)'
    BY <1>7, <2>1, ReceiveFollows
  <2>3. writers # {}
    <3>1. State!Other(m) \in Peers /\ State!Other(m) # m
      BY OtherNode
    <3>2. Follows(State!Other(m), m) /\ entry[m] = NoEntry => wire[m] = <<>>
      BY DEF Follows
    <3> QED
      BY <2>1, <3>1, <3>2 DEF OneWriter
  <2> QED
    BY <2>1, <2>2, <2>3
<1>8. ASSUME NEW m \in Peers, State!Save(m) PROVE ~missed /\ UNCHANGED <<entry, wire, writers>>
  BY <1>8 DEF State!Save
<1>9. ASSUME NEW m \in Peers, State!Restart(m)
      PROVE  ~missed /\ UNCHANGED <<entry, wire, writers>>
  <2>1. /\ ~missed /\ ~saving[m] /\ (\A n \in Peers : wire[n] = <<>>)
        /\ entry' = [entry EXCEPT ![m] = disk[m]] /\ wire' = [n \in Peers |-> <<>>]
        /\ writers' = writers
    BY <1>9 DEF State!Restart
  <2>2. disk[m] = entry[m]
    BY <2>1 DEF SavedIsEntry
  <2>3. entry' = entry
    BY <2>1, <2>2 DEF StateTypes
  <2> QED
    BY <2>1, <2>3, <1>w
<1> QED
  BY <1>1, <1>2, <1>3, <1>4, <1>5, <1>6, <1>7, <1>8, <1>9, <1>q DEF State!SyncNext

LEMMA StateInvAgrees == StateInv => State!NodesAgree
<1> SUFFICES ASSUME StateInv, \A n \in Peers : wire[n] = <<>>, writers # Peers, ~missed
             PROVE  \A n, m \in Peers : entry[n] # NoEntry =>
                      entry[m] # NoEntry /\ State!Change(entry[m]) = State!Change(entry[n])
  BY DEF State!NodesAgree
<1> USE DEF StateInv
<1>1. CASE writers = {}
  BY <1>1 DEF OneWriter
<1>2. CASE writers # {}
  <2>1. PICK a \in Peers, b \in Peers : a # b /\ Peers = {a, b}
    BY RelayBounds
  <2>2. CASE b \notin writers
    BY <2>1, <2>2 DEF OneWriter, Follows
  <2>3. CASE a \notin writers
    BY <2>1, <2>3 DEF OneWriter, Follows
  <2>4. CASE {a, b} \subseteq writers
    BY <2>1, <2>4 DEF StateTypes
  <2> QED
    BY <2>2, <2>3, <2>4
<1> QED
  BY <1>1, <1>2

\* The nodes of the archived relay that share an entry of the state bus have
\* the same value of it, as long as one writes and no change was lost, over any
\* number of writes, requests, reconnects and restarts (sync-engine.ts:227).
THEOREM NodesAgreeCorrect == Spec => []NodesAgree
<1>1. Init => StateInv
  BY StateStarts DEF Init
<1>2. StateInv /\ [Next]_allVars => StateInv'
  <2> SUFFICES ASSUME StateInv, [Next]_allVars PROVE StateInv'
    OBVIOUS
  <2>1. CASE StateStep
    BY <2>1, StateTypesStep, OneWriterStep DEF StateStep, StateInv
  <2>2. CASE UNCHANGED stateVars
    BY <2>2 DEF stateVars, StateInv, StateTypes, SavedIsEntry, OneWriter, Follows, AllOld, NotNewer
  <2>3. Next => StateStep \/ UNCHANGED stateVars
    BY DEF Next, ShellsStep, SurfacesStep, SessionsStep, ExtensionsStep, PagesStep, OutputStep,
           NodesStep
  <2> QED
    BY <2>1, <2>2, <2>3 DEF allVars
<1>3. StateInv => NodesAgree
  BY StateInvAgrees DEF NodesAgree
<1> QED
  BY <1>1, <1>2, <1>3, PTL DEF Spec

-----------------------------------------------------------------------------
(***************************************************************************)
(* The extensions.  Of scans that did not cross, one runs at a time; what  *)
(* its diagnostics say of an id that one directory has is so for the       *)
(* directories left and the ids it has activated, and when none runs, the  *)
(* report is so of the extensions.                                         *)
(***************************************************************************)
LoaderTypes ==
  /\ folder \in [Loader!Dirs -> Loader!Folder] /\ scans \in Nat
  /\ scan = [s \in Loader!Scan |-> scan[s]]
  /\ adapters = [e \in ExtIds |-> adapters[e]] /\ points = [e \in ExtIds |-> points[e]]
  /\ \A s \in Loader!Scan :
       /\ scan[s].on \in BOOLEAN
       /\ scan[s] = [on |-> scan[s].on, todo |-> scan[s].todo, done |-> scan[s].done,
                     diagnostics |-> scan[s].diagnostics]

\* The entry of directory d is the only one of its id.
OnlyOf(diagnostics, d) ==
  \A c \in DOMAIN diagnostics \ {d} : diagnostics[c].id # diagnostics[d].id

\* What diagnostics say when todo is left and the ids of done were activated
SaysSo(diagnostics, left, done) ==
  \A d \in DOMAIN diagnostics : OnlyOf(diagnostics, d) =>
    /\ diagnostics[d].status \in {"discovered", "activated", "failed", "invalid"}
    /\ d \in left <=> diagnostics[d].status = "discovered"
    /\ diagnostics[d].status = "activated" <=> diagnostics[d].id \in done

\* What is registered, points and adapters, is of the ids of done.
RegisteredOf(done, ps, as) ==
  \A e \in ExtIds : (e \in done => ps[e] # NoDir) /\ (as[e] # NoDir => e \in done)

Scanning(s) ==
  IF scan[s].on
  THEN /\ scan[s].todo \subseteq DOMAIN scan[s].diagnostics
       /\ \A d \in DOMAIN scan[s].diagnostics :
            d \in Loader!Dirs /\ scan[s].diagnostics[d].id = folder[d].id
       /\ ~crossed => /\ SaysSo(scan[s].diagnostics, scan[s].todo, scan[s].done)
                      /\ RegisteredOf(scan[s].done, points, adapters)
  ELSE scan[s].todo = {}

LoaderInv ==
  /\ LoaderTypes
  /\ \A s \in Loader!Scan : Scanning(s)
  /\ ~crossed => \A s, r \in Loader!Scan : scan[s].on /\ scan[r].on => s = r
  /\ scans = 0 \/ (~crossed /\ \E s \in Loader!Scan : scan[s].on) => extensions = {}
  /\ scans = 0 => \A e \in ExtIds : adapters[e] = NoDir
  /\ scans = 0 => \A s \in Loader!Scan : ~scan[s].on
  /\ ~crossed /\ (\A s \in Loader!Scan : ~scan[s].on) =>
       SaysSo(report, {}, extensions) /\ RegisteredOf(extensions, points, adapters)

LEMMA LoaderStarts == Loader!LoaderInit => LoaderInv
<1> SUFFICES ASSUME Loader!LoaderInit PROVE LoaderInv
  OBVIOUS
<1>1. LoaderTypes
  BY DEF Loader!LoaderInit, Loader!Idle, Loader!Nothing, LoaderTypes
<1>2. \A s \in Loader!Scan : ~scan[s].on /\ scan[s].todo = {}
  BY DEF Loader!LoaderInit, Loader!Idle
<1>3. DOMAIN report = {} /\ extensions = {} /\ \A e \in ExtIds : adapters[e] = NoDir
  BY DEF Loader!LoaderInit, Loader!Nothing
<1> QED
  BY <1>1, <1>2, <1>3 DEF LoaderInv, Scanning, SaysSo, RegisteredOf, OnlyOf

\* A scan that starts alone says what it found, and nothing is active.
LEMMA ScanStarts ==
  ASSUME LoaderInv, Loader!StartScan, UNCHANGED <<folder, points>>,
         adapters' = [e \in ExtIds |-> adapters'[e]], extensions' = {},
         ~crossed' => \A e \in ExtIds : adapters'[e] = NoDir
  PROVE  LoaderInv'
<1> USE DEF LoaderInv
<1> DEFINE D == Loader!Discovered
<1>0. PICK n \in Loader!Scan : n = scans + 1
  BY RelayBounds DEF Loader!StartScan, Loader!Scan, LoaderTypes
<1>1. /\ scans' = n /\ n # 0 /\ scans' \in Nat
      /\ scan' = [scan EXCEPT ![n] = D]
      /\ crossed' = (crossed \/ \E s \in Loader!Scan : scan[s].on)
  BY <1>0 DEF Loader!StartScan, LoaderTypes
<1>2. /\ D.on = TRUE /\ D.done = {}
      /\ D = [on |-> D.on, todo |-> D.todo, done |-> D.done, diagnostics |-> D.diagnostics]
      /\ D.todo \subseteq DOMAIN D.diagnostics /\ DOMAIN D.diagnostics \subseteq Loader!Dirs
      /\ \A d \in DOMAIN D.diagnostics :
           /\ D.diagnostics[d].id = folder[d].id
           /\ D.diagnostics[d].status = IF d \in D.todo THEN "discovered" ELSE "invalid"
  BY DEF Loader!Discovered, Loader!Present
<1> HIDE DEF D
<1>3. scan'[n] = D /\ \A s \in Loader!Scan \ {n} : scan'[s] = scan[s]
  BY <1>1 DEF LoaderTypes
<1>4. LoaderTypes'
  <2>1. \A s \in Loader!Scan :
          /\ scan'[s].on \in BOOLEAN
          /\ scan'[s] = [on |-> scan'[s].on, todo |-> scan'[s].todo, done |-> scan'[s].done,
                         diagnostics |-> scan'[s].diagnostics]
    <3>1. ASSUME NEW s \in Loader!Scan
          PROVE  /\ scan'[s].on \in BOOLEAN
                 /\ scan'[s] = [on |-> scan'[s].on, todo |-> scan'[s].todo,
                                done |-> scan'[s].done, diagnostics |-> scan'[s].diagnostics]
      <4>1. CASE s = n
        <5>1. scan'[s] = D
          BY <1>3, <4>1
        <5> QED
          BY <1>2, <5>1, Zenon
      <4>2. CASE s # n
        <5>1. scan'[s] = scan[s]
          BY <1>3, <4>2
        <5> QED
          BY <5>1, Zenon DEF LoaderTypes
      <4> QED
        BY <4>1, <4>2
    <3> QED
      BY <3>1
  <2>2. scan' = [s \in Loader!Scan |-> scan'[s]]
    BY <1>1 DEF LoaderTypes
  <2> QED
    BY <1>1, <2>1, <2>2 DEF LoaderTypes
<1>5. ~crossed' => ~crossed /\ \A s \in Loader!Scan \ {n} : ~scan'[s].on
  BY <1>1, <1>3
<1>6. SaysSo(D.diagnostics, D.todo, D.done)
  BY <1>2 DEF SaysSo
<1>9. scan'[n].on
  BY <1>2, <1>3, Zenon
<1>a. ~crossed' => RegisteredOf({}, points', adapters')
  BY DEF RegisteredOf
<1>7. Scanning(n)'
  <2>1. /\ scan'[n] = D /\ D.todo \subseteq DOMAIN D.diagnostics
        /\ \A d \in DOMAIN D.diagnostics :
             d \in Loader!Dirs /\ D.diagnostics[d].id = folder'[d].id
    BY <1>2, <1>3
  <2>2. ~crossed' => RegisteredOf(D.done, points', adapters')
    BY <1>2, <1>a, Zenon
  <2> QED
    BY <1>6, <1>9, <2>1, <2>2, Zenon DEF Scanning
<1>8. ASSUME NEW s \in Loader!Scan \ {n} PROVE Scanning(s)'
  BY <1>3, <1>5, <1>8 DEF Scanning
<1> QED
  BY <1>1, <1>3, <1>4, <1>5, <1>7, <1>8, <1>9

\* The scan goes on with the next directory: its entry is the first of its id.
LEMMA ActivateKeeps ==
  ASSUME LoaderInv, NEW s \in Loader!Scan, NEW d \in Loader!Dirs, Loader!Activate(s, d)
  PROVE  LoaderInv'
<1> USE DEF LoaderInv
<1> DEFINE id == folder[d].id
           diagnostics == scan[s].diagnostics
<1>1. scan[s].on /\ d \in scan[s].todo /\ d \in DOMAIN diagnostics /\ diagnostics[d].id = id
  BY DEF Loader!Activate, Scanning
<1>2. id \in ExtIds
  BY DEF LoaderTypes, Loader!Folder
<1>3. PICK code : /\ imported' = [imported EXCEPT ![d] = code]
                  /\ adapters' = IF code = "adapter" THEN [adapters EXCEPT ![id] = d] ELSE adapters
                  /\ points' = IF code = "fails" THEN points ELSE [points EXCEPT ![id] = d]
                  /\ scan' = [scan EXCEPT
                       ![s].todo = @ \ {d},
                       ![s].done = IF code = "fails" THEN @ ELSE @ \cup {id},
                       ![s].diagnostics =
                          Loader!Updated(@, id, IF code = "fails" THEN "failed" ELSE "activated")]
                  /\ UNCHANGED <<folder, extensions, report, scans, diskEdits, crossed>>
  BY DEF Loader!Activate
<1> DEFINE status == IF code = "fails" THEN "failed" ELSE "activated"
           upd == Loader!Updated(diagnostics, id, status)
           done == IF code = "fails" THEN scan[s].done ELSE scan[s].done \cup {id}
<1>4. /\ scan'[s] = [on |-> scan[s].on, todo |-> scan[s].todo \ {d}, done |-> done, diagnostics |-> upd]
      /\ \A r \in Loader!Scan \ {s} : scan'[r] = scan[r]
      /\ scan' = [r \in Loader!Scan |-> scan'[r]]
  <2>1. scan[s] = [on |-> scan[s].on, todo |-> scan[s].todo, done |-> scan[s].done,
                   diagnostics |-> diagnostics]
    BY Zenon DEF LoaderTypes
  <2>2. s \in DOMAIN scan /\ scan' = [scan EXCEPT ![s] = scan'[s]]
    BY <1>3 DEF LoaderTypes
  <2>3. /\ scan'[s].on = scan[s].on /\ scan'[s].todo = scan[s].todo \ {d}
        /\ scan'[s].done = done /\ scan'[s].diagnostics = upd
        /\ scan'[s] = [on |-> scan'[s].on, todo |-> scan'[s].todo, done |-> scan'[s].done,
                       diagnostics |-> scan'[s].diagnostics]
    BY <1>3, <2>1, <2>2 DEF LoaderTypes
  <2> HIDE DEF upd, done
  <2>4. scan'[s] = [on |-> scan[s].on, todo |-> scan[s].todo \ {d}, done |-> done,
                    diagnostics |-> upd]
    BY <2>3, Zenon
  <2>5. /\ \A r \in Loader!Scan \ {s} : scan'[r] = scan[r]
        /\ scan' = [r \in Loader!Scan |-> scan'[r]]
    BY <2>2 DEF LoaderTypes
  <2> QED
    BY <2>4, <2>5
<1>5. /\ DOMAIN upd = DOMAIN diagnostics
      /\ \A c \in DOMAIN diagnostics :
           \/ upd[c] = diagnostics[c] /\ (OnlyOf(diagnostics, d) => c # d)
           \/ upd[c] = [id |-> id, status |-> status] /\ diagnostics[c].id = id
  <2>1. DOMAIN upd = DOMAIN diagnostics
    BY DEF Loader!Updated
  <2>2. ASSUME OnlyOf(diagnostics, d) PROVE upd[d] = [id |-> id, status |-> status]
    <3>1. \A c \in DOMAIN diagnostics : diagnostics[c].id = id => c = d
      BY <1>1, <2>2 DEF OnlyOf
    <3>2. d <= d
      BY DEF Loader!Dirs
    <3> HIDE DEF id, diagnostics, status
    <3> QED
      BY <1>1, <3>1, <3>2 DEF Loader!Updated, upd
  <2>3. ASSUME NEW c \in DOMAIN diagnostics
        PROVE  \/ upd[c] = diagnostics[c]
               \/ upd[c] = [id |-> id, status |-> status] /\ diagnostics[c].id = id
    <3> HIDE DEF id, diagnostics, status
    <3> QED
      BY <2>3 DEF Loader!Updated, upd
  <2>4. upd[d] = diagnostics[d] /\ upd[d] = [id |-> id, status |-> status]
          => upd[d] = [id |-> id, status |-> status] /\ diagnostics[d].id = id
    BY <1>1
  <2> HIDE DEF id, diagnostics, status, upd
  <2> QED
    BY <1>1, <2>1, <2>2, <2>3
<1>6. \A c \in DOMAIN diagnostics : upd[c].id = diagnostics[c].id
  BY <1>5
<1> HIDE DEF upd, diagnostics, id
<1>7. ASSUME ~crossed PROVE SaysSo(upd, scan[s].todo \ {d}, done)
  <2>0. SaysSo(diagnostics, scan[s].todo, scan[s].done)
    BY <1>1, <1>7 DEF Scanning, diagnostics
  <2> SUFFICES ASSUME NEW c \in DOMAIN diagnostics, OnlyOf(upd, c)
               PROVE  /\ upd[c].status \in {"discovered", "activated", "failed", "invalid"}
                      /\ c \in scan[s].todo \ {d} <=> upd[c].status = "discovered"
                      /\ upd[c].status = "activated" <=> upd[c].id \in done
    BY <1>5 DEF SaysSo
  <2>1. OnlyOf(diagnostics, c)
    BY <1>5, <1>6 DEF OnlyOf
  <2>2. /\ diagnostics[c].status \in {"discovered", "activated", "failed", "invalid"}
        /\ c \in scan[s].todo <=> diagnostics[c].status = "discovered"
        /\ diagnostics[c].status = "activated" <=> diagnostics[c].id \in scan[s].done
    BY <2>0, <2>1 DEF SaysSo
  <2>3. CASE c = d
    <3>1. upd[c].status = status /\ upd[c].id = id
      BY <1>1, <1>5, <1>6, <2>1, <2>3
    <3>2. diagnostics[d].id \notin scan[s].done
      BY <1>1, <2>2, <2>3
    <3> QED
      BY <1>1, <2>3, <3>1, <3>2
  <2>4. CASE c # d
    <3>1. diagnostics[c].id # id
      BY <1>1, <2>1, <2>4 DEF OnlyOf
    <3>2. upd[c] = diagnostics[c]
      BY <1>5, <3>1
    <3> QED
      BY <2>2, <2>4, <3>1, <3>2
  <2> QED
    BY <2>3, <2>4
<1>8. ASSUME ~crossed PROVE RegisteredOf(done, points', adapters')
  <2>0. RegisteredOf(scan[s].done, points, adapters)
    BY <1>1, <1>8 DEF Scanning
  <2>1. NoDir # d
    BY RelayBounds
  <2>2. ASSUME NEW e \in ExtIds
        PROVE  (e \in done => points'[e] # NoDir) /\ (adapters'[e] # NoDir => e \in done)
    <3>1. CASE e = id
      BY <1>2, <1>3, <2>0, <2>1, <3>1 DEF RegisteredOf, LoaderTypes
    <3>2. CASE e # id
      BY <1>2, <1>3, <2>0, <3>2 DEF RegisteredOf, LoaderTypes
    <3> QED
      BY <3>1, <3>2
  <2> QED
    BY <2>2 DEF RegisteredOf
<1> HIDE DEF done
<1>9. LoaderTypes'
  <2>1. /\ adapters' = [e \in ExtIds |-> adapters'[e]] /\ points' = [e \in ExtIds |-> points'[e]]
    BY <1>3 DEF LoaderTypes
  <2>2. \A r \in Loader!Scan :
          /\ scan'[r].on \in BOOLEAN
          /\ scan'[r] = [on |-> scan'[r].on, todo |-> scan'[r].todo, done |-> scan'[r].done,
                         diagnostics |-> scan'[r].diagnostics]
    <3>1. ASSUME NEW r \in Loader!Scan
          PROVE  /\ scan'[r].on \in BOOLEAN
                 /\ scan'[r] = [on |-> scan'[r].on, todo |-> scan'[r].todo,
                                done |-> scan'[r].done, diagnostics |-> scan'[r].diagnostics]
      <4>1. CASE r = s
        <5>1. /\ scan'[s].on = scan[s].on /\ scan'[s].todo = scan[s].todo \ {d}
              /\ scan'[s].done = done /\ scan'[s].diagnostics = upd
          BY <1>4
        <5> QED
          BY <1>4, <4>1, <5>1, Zenon DEF LoaderTypes
      <4>2. CASE r # s
        <5>1. scan'[r] = scan[r]
          BY <1>4, <4>2
        <5> QED
          BY <5>1, Zenon DEF LoaderTypes
      <4> QED
        BY <4>1, <4>2
    <3> QED
      BY <3>1
  <2> QED
    BY <1>3, <1>4, <2>1, <2>2 DEF LoaderTypes
<1>10. Scanning(s)'
  <2>0. /\ scan'[s].todo = scan[s].todo \ {d}
        /\ scan'[s].done = done /\ scan'[s].diagnostics = upd
    BY <1>4
  <2>1. scan'[s].todo \subseteq DOMAIN scan'[s].diagnostics
    BY <1>1, <1>5, <2>0 DEF Scanning, diagnostics
  <2>2. \A c \in DOMAIN upd : c \in Loader!Dirs /\ upd[c].id = folder[c].id
    BY <1>1, <1>5, <1>6 DEF Scanning, diagnostics
  <2>3. ~crossed => SaysSo(scan'[s].diagnostics, scan'[s].todo, scan'[s].done)
    BY <1>7, <2>0
  <2>4. ~crossed => RegisteredOf(scan'[s].done, points', adapters')
    BY <1>8, <2>0
  <2>5. scan'[s].on /\ crossed' = crossed /\ folder' = folder
    BY <1>1, <1>3, <1>4
  <2> QED
    BY <2>0, <2>1, <2>2, <2>3, <2>4, <2>5 DEF Scanning
<1>11. ASSUME NEW r \in Loader!Scan \ {s} PROVE Scanning(r)'
  BY <1>1, <1>3, <1>4, <1>11 DEF Scanning
<1>12. \A r \in Loader!Scan : scan'[r].on = scan[r].on
  <2>1. scan'[s].on = scan[s].on
    BY <1>4
  <2> QED
    BY <1>4, <2>1
<1> QED
  BY <1>1, <1>3, <1>9, <1>10, <1>11, <1>12

LEMMA LoaderStepKeeps ==
  ASSUME LoaderInv, Loader!LoaderNext
  PROVE  LoaderInv'
<1> USE DEF LoaderInv
<1>1. CASE Loader!HostActivate
  <2>1. scans = 0 /\ Loader!StartScan /\ UNCHANGED <<folder, points, adapters, extensions>>
    BY <1>1 DEF Loader!HostActivate
  <2>2. adapters' = [e \in ExtIds |-> adapters'[e]]
    BY <2>1 DEF LoaderTypes
  <2> QED
    BY <2>1, <2>2, ScanStarts
<1>2. CASE Loader!HostReload
  <2>1. /\ Loader!StartScan /\ UNCHANGED <<folder, points>> /\ extensions' = {}
        /\ adapters' = [e \in ExtIds |-> IF e \in extensions THEN NoDir ELSE adapters[e]]
    BY <1>2 DEF Loader!HostReload, Loader!Unregistered
  <2>2. adapters' = [e \in ExtIds |-> adapters'[e]]
    BY <2>1
  <2>3. ~crossed' => \A e \in ExtIds : adapters'[e] = NoDir
    <3>1. ~crossed' => ~crossed /\ \A s \in Loader!Scan : ~scan[s].on
      BY <2>1 DEF Loader!StartScan
    <3>2. ~crossed' => RegisteredOf(extensions, points, adapters)
      BY <3>1
    <3> QED
      BY <2>1, <3>2 DEF RegisteredOf
  <2> QED
    BY <2>1, <2>2, <2>3, ScanStarts
<1>3. ASSUME NEW d \in Loader!Dirs, NEW f \in Loader!Folder, Loader!EditFolder(d, f)
      PROVE  LoaderInv'
  <2>1. folder' \in [Loader!Dirs -> Loader!Folder] /\ \A c \in Loader!Dirs : folder'[c].id = folder[c].id
    BY <1>3 DEF Loader!EditFolder, LoaderTypes
  <2>2. UNCHANGED <<imported, scan, adapters, points, extensions, report, scans, crossed>>
    BY <1>3 DEF Loader!EditFolder
  <2>3. LoaderTypes'
    BY <2>1, <2>2 DEF LoaderTypes
  <2>4. ASSUME NEW s \in Loader!Scan PROVE Scanning(s)'
    BY <2>1, <2>2, <2>4 DEF Scanning
  <2> QED
    BY <2>2, <2>3, <2>4
<1>4. ASSUME NEW s \in Loader!Scan, Loader!ScanEnds(s) PROVE LoaderInv'
  <2>1. /\ scan[s].on /\ scan[s].todo = {} /\ scan' = [scan EXCEPT ![s] = Loader!Idle]
        /\ extensions' = extensions \cup scan[s].done /\ report' = scan[s].diagnostics
        /\ UNCHANGED <<folder, adapters, points, scans, crossed>>
    BY <1>4 DEF Loader!ScanEnds
  <2>2. scan'[s] = Loader!Idle /\ \A r \in Loader!Scan \ {s} : scan'[r] = scan[r]
    BY <2>1 DEF LoaderTypes
  <2>3. /\ Loader!Idle.on = FALSE /\ Loader!Idle.todo = {}
        /\ Loader!Idle = [on |-> Loader!Idle.on, todo |-> Loader!Idle.todo,
                          done |-> Loader!Idle.done, diagnostics |-> Loader!Idle.diagnostics]
    BY DEF Loader!Idle
  <2>4. LoaderTypes'
    <3>1. ASSUME NEW r \in Loader!Scan
          PROVE  /\ scan'[r].on \in BOOLEAN
                 /\ scan'[r] = [on |-> scan'[r].on, todo |-> scan'[r].todo,
                                done |-> scan'[r].done, diagnostics |-> scan'[r].diagnostics]
      <4>1. CASE r = s
        BY <2>2, <2>3, <4>1, Zenon
      <4>2. CASE r # s
        <5>1. scan'[r] = scan[r]
          BY <2>2, <4>2
        <5> QED
          BY <5>1, Zenon DEF LoaderTypes
      <4> QED
        BY <4>1, <4>2
    <3>2. scan' = [r \in Loader!Scan |-> scan'[r]]
      BY <2>1 DEF LoaderTypes
    <3> QED
      BY <2>1, <3>1, <3>2 DEF LoaderTypes
  <2>5. ~scan'[s].on /\ scan'[s].todo = {}
    BY <2>2, <2>3
  <2>6. ASSUME NEW r \in Loader!Scan PROVE Scanning(r)'
    <3>1. CASE r = s
      BY <2>5, <3>1 DEF Scanning
    <3>2. CASE r # s
      BY <2>1, <2>2, <3>2 DEF Scanning
    <3> QED
      BY <3>1, <3>2
  <2>7. ~crossed => extensions = {} /\ \A r \in Loader!Scan : ~scan'[r].on
    BY <2>1, <2>2, <2>5
  <2>8. ~crossed => SaysSo(report', {}, extensions') /\ RegisteredOf(extensions', points', adapters')
    <3>1. ~crossed => /\ SaysSo(scan[s].diagnostics, {}, scan[s].done)
                      /\ RegisteredOf(scan[s].done, points, adapters)
      BY <2>1 DEF Scanning
    <3>2. ~crossed => extensions' = scan[s].done
      BY <2>1, <2>7
    <3> QED
      BY <2>1, <3>1, <3>2
  <2>9. scans # 0
    BY <2>1
  <2> QED
    BY <2>1, <2>4, <2>5, <2>6, <2>7, <2>8, <2>9
<1>5. ASSUME NEW s \in Loader!Scan, NEW d \in Loader!Dirs, Loader!Activate(s, d) PROVE LoaderInv'
  BY <1>5, ActivateKeeps
<1> QED
  BY <1>1, <1>2, <1>3, <1>4, <1>5 DEF Loader!LoaderNext

\* When no scan of the archived extensions runs, and none ran while another
\* did, what the report says of an id that one directory has is so, for any
\* directories, ids, edits and scans (extension-host.ts:117).
THEOREM ReportIsTrueCorrect == Spec => []ReportIsTrue
<1>1. Init => LoaderInv
  BY LoaderStarts DEF Init
<1>2. LoaderInv /\ [Next]_allVars => LoaderInv'
  <2> SUFFICES ASSUME LoaderInv, [Next]_allVars PROVE LoaderInv'
    OBVIOUS
  <2>1. CASE ExtensionsStep
    BY <2>1, LoaderStepKeeps DEF ExtensionsStep
  <2>2. CASE UNCHANGED extVars
    BY <2>2 DEF extVars, LoaderInv, LoaderTypes, Scanning
  <2>3. Next => ExtensionsStep \/ UNCHANGED extVars
    BY DEF Next, StateStep, ShellsStep, SurfacesStep, SessionsStep, PagesStep, OutputStep, NodesStep
  <2> QED
    BY <2>1, <2>2, <2>3 DEF allVars
<1>3. LoaderInv => ReportIsTrue
  BY DEF LoaderInv, ReportIsTrue, Loader!ReportIsTrue, SaysSo, RegisteredOf, OnlyOf
<1> QED
  BY <1>1, <1>2, <1>3, PTL DEF Spec

-----------------------------------------------------------------------------
(***************************************************************************)
(* The instances of the agents.  A stopped instance has no socket, and a   *)
(* socket at most one instance, which came with the registration; that of  *)
(* a socket that is open while the relay is up is there.                   *)
(***************************************************************************)
SessTypes ==
  /\ instances \in [Inst!Ids -> Inst!Instance] /\ file \in [Inst!Ids -> Inst!Instance]
  /\ socket \in [Inst!Connections -> {"new", "open", "closed"}]
  /\ agent \in [Inst!Connections -> Agents \cup {NoAgent}] /\ label \in [Agents -> Labels]
  /\ registered \subseteq Inst!Connections /\ relay \in {"up", "stopping", "down"}

\* An instance without a running process has no socket.
Unsocketed(is) == \A i \in Inst!Ids : is[i].status # "running" => is[i].socket = 0

OneEach ==
  \A i \in Inst!Ids : instances[i].socket # 0 =>
    /\ instances[i].socket \in registered
    /\ \A j \in Inst!Ids : instances[j].socket = instances[i].socket => j = i

HasOwn(s) ==
  \E i \in Inst!Ids :
    /\ instances[i].status = "running" /\ instances[i].socket = s
    /\ instances[i].label = label[agent[s]]

SessInv ==
  /\ SessTypes
  /\ Unsocketed(instances)
  /\ \A i \in Inst!Ids : file[i].socket = 0 /\ file[i].status # "running"
  /\ OneEach
  /\ \A s \in registered : socket[s] # "new" /\ agent[s] \in Agents
  /\ relay = "down" => \A s \in Inst!Connections : socket[s] # "open"
  /\ relay = "up" => \A s \in registered : socket[s] = "open" => HasOwn(s)

LEMMA NothingInstance ==
  /\ Inst!Nothing \in Inst!Instance /\ Inst!Nothing.status = "none" /\ Inst!Nothing.socket = 0
BY RelayBounds DEF Inst!Nothing, Inst!Instance

LEMMA SessStarts == Inst!SessInit => SessInv
<1> SUFFICES ASSUME Inst!SessInit PROVE SessInv
  OBVIOUS
<1>1. SessTypes
  BY NothingInstance DEF Inst!SessInit, Inst!NoInstances, SessTypes
<1>2. \A i \in Inst!Ids : instances[i] = Inst!Nothing /\ file[i] = Inst!Nothing
  BY DEF Inst!SessInit, Inst!NoInstances
<1> QED
  BY <1>1, <1>2, NothingInstance DEF Inst!SessInit, SessInv, Unsocketed, OneEach

\* What is written of an instance has no socket and no running process.
LEMMA AsStoppedIs ==
  ASSUME NEW i \in Inst!Instance, i.status # "running" => i.socket = 0
  PROVE  /\ Inst!AsStopped(i) \in Inst!Instance
         /\ Inst!AsStopped(i).socket = 0 /\ Inst!AsStopped(i).status # "running"
BY DEF Inst!AsStopped, Inst!Instance

LEMMA FlushKeeps ==
  ASSUME SessInv, Inst!Flush
  PROVE  /\ file' \in [Inst!Ids -> Inst!Instance]
         /\ \A i \in Inst!Ids : file'[i].socket = 0 /\ file'[i].status # "running"
<1> USE DEF SessInv
<1>1. CASE file' = file
  BY <1>1 DEF SessTypes
<1>2. CASE file' = [i \in Inst!Ids |-> Inst!AsStopped(instances[i])]
  <2>1. ASSUME NEW i \in Inst!Ids
        PROVE  /\ Inst!AsStopped(instances[i]) \in Inst!Instance
               /\ Inst!AsStopped(instances[i]).socket = 0
               /\ Inst!AsStopped(instances[i]).status # "running"
    <3>1. instances[i] \in Inst!Instance /\ (instances[i].status # "running" => instances[i].socket = 0)
      BY DEF SessTypes, Unsocketed
    <3> QED
      BY <3>1, AsStoppedIs
  <2> QED
    BY <1>2, <2>1
<1> QED
  BY <1>1, <1>2 DEF Inst!Flush, Inst!WriteSnapshot

\* With no instances, and no relay that is up, there is nothing to have.
LEMMA NoneKeeps ==
  ASSUME SessInv, SessTypes', relay' # "up",
         instances' = Inst!NoInstances, UNCHANGED <<agent, registered>>,
         \A i \in Inst!Ids : file'[i].socket = 0 /\ file'[i].status # "running",
         \A s \in registered : socket'[s] # "new",
         relay' = "down" => \A s \in Inst!Connections : socket'[s] # "open"
  PROVE  SessInv'
<1>1. \A i \in Inst!Ids : instances'[i] = Inst!Nothing
  BY DEF Inst!NoInstances
<1> QED
  BY <1>1, NothingInstance DEF SessInv, Unsocketed, OneEach

\* An instance that is taken over is stopped, and so no one else's.
LEMMA RegisterKeeps ==
  ASSUME SessInv, NEW s \in Inst!Connections, Inst!Register(s)
  PROVE  SessInv'
<1> USE DEF SessInv
<1>1. /\ relay = "up" /\ socket[s] = "open" /\ agent[s] \in Agents /\ s \notin registered
      /\ registered' = registered \cup {s} /\ UNCHANGED <<relay, label, socket, agent, file>>
  BY DEF Inst!Register, SessTypes
<1>2. PICK i \in Inst!Ids :
        /\ IF Inst!Reusable(agent[s]) = {} THEN Inst!NewId(i) ELSE i \in Inst!Reusable(agent[s])
        /\ instances' = [instances EXCEPT ![i] = Inst!Made(label[agent[s]], "remote", s)]
  BY DEF Inst!Register
<1>3. instances[i].status # "running"
  <2>1. CASE i \in Inst!Reusable(agent[s])
    BY <2>1 DEF Inst!Reusable
  <2>2. CASE Inst!NewId(i)
    <3>1. i \notin Inst!Listed
      BY <2>2 DEF Inst!NewId, Inst!NewIds, Inst!Ids
    <3> QED
      BY <3>1 DEF Inst!Listed
  <2> QED
    BY <1>2, <2>1, <2>2
<1> DEFINE own == Inst!Made(label[agent[s]], "remote", s)
<1>4. /\ own.status = "running" /\ own.socket = s /\ own.label = label[agent[s]]
      /\ own \in Inst!Instance
  BY <1>1 DEF Inst!Made, Inst!Instance, SessTypes
<1>5. s # 0
  BY DEF Inst!Connections
<1> HIDE DEF own
<1>6. instances'[i] = own /\ \A j \in Inst!Ids \ {i} : instances'[j] = instances[j]
  BY <1>2 DEF SessTypes, own
<1>7. SessTypes'
  BY <1>1, <1>2, <1>4 DEF SessTypes, own
<1>8. Unsocketed(instances')
  BY <1>4, <1>6 DEF Unsocketed
<1>9. OneEach'
  <2> SUFFICES ASSUME NEW j \in Inst!Ids, instances'[j].socket # 0
               PROVE  /\ instances'[j].socket \in registered'
                      /\ \A k \in Inst!Ids : instances'[k].socket = instances'[j].socket => k = j
    BY DEF OneEach
  <2>1. \A k \in Inst!Ids \ {i} : instances'[k].socket # s
    BY <1>1, <1>5, <1>6 DEF OneEach
  <2>2. CASE j = i
    BY <1>1, <1>4, <1>6, <2>1, <2>2
  <2>3. CASE j # i
    BY <1>1, <1>4, <1>6, <2>1, <2>3 DEF OneEach
  <2> QED
    BY <2>2, <2>3
<1>10. HasOwn(s)'
  BY <1>1, <1>4, <1>6 DEF HasOwn
<1>11. ASSUME NEW r \in registered, HasOwn(r) PROVE HasOwn(r)'
  <2>1. PICK j \in Inst!Ids : /\ instances[j].status = "running" /\ instances[j].socket = r
                              /\ instances[j].label = label[agent[r]]
    BY <1>11 DEF HasOwn
  <2>2. instances'[j] = instances[j]
    BY <1>3, <1>6, <2>1
  <2> QED
    BY <1>1, <2>1, <2>2 DEF HasOwn
<1> QED
  BY <1>1, <1>7, <1>8, <1>9, <1>10, <1>11

LEMMA SocketClosesKeeps ==
  ASSUME SessInv, NEW s \in Inst!Connections, Inst!SocketCloses(s)
  PROVE  SessInv'
<1> USE DEF SessInv
<1>1. /\ socket' = [socket EXCEPT ![s] = "closed"]
      /\ instances' = [i \in Inst!Ids |-> IF i \in Inst!Listed /\ instances[i].socket = s
                                          THEN Inst!Nothing ELSE instances[i]]
      /\ UNCHANGED <<relay, label, agent, registered, file>>
  BY DEF Inst!SocketCloses
<1>2. SessTypes'
  BY <1>1, NothingInstance DEF SessTypes
<1>3. \A i \in Inst!Ids : instances'[i] = Inst!Nothing \/ instances'[i] = instances[i]
  BY <1>1
<1>4. Unsocketed(instances') /\ OneEach'
  BY <1>1, <1>3, NothingInstance DEF Unsocketed, OneEach
<1>5. ASSUME NEW r \in registered, HasOwn(r), r # s PROVE HasOwn(r)'
  <2>1. PICK j \in Inst!Ids : /\ instances[j].status = "running" /\ instances[j].socket = r
                              /\ instances[j].label = label[agent[r]]
    BY <1>5 DEF HasOwn
  <2>2. instances'[j] = instances[j]
    BY <1>1, <1>5, <2>1
  <2> QED
    BY <1>1, <2>1, <2>2 DEF HasOwn
<1>6. socket'[s] = "closed" /\ \A r \in Inst!Connections \ {s} : socket'[r] = socket[r]
  BY <1>1 DEF SessTypes
<1>7. \A r \in registered : r \in Inst!Connections
  BY DEF SessTypes
<1> QED
  BY <1>1, <1>2, <1>4, <1>5, <1>6, <1>7

\* The instances that come back are stopped, under ids that are new.
LEMMA RestartsKeeps ==
  ASSUME SessInv, Inst!RelayRestarts
  PROVE  SessInv'
<1> USE DEF SessInv
<1>1. /\ relay = "down" /\ relay' = "up"
      /\ UNCHANGED <<label, socket, agent, registered, file>>
  BY DEF Inst!RelayRestarts
<1>2. PICK f \in [Inst!Saved -> Inst!NewIds] :
        instances' = [n \in Inst!Ids |-> IF \E i \in Inst!Saved : f[i] = n
                                         THEN file[CHOOSE i \in Inst!Saved : f[i] = n]
                                         ELSE Inst!Nothing]
  BY DEF Inst!RelayRestarts
<1>3. ASSUME NEW n \in Inst!Ids
      PROVE  /\ instances'[n] \in Inst!Instance /\ instances'[n].socket = 0
             /\ instances'[n].status # "running"
  <2>1. CASE \E i \in Inst!Saved : f[i] = n
    <3>1. PICK i \in Inst!Saved : instances'[n] = file[i]
      BY <1>2, <2>1
    <3>2. i \in Inst!Ids
      BY DEF Inst!Saved
    <3> QED
      BY <3>1, <3>2 DEF SessTypes
  <2>2. CASE ~\E i \in Inst!Saved : f[i] = n
    BY <1>2, <2>2, NothingInstance
  <2> QED
    BY <2>1, <2>2
<1>4. instances' = [n \in Inst!Ids |-> instances'[n]]
  BY <1>2
<1>5. instances' \in [Inst!Ids -> Inst!Instance]
  BY <1>3, <1>4
<1>6. SessTypes'
  BY <1>1, <1>5 DEF SessTypes
<1> QED
  BY <1>1, <1>3, <1>6 DEF Unsocketed, OneEach, SessTypes

LEMMA SessStepKeeps ==
  ASSUME SessInv, Inst!SessNext
  PROVE  SessInv'
<1> USE DEF SessInv
<1>1. ASSUME NEW s \in Inst!Connections, NEW a \in Agents \cup {NoAgent}, Inst!Connect(s, a)
      PROVE  SessInv'
  <2>1. /\ relay = "up" /\ socket[s] = "new"
        /\ socket' = [socket EXCEPT ![s] = "open"] /\ agent' = [agent EXCEPT ![s] = a]
        /\ UNCHANGED <<relay, instances, label, registered, file>>
    BY <1>1 DEF Inst!Connect
  <2>2. s \notin registered
    BY <2>1
  <2>3. \A r \in registered : socket'[r] = socket[r] /\ agent'[r] = agent[r]
    BY <2>1, <2>2 DEF SessTypes
  <2>4. SessTypes' /\ Unsocketed(instances') /\ OneEach'
    BY <2>1 DEF SessTypes, Unsocketed, OneEach
  <2>5. ASSUME NEW r \in registered, HasOwn(r) PROVE HasOwn(r)'
    BY <2>1, <2>3, <2>5 DEF HasOwn
  <2> QED
    BY <2>1, <2>3, <2>4, <2>5
<1>2. ASSUME NEW l \in Labels, Inst!CreateLocal(l) PROVE SessInv'
  <2>1. PICK i \in Inst!Ids : /\ Inst!NewId(i)
                              /\ instances' = [instances EXCEPT ![i] = Inst!Made(l, "local", 0)]
    BY <1>2 DEF Inst!CreateLocal
  <2>2. UNCHANGED <<relay, label, socket, agent, registered, file>>
    BY <1>2 DEF Inst!CreateLocal
  <2>3. instances[i].status # "running"
    <3>1. i \notin Inst!Listed
      BY <2>1 DEF Inst!NewId, Inst!NewIds, Inst!Ids
    <3> QED
      BY <3>1 DEF Inst!Listed
  <2> DEFINE own == Inst!Made(l, "local", 0)
  <2>4. own \in Inst!Instance /\ own.status = "running" /\ own.socket = 0
    BY DEF Inst!Made, Inst!Instance
  <2> HIDE DEF own
  <2>5. instances'[i] = own /\ \A j \in Inst!Ids \ {i} : instances'[j] = instances[j]
    BY <2>1 DEF SessTypes, own
  <2>6. SessTypes' /\ Unsocketed(instances')
    BY <2>1, <2>2, <2>4, <2>5 DEF SessTypes, Unsocketed, own
  <2>7. OneEach'
    BY <2>2, <2>4, <2>5 DEF OneEach
  <2>8. ASSUME NEW r \in registered, HasOwn(r) PROVE HasOwn(r)'
    <3>1. PICK j \in Inst!Ids : /\ instances[j].status = "running" /\ instances[j].socket = r
                                /\ instances[j].label = label[agent[r]]
      BY <2>8 DEF HasOwn
    <3>2. instances'[j] = instances[j]
      BY <2>3, <2>5, <3>1
    <3> QED
      BY <2>2, <3>1, <3>2 DEF HasOwn
  <2> QED
    BY <2>2, <2>6, <2>7, <2>8
<1>3. ASSUME NEW s \in Inst!Connections, Inst!Register(s) PROVE SessInv'
  BY <1>3, RegisterKeeps
<1>4. ASSUME NEW s \in Inst!Connections, Inst!SocketCloses(s) PROVE SessInv'
  BY <1>4, SocketClosesKeeps
<1>5. CASE Inst!SaveTimer
  <2>1. Inst!Flush /\ UNCHANGED <<relay, instances, label, socket, agent, registered>>
    BY <1>5 DEF Inst!SaveTimer
  <2> QED
    BY <2>1, FlushKeeps DEF SessTypes, Unsocketed, OneEach, HasOwn
<1>6. CASE Inst!Shutdown
  <2>1. /\ Inst!Flush /\ relay' = "stopping" /\ instances' = Inst!NoInstances
        /\ UNCHANGED <<label, socket, agent, registered>>
    BY <1>6 DEF Inst!Shutdown
  <2>2. SessTypes'
    BY <2>1, FlushKeeps, NothingInstance DEF SessTypes, Inst!NoInstances
  <2> QED
    BY <2>1, <2>2, FlushKeeps, NoneKeeps
<1>7. CASE Inst!RelayExits
  <2>1. /\ relay' = "down" /\ UNCHANGED <<instances, label, agent, registered, file>>
        /\ socket' = [s \in Inst!Connections |-> IF socket[s] = "open" THEN "closed" ELSE socket[s]]
    BY <1>7 DEF Inst!RelayExits
  <2>2. SessTypes'
    BY <2>1 DEF SessTypes
  <2>3. Unsocketed(instances') /\ OneEach'
    BY <2>1 DEF Unsocketed, OneEach
  <2> QED
    BY <2>1, <2>2, <2>3 DEF SessTypes
<1>8. CASE Inst!Crash
  <2>1. /\ relay' = "down" /\ instances' = Inst!NoInstances
        /\ UNCHANGED <<label, agent, registered, file>>
        /\ socket' = [s \in Inst!Connections |-> IF socket[s] = "open" THEN "closed" ELSE socket[s]]
    BY <1>8 DEF Inst!Crash
  <2>2. SessTypes'
    BY <2>1, NothingInstance DEF SessTypes, Inst!NoInstances
  <2>3. \A s \in Inst!Connections : socket'[s] # "open" /\ (socket[s] # "new" => socket'[s] # "new")
    BY <2>1
  <2> QED
    BY <2>1, <2>2, <2>3, NoneKeeps DEF SessTypes
<1>9. CASE Inst!RelayRestarts
  BY <1>9, RestartsKeeps
<1> QED
  BY <1>1, <1>2, <1>3, <1>4, <1>5, <1>6, <1>7, <1>8, <1>9 DEF Inst!SessNext

LEMMA SessInvListed == SessInv => Inst!AgentsListed
<1> DEFINE Own(s) == {i \in Inst!Listed : instances[i].socket = s /\ instances[i].status = "running"
                                          /\ instances[i].label = label[agent[s]]}
<1>1. ASSUME SessInv, relay = "up", NEW s \in registered, socket[s] = "open"
      PROVE  Cardinality(Own(s)) = 1
  <2>1. PICK i \in Inst!Ids :
          /\ instances[i].status = "running" /\ instances[i].socket = s
          /\ instances[i].label = label[agent[s]]
    BY <1>1 DEF SessInv, HasOwn
  <2>2. s # 0
    BY <1>1 DEF SessInv, SessTypes, Inst!Connections
  <2>3. i \in Own(s)
    BY <2>1 DEF Inst!Listed
  <2>4. ASSUME NEW j \in Own(s) PROVE j = i
    BY <1>1, <2>1, <2>2, <2>4 DEF SessInv, OneEach, Inst!Listed
  <2> HIDE DEF Own
  <2>5. Own(s) = {i}
    BY <2>3, <2>4
  <2> QED
    BY <2>5, FS_Singleton
<1>2. ASSUME NEW S PROVE Inst!Cardinality(S) = Cardinality(S)
  BY DEF Inst!Cardinality, Cardinality
<1> QED
  BY <1>1, <1>2, Zenon DEF Inst!AgentsListed

\* While the archived relay is up, every agent that has registered and is
\* connected has exactly one running instance, its own, over any number of
\* agents, sockets, crashes and restarts, and however late a socket is closed
\* (relay-server.ts:2686): what AgentsListed states of the instances.
THEOREM OwnInstanceListed == Spec => [](subject = "sessions" => Inst!AgentsListed)
<1>1. Init => SessInv
  BY SessStarts DEF Init
<1>2. SessInv /\ [Next]_allVars => SessInv'
  <2> SUFFICES ASSUME SessInv, [Next]_allVars PROVE SessInv'
    OBVIOUS
  <2>1. CASE SessionsStep
    BY <2>1, SessStepKeeps DEF SessionsStep
  <2>2. CASE UNCHANGED sessVars
    BY <2>2 DEF sessVars, SessInv, SessTypes, Unsocketed, OneEach, HasOwn
  <2>3. Next => SessionsStep \/ UNCHANGED sessVars
    BY DEF Next, StateStep, ShellsStep, SurfacesStep, ExtensionsStep, PagesStep, OutputStep, NodesStep
  <2> QED
    BY <2>1, <2>2, <2>3 DEF allVars
<1>3. SessInv => (subject = "sessions" => Inst!AgentsListed)
  BY SessInvListed
<1> QED
  BY <1>1, <1>2, <1>3, PTL DEF Spec

-----------------------------------------------------------------------------
(***************************************************************************)
(* The nodes.  OwnedBy says what an agent may report, Alive what runs or   *)
(* is about to.  A connection whose messages are still to be read is open, *)
(* and has only asked to be registered, or it is registered and has its    *)
(* node; what exits is not alive, and what an agent still has after it has *)
(* said goodbye on a connection was made over a later one.                 *)
(***************************************************************************)
Kinds == {"unused", "local", "node", "run", "gone"}
States == {"new", "open", "registered", "unregistered", "closed"}
Messages == [type: {"register", "report", "spawn", "exit", "unregister", "request", "spawned"},
             procs: SUBSET Nodes!NodeIds]
Surfaces == [state: {"unused", "live", "gone"}, node: Nodes!NodeIds \cup {0},
             proc: Nodes!NodeIds \cup {0}, keep: BOOLEAN, orphaned: BOOLEAN]

NodesTypes ==
  /\ named \subseteq Nodes!NodeAgents
  /\ nodeInst \in [Nodes!InstIds -> [kind: Kinds, agent: 0..MaxAgents, conn: 0..MaxLinks]]
  /\ conn \in [Nodes!Links -> [agent: 0..MaxAgents, state: States, node: 0..MaxInsts]]
  /\ using \in [Nodes!NodeAgents -> 0..MaxLinks]
  /\ toRelay \in [Nodes!Links -> Seq(Messages)] /\ toAgent \in [Nodes!Links -> Seq(Messages)]
  /\ running \in [Nodes!NodeAgents -> SUBSET Nodes!NodeIds]
  /\ nodeSurf \in [Nodes!Shared -> Surfaces]

Opened(c) == conn[c].state # "new"
Up(c) == conn[c].state = "registered"
OwnedBy(a, p) ==
  IF a \in named THEN p \in Nodes!InstIds /\ nodeInst[p].kind \in {"run", "gone"} /\ nodeInst[p].agent = a
  ELSE p = -a
Spawned(c) == UNION {toAgent[c][j].procs : j \in 1..Len(toAgent[c])}
Alive(a) == running[a] \cup IF using[a] = 0 THEN {} ELSE Spawned(using[a])

\* Connections are opened one after the other; an agent uses its last one.
ConnsKnown ==
  /\ \A c \in Nodes!Links : Opened(c) =>
       /\ conn[c].agent \in Nodes!NodeAgents
       /\ using[conn[c].agent] = 0 \/ c <= using[conn[c].agent]
       /\ \A d \in 1..(c - 1) : Opened(d)
  /\ \A a \in Nodes!NodeAgents : using[a] # 0 =>
       conn[using[a]].agent = a /\ conn[using[a]].state \in {"open", "registered"}

\* A registered connection has its node; what is of an agent came over one of
\* its connections.
InstsKnown ==
  /\ \A c \in Nodes!Links : Up(c) =>
       /\ conn[c].node \in Nodes!InstIds
       /\ nodeInst[conn[c].node] = Nodes!Made("node", conn[c].agent, c)
  /\ \A i \in Nodes!InstIds :
       /\ nodeInst[i].kind = "unused" => nodeInst[i].agent = 0
       /\ nodeInst[i].agent # 0 => /\ nodeInst[i].conn \in Nodes!Links /\ Opened(nodeInst[i].conn)
                                   /\ conn[nodeInst[i].conn].agent = nodeInst[i].agent

\* What a registered connection may still have to tell the relay
Fine(c, m) ==
  LET a == conn[c].agent IN
  /\ m.type \in {"report", "spawn", "exit", "unregister"}
  /\ \A p \in m.procs : OwnedBy(a, p) /\ (a \in named => nodeInst[p].conn <= c)
  /\ m.type # "report" => a \in named
  /\ m.type = "exit" => \E p \in Nodes!NodeIds : m.procs = {p} /\ p \notin Alive(a)
  /\ m.type = "unregister" => using[a] # c /\ \A p \in Alive(a) : nodeInst[p].conn > c

Told(c) ==
  /\ conn[c].state = "open" => toRelay[c] = <<Nodes!Msg("register", {})>>
  /\ conn[c].state \in {"new", "unregistered", "closed"} => toRelay[c] = <<>>
  /\ Up(c) => \A j \in 1..Len(toRelay[c]) :
       Fine(c, toRelay[c][j]) /\ (toRelay[c][j].type = "unregister" => j = Len(toRelay[c]))

\* What an agent may still have to hear
Heard(a, m) ==
  /\ \/ m.type = "request" /\ m.procs = {}
     \/ m.type = "spawned" /\ a \in named
  /\ \A p \in m.procs : OwnedBy(a, p) /\ p \notin running[a]

Listens(c) ==
  /\ toAgent[c] # <<>> => Up(c) /\ using[conn[c].agent] = c
  /\ \A j \in 1..Len(toAgent[c]) :
       /\ Heard(conn[c].agent, toAgent[c][j])
       /\ \A k \in 1..Len(toAgent[c]) : j # k => toAgent[c][j].procs \cap toAgent[c][k].procs = {}

QueuesKnown == \A c \in Nodes!Links : Told(c) /\ Listens(c)

RunningOwned == \A a \in Nodes!NodeAgents : \A p \in running[a] : OwnedBy(a, p)
AliveShown == \A a \in named : \A p \in Alive(a) : Nodes!Of(p) # {} \/ p \in released

\* A process has one surface, under a node of its agent that is not of an
\* earlier connection than the process.
Placed(s) ==
  /\ nodeSurf[s].proc \in Nodes!NodeIds /\ nodeSurf[s].node \in Nodes!NodeIds
  /\ nodeSurf[s].keep \/ nodeSurf[s].proc \in released
  /\ nodeSurf[s].proc \in Nodes!InstIds =>
       /\ nodeInst[nodeSurf[s].proc].kind # "unused"
       /\ nodeInst[nodeSurf[s].proc].agent # 0 =>
            /\ nodeSurf[s].node \in Nodes!InstIds
            /\ nodeInst[nodeSurf[s].node].agent = nodeInst[nodeSurf[s].proc].agent
            /\ nodeInst[nodeSurf[s].proc].conn <= nodeInst[nodeSurf[s].node].conn

SurfKnown ==
  \A s \in Nodes!Live :
    Placed(s) /\ \A t \in Nodes!Live : nodeSurf[s].proc = nodeSurf[t].proc => s = t

NodesInv ==
  /\ NodesTypes /\ ConnsKnown /\ InstsKnown /\ QueuesKnown /\ RunningOwned
  /\ AliveShown /\ SurfKnown /\ Nodes!PeersTrue

\* What every step leaves or adds: an instance keeps its agent, a connection
\* too, and an agent gets alive only what is new.
InstsGrow ==
  \A i \in Nodes!InstIds : nodeInst[i].kind # "unused" =>
    /\ nodeInst'[i].kind # "unused"
    /\ nodeInst'[i].agent = nodeInst[i].agent /\ nodeInst'[i].conn = nodeInst[i].conn
    /\ nodeInst[i].kind \in {"run", "gone"} => nodeInst'[i].kind \in {"run", "gone"}
    /\ nodeInst[i].kind = "gone" => nodeInst'[i].kind = "gone"
AliveGrows ==
  \A c \in Nodes!Links : Opened(c) =>
    LET a == conn[c].agent IN
    /\ conn'[c].agent = a
    /\ using[a] # c => using'[a] # c
    /\ a \in named => \A p \in Alive(a)' :
         \/ p \in Alive(a)
         \/ /\ p \in Nodes!InstIds /\ nodeInst[p].kind = "unused"
            /\ using[a] # c => nodeInst'[p].conn > c
Onward == named' = named /\ InstsGrow /\ AliveGrows

\* The constants
LEMMA NodeNumbers ==
  /\ MaxAgents \in Nat /\ MaxInsts \in Nat /\ MaxLinks \in Nat /\ MaxShared \in Nat
  /\ Nodes!NodeAgents \subseteq Nat \ {0} /\ Nodes!InstIds \subseteq Nat \ {0}
  /\ Nodes!Links \subseteq Nat \ {0} /\ Nodes!InstIds \subseteq Nodes!NodeIds /\ 0 \notin Nodes!NodeIds
  /\ Nodes!NodeIds \subseteq Int
  /\ \A a \in Nodes!NodeAgents : -a \in Nodes!NodeIds /\ -a \notin Nodes!InstIds
  /\ \A a, b \in Nodes!NodeAgents : -a = -b => a = b
<1>1. MaxAgents \in Nat /\ MaxInsts \in Nat /\ MaxLinks \in Nat /\ MaxShared \in Nat
  BY RelayBounds
<1>2. QED
  BY <1>1 DEF Nodes!NodeAgents, Nodes!InstIds, Nodes!Links, Nodes!NodeIds

\* Two agents own nothing in common.
LEMMA OwnedOnce ==
  ASSUME NEW a \in Nodes!NodeAgents, NEW b \in Nodes!NodeAgents, NEW p, OwnedBy(a, p), OwnedBy(b, p)
  PROVE  a = b
  BY NodeNumbers DEF OwnedBy

\* A queue that gets a message, and one whose first is taken off
LEMMA Queued ==
  ASSUME NEW q \in Seq(Messages), NEW m \in Messages
  PROVE  /\ Append(q, m) \in Seq(Messages) /\ Append(q, m) # <<>> /\ Len(Append(q, m)) = Len(q) + 1
         /\ Len(q) \in Nat
         /\ \A j \in 1..Len(Append(q, m)) : \/ j \in 1..Len(q) /\ Append(q, m)[j] = q[j]
                                            \/ j = Len(Append(q, m)) /\ j \notin 1..Len(q) /\ Append(q, m)[j] = m
<1>1. Append(q, m) \in Seq(Messages) /\ Len(Append(q, m)) = Len(q) + 1 /\ Len(q) \in Nat
  OBVIOUS
<1>2. Append(q, m) # <<>>
  BY <1>1, EmptySeq
<1>3. \A j \in 1..Len(q) : Append(q, m)[j] = q[j]
  BY <1>1
<1>4. Append(q, m)[Len(q) + 1] = m
  BY <1>1
<1>5. \A j \in 1..(Len(q) + 1) : j \in 1..Len(q) \/ (j = Len(q) + 1 /\ j \notin 1..Len(q))
  BY <1>1
<1>6. QED
  BY <1>1, <1>2, <1>3, <1>4, <1>5

LEMMA Unqueued ==
  ASSUME NEW q \in Seq(Messages), q # <<>>
  PROVE  /\ Head(q) \in Messages /\ Head(q) = q[1] /\ 1 \in 1..Len(q) /\ Tail(q) \in Seq(Messages)
         /\ Len(q) \in Nat /\ Len(Tail(q)) = Len(q) - 1
         /\ \A j \in 1..Len(Tail(q)) : j + 1 \in 1..Len(q) /\ j + 1 # 1 /\ Tail(q)[j] = q[j + 1]
<1>1. Len(q) \in Nat \ {0}
  BY EmptySeq
<1>2. Head(q) \in Messages /\ Tail(q) \in Seq(Messages) /\ Len(Tail(q)) = Len(q) - 1 /\ Head(q) = q[1]
  BY HeadTailProperties, <1>1
<1>3. \A j \in 1..Len(Tail(q)) : Tail(q)[j] = q[j + 1]
  BY HeadTailProperties
<1>4. \A j \in 1..(Len(q) - 1) : j + 1 \in 1..Len(q) /\ j + 1 # 1
  BY <1>1
<1>5. QED
  BY <1>1, <1>2, <1>3, <1>4

\* There is nothing in an empty queue.
LEMMA NothingQueued == \A j \in 1..Len(<<>>) : FALSE
  BY EmptySeq

\* The relay and its agents start with nothing.
LEMMA NodesStart ==
  ASSUME Nodes!NodesInit
  PROVE  NodesInv
<1>1. NodesTypes
  <2>1. nodeInst \in [Nodes!InstIds -> [kind: Kinds, agent: 0..MaxAgents, conn: 0..MaxLinks]]
    BY NodeNumbers DEF Nodes!NodesInit, Nodes!Made, Kinds
  <2>2. conn \in [Nodes!Links -> [agent: 0..MaxAgents, state: States, node: 0..MaxInsts]]
    BY NodeNumbers DEF Nodes!NodesInit, States
  <2>3. toRelay \in [Nodes!Links -> Seq(Messages)] /\ toAgent \in [Nodes!Links -> Seq(Messages)]
    BY EmptySeq DEF Nodes!NodesInit
  <2>4. nodeSurf \in [Nodes!Shared -> Surfaces]
    BY DEF Nodes!NodesInit, Nodes!Surface, Surfaces
  <2>5. /\ named \subseteq Nodes!NodeAgents /\ using \in [Nodes!NodeAgents -> 0..MaxLinks]
        /\ running \in [Nodes!NodeAgents -> SUBSET Nodes!NodeIds]
    BY NodeNumbers DEF Nodes!NodesInit
  <2>6. QED
    BY <2>1, <2>2, <2>3, <2>4, <2>5 DEF NodesTypes
<1>2. \A c \in Nodes!Links : conn[c].state = "new" /\ toRelay[c] = <<>> /\ toAgent[c] = <<>>
  BY DEF Nodes!NodesInit
<1>3. \A a \in Nodes!NodeAgents : using[a] = 0 /\ running[a] = {}
  BY DEF Nodes!NodesInit
<1>4. Nodes!Live = {}
  BY DEF Nodes!NodesInit, Nodes!Live, Nodes!Surface
<1>5. ConnsKnown
  BY <1>2, <1>3 DEF ConnsKnown, Opened
<1>6. InstsKnown
  BY <1>2 DEF InstsKnown, Up, Nodes!NodesInit, Nodes!Made
<1>7. QueuesKnown
  BY <1>2, NothingQueued DEF QueuesKnown, Told, Listens, Up
<1>8. RunningOwned /\ AliveShown
  BY <1>1, <1>3 DEF RunningOwned, AliveShown, Alive, NodesTypes
<1>9. SurfKnown
  BY <1>4 DEF SurfKnown
<1>10. Nodes!PeersTrue
  BY DEF Nodes!NodesInit, Nodes!PeersTrue, Nodes!NodeCards, Nodes!Made
<1>11. QED
  BY <1>1, <1>5, <1>6, <1>7, <1>8, <1>9, <1>10 DEF NodesInv

\* What an agent uses is a connection of its own that stands.
LEMMA UsedLink ==
  ASSUME NodesTypes, ConnsKnown, NEW a \in Nodes!NodeAgents, using[a] # 0
  PROVE  /\ using[a] \in Nodes!Links /\ conn[using[a]].agent = a /\ Opened(using[a])
         /\ conn[using[a]].state \in {"open", "registered"}
<1>1. using[a] \in Nodes!Links
  BY NodeNumbers DEF NodesTypes, Nodes!Links
<1>2. conn[using[a]].agent = a /\ conn[using[a]].state \in {"open", "registered"}
  BY DEF ConnsKnown
<1>3. QED
  BY <1>1, <1>2 DEF Opened

\* What is owned stays owned.
LEMMA OwnedKeeps ==
  ASSUME Onward, NEW a, NEW p, OwnedBy(a, p)
  PROVE  OwnedBy(a, p)' /\ (a \in named => nodeInst'[p].conn = nodeInst[p].conn)
  BY DEF Onward, InstsGrow, OwnedBy

\* What is alive is owned.
LEMMA AliveOwned ==
  ASSUME NodesTypes, ConnsKnown, QueuesKnown, RunningOwned, NEW a \in Nodes!NodeAgents, NEW p \in Alive(a)
  PROVE  OwnedBy(a, p)
<1>1. CASE p \in running[a]
  BY <1>1 DEF RunningOwned
<1>2. CASE using[a] # 0 /\ p \in Spawned(using[a])
  <2>1. using[a] \in Nodes!Links /\ conn[using[a]].agent = a
    BY <1>2, NodeNumbers DEF NodesTypes, ConnsKnown, Nodes!Links
  <2>2. PICK j \in 1..Len(toAgent[using[a]]) : p \in toAgent[using[a]][j].procs
    BY <1>2 DEF Spawned
  <2>3. QED
    BY <2>1, <2>2 DEF QueuesKnown, Listens, Heard
<1>3. QED
  BY <1>1, <1>2 DEF Alive

\* What may be told may be told later too.
LEMMA FineKeeps ==
  ASSUME NodesInv, Onward, NEW c \in Nodes!Links, Opened(c), NEW m \in Messages, Fine(c, m)
  PROVE  Fine(c, m)'
<1>1. PICK a \in Nodes!NodeAgents : conn[c].agent = a /\ conn'[c].agent = a
  BY DEF NodesInv, ConnsKnown, Onward, AliveGrows
<1>2. ASSUME NEW p \in m.procs
      PROVE  OwnedBy(a, p)' /\ (a \in named => nodeInst'[p].conn <= c)
  <2>1. OwnedBy(a, p) /\ (a \in named => nodeInst[p].conn <= c)
    BY <1>1 DEF Fine
  <2>2. OwnedBy(a, p)' /\ (a \in named => nodeInst'[p].conn = nodeInst[p].conn)
    BY <2>1, OwnedKeeps
  <2>3. QED
    BY <1>1, <2>1, <2>2
<1>3. ASSUME m.type = "exit"
      PROVE  \E p \in Nodes!NodeIds : m.procs = {p} /\ p \notin Alive(a)'
  <2>1. PICK p \in Nodes!NodeIds : m.procs = {p} /\ p \notin Alive(a)
    BY <1>1, <1>3 DEF Fine
  <2>2. a \in named /\ OwnedBy(a, p)
    BY <1>1, <1>3, <2>1 DEF Fine
  <2>3. nodeInst[p].kind # "unused"
    BY <2>2 DEF OwnedBy
  <2>4. p \notin Alive(a)'
    BY <1>1, <2>1, <2>2, <2>3 DEF Onward, AliveGrows
  <2>5. QED
    BY <2>1, <2>4
<1>4. ASSUME m.type = "unregister"
      PROVE  using'[a] # c /\ \A p \in Alive(a)' : nodeInst'[p].conn > c
  <2>1. using[a] # c /\ (\A p \in Alive(a) : nodeInst[p].conn > c) /\ a \in named
    BY <1>1, <1>4 DEF Fine
  <2>2. using'[a] # c
    BY <1>1, <2>1 DEF Onward, AliveGrows
  <2>3. ASSUME NEW p \in Alive(a)' PROVE nodeInst'[p].conn > c
    <3>1. CASE p \in Alive(a)
      <4>1. OwnedBy(a, p)
        BY <1>1, <3>1, AliveOwned DEF NodesInv
      <4>2. QED
        BY <2>1, <3>1, <4>1, OwnedKeeps
    <3>2. CASE p \notin Alive(a)
      BY <1>1, <2>1, <2>3, <3>2 DEF Onward, AliveGrows
    <3>3. QED
      BY <3>1, <3>2
  <2>4. QED
    BY <2>2, <2>3
<1>5. m.type \in {"report", "spawn", "exit", "unregister"} /\ (m.type # "report" => a \in named)
  BY <1>1 DEF Fine
<1>6. named' = named
  BY DEF Onward
<1>7. QED
  BY <1>1, <1>2, <1>3, <1>4, <1>5, <1>6 DEF Fine

\* A queue of the relay that stays, gets a message or is read
LEMMA ToldStays ==
  ASSUME NodesInv, Onward, NEW c \in Nodes!Links, toRelay'[c] = toRelay[c], conn'[c].state = conn[c].state
  PROVE  Told(c)'
<1>1. Told(c) /\ toRelay[c] \in Seq(Messages)
  BY DEF NodesInv, NodesTypes, QueuesKnown
<1>2. \A j \in 1..Len(toRelay[c]) : toRelay[c][j] \in Messages
  BY <1>1, ElementOfSeq
<1>3. Up(c) => \A m \in Messages : Fine(c, m) => Fine(c, m)'
  BY FineKeeps DEF Up, Opened
<1>4. QED
  BY <1>1, <1>2, <1>3 DEF Told, Up

LEMMA ToldMore ==
  ASSUME NodesInv, Onward, NEW c \in Nodes!Links, Up(c), using[conn[c].agent] = c, NEW m \in Messages,
         toRelay' = [toRelay EXCEPT ![c] = Append(@, m)], conn' = conn, Fine(c, m)'
  PROVE  Told(c)'
<1>1. Told(c) /\ toRelay[c] \in Seq(Messages) /\ toRelay'[c] = Append(toRelay[c], m)
  BY DEF NodesInv, NodesTypes, QueuesKnown
<1>2. \A j \in 1..Len(toRelay[c]) : toRelay[c][j] \in Messages
  BY <1>1, ElementOfSeq
<1>3. \A n \in Messages : Fine(c, n) => Fine(c, n)' /\ n.type # "unregister"
  BY FineKeeps DEF Up, Opened, Fine
<1>4. \A j \in 1..Len(toRelay'[c]) : \/ j \in 1..Len(toRelay[c]) /\ toRelay'[c][j] = toRelay[c][j]
                                     \/ j = Len(toRelay'[c]) /\ toRelay'[c][j] = m
  BY <1>1, Queued
<1>5. \A j \in 1..Len(toRelay[c]) : Fine(c, toRelay[c][j])
  BY <1>1 DEF Told
<1>6. \A j \in 1..Len(toRelay'[c]) : \E n \in Messages :
        toRelay'[c][j] = n /\ Fine(c, n)' /\ (n.type = "unregister" => j = Len(toRelay'[c]))
  BY <1>2, <1>3, <1>4, <1>5
<1>7. QED
  BY <1>6 DEF Told, Up

LEMMA ToldLess ==
  ASSUME NodesInv, Onward, NEW c \in Nodes!Links, Up(c), conn'[c].state = conn[c].state,
         toRelay[c] # <<>>, toRelay'[c] = Tail(toRelay[c])
  PROVE  Told(c)'
<1>1. Told(c) /\ toRelay[c] \in Seq(Messages)
  BY DEF NodesInv, NodesTypes, QueuesKnown
<1>2. \A j \in 1..Len(toRelay[c]) : toRelay[c][j] \in Messages
  BY <1>1, ElementOfSeq
<1>3. \A n \in Messages : Fine(c, n) => Fine(c, n)'
  BY FineKeeps DEF Up, Opened
<1>4. /\ Len(toRelay[c]) \in Nat /\ Len(toRelay'[c]) = Len(toRelay[c]) - 1
      /\ \A j \in 1..Len(toRelay'[c]) : j + 1 \in 1..Len(toRelay[c]) /\ toRelay'[c][j] = toRelay[c][j + 1]
  BY <1>1, Unqueued
<1>5. \A j \in 1..Len(toRelay[c]) :
        Fine(c, toRelay[c][j]) /\ (toRelay[c][j].type = "unregister" => j = Len(toRelay[c]))
  BY <1>1 DEF Told
<1>6. \A j \in 1..Len(toRelay'[c]) : \E n \in Messages :
        toRelay'[c][j] = n /\ Fine(c, n)' /\ (n.type = "unregister" => j = Len(toRelay'[c]))
  BY <1>2, <1>3, <1>4, <1>5
<1>7. QED
  BY <1>6 DEF Told, Up

\* A queue of an agent that stays
LEMMA ListensStays ==
  ASSUME NodesInv, Onward, NEW c \in Nodes!Links, toAgent'[c] = toAgent[c],
         toAgent[c] # <<>> => /\ Up(c)' /\ using'[conn[c].agent] = c
                              /\ running'[conn[c].agent] \subseteq running[conn[c].agent]
  PROVE  Listens(c)'
<1>1. CASE toAgent[c] = <<>>
  BY <1>1, NothingQueued DEF Listens
<1>2. CASE toAgent[c] # <<>>
  <2>1. Listens(c) /\ Up(c)
    BY <1>2 DEF NodesInv, QueuesKnown, Listens
  <2>2. PICK a \in Nodes!NodeAgents : conn[c].agent = a /\ conn'[c].agent = a
    BY <2>1 DEF NodesInv, ConnsKnown, Onward, AliveGrows, Opened, Up
  <2>3. \A m : Heard(a, m) => Heard(a, m)'
    BY <1>2, <2>2, OwnedKeeps DEF Heard, Onward
  <2>4. QED
    BY <1>2, <2>1, <2>2, <2>3 DEF Listens
<1>3. QED
  BY <1>1, <1>2

\* A surface that stays where it is
LEMMA PlacedStays ==
  ASSUME NodesInv, Onward, NEW s \in Nodes!Live,
         nodeSurf'[s].proc = nodeSurf[s].proc, nodeSurf'[s].node = nodeSurf[s].node,
         nodeSurf'[s].keep \/ nodeSurf[s].proc \in released'
  PROVE  Placed(s)'
<1>1. Placed(s) /\ InstsKnown /\ InstsGrow
  BY DEF NodesInv, SurfKnown, Onward
<1>2. PICK p \in Nodes!NodeIds : p = nodeSurf[s].proc
  BY <1>1 DEF Placed
<1>3. PICK n \in Nodes!NodeIds : n = nodeSurf[s].node
  BY <1>1 DEF Placed
<1>4. ASSUME p \in Nodes!InstIds
      PROVE  /\ nodeInst'[p].kind # "unused"
             /\ nodeInst'[p].agent # 0 => /\ n \in Nodes!InstIds /\ nodeInst'[n].agent = nodeInst'[p].agent
                                         /\ nodeInst'[p].conn <= nodeInst'[n].conn
  <2>1. nodeInst[p].kind # "unused" /\ nodeInst'[p].agent = nodeInst[p].agent /\ nodeInst'[p].conn = nodeInst[p].conn
        /\ nodeInst'[p].kind # "unused"
    BY <1>1, <1>2, <1>4 DEF Placed, InstsGrow
  <2>2. ASSUME nodeInst[p].agent # 0
        PROVE  /\ n \in Nodes!InstIds /\ nodeInst[n].agent = nodeInst[p].agent
               /\ nodeInst[p].conn <= nodeInst[n].conn /\ nodeInst[n].kind # "unused"
    BY <1>1, <1>2, <1>3, <1>4, <2>2 DEF Placed, InstsKnown
  <2>3. QED
    BY <1>1, <2>1, <2>2 DEF InstsGrow
<1>5. QED
  BY <1>2, <1>3, <1>4 DEF Placed

\* The surfaces stay as they are.
LEMMA SurfsStay ==
  ASSUME NodesInv, Onward, nodeSurf' = nodeSurf, released' = released
  PROVE  /\ SurfKnown' /\ Nodes!Live' = Nodes!Live
         /\ \A p : Nodes!Of(p)' = Nodes!Of(p)
<1>1. Nodes!Live' = Nodes!Live /\ \A p : Nodes!Of(p)' = Nodes!Of(p)
  BY DEF Nodes!Live, Nodes!Of
<1>2. \A s \in Nodes!Live : Placed(s)'
  BY PlacedStays DEF NodesInv, SurfKnown, Placed
<1>3. SurfKnown'
  BY <1>1, <1>2 DEF NodesInv, SurfKnown
<1>4. QED
  BY <1>1, <1>3
\* What an agent does leaves the instances, the surfaces and the peers.
LEMMA AgentStep ==
  ASSUME NodesInv, AliveGrows, NodesTypes', ConnsKnown', QueuesKnown', RunningOwned',
         UNCHANGED <<named, nodeInst, nodeSurf, cards, released>>,
         \A c \in Nodes!Links : Up(c)' <=> Up(c),
         \A c \in Nodes!Links : Opened(c) => conn'[c] = conn[c],
         \A c \in Nodes!Links : conn'[c].state = "unregistered" <=> conn[c].state = "unregistered",
         \A a \in named : Alive(a)' \subseteq Alive(a)
  PROVE  NodesInv'
<1>1. Onward
  BY DEF Onward, InstsGrow
<1>2. SurfKnown' /\ \A p : Nodes!Of(p)' = Nodes!Of(p)
  BY <1>1, SurfsStay
<1>3. AliveShown'
  BY <1>2 DEF NodesInv, AliveShown, NodesTypes
<1>4. InstsKnown'
  BY DEF NodesInv, InstsKnown, Up, Opened, Nodes!Made
<1>5. Nodes!PeersTrue'
  BY DEF NodesInv, Nodes!PeersTrue, Nodes!NodeCards
<1>6. QED
  BY <1>2, <1>3, <1>4, <1>5 DEF NodesInv

\* An agent connects.
LEMMA ConnectKeeps ==
  ASSUME NodesInv, NEW a \in Nodes!NodeAgents, Nodes!Connect(a)
  PROVE  NodesInv'
<1>0. NodesTypes /\ ConnsKnown /\ QueuesKnown
  BY DEF NodesInv
<1>1. PICK c \in Nodes!Links :
        /\ conn[c].state = "new" /\ \A d \in 1..(c - 1) : conn[d].state # "new"
        /\ conn' = [conn EXCEPT ![c] = [agent |-> a, state |-> "open", node |-> 0]]
        /\ using' = [using EXCEPT ![a] = c]
        /\ toRelay' = [toRelay EXCEPT ![c] = Append(@, Nodes!Msg("register", {}))]
  BY DEF Nodes!Connect, Nodes!Send
<1>2. /\ using[a] = 0
      /\ UNCHANGED <<named, nodeInst, toAgent, running, nodeSurf, nodeTabs, cards, starts, confirmed, released>>
  BY DEF Nodes!Connect
<1>3. /\ conn' \in [Nodes!Links -> [agent: 0..MaxAgents, state: States, node: 0..MaxInsts]]
      /\ conn'[c].agent = a /\ conn'[c].state = "open"
      /\ \A d \in Nodes!Links : d # c => conn'[d] = conn[d]
  BY <1>0, <1>1, NodeNumbers DEF NodesTypes, States, Nodes!NodeAgents
<1>4. /\ using' \in [Nodes!NodeAgents -> 0..MaxLinks] /\ using'[a] = c
      /\ \A b \in Nodes!NodeAgents : b # a => using'[b] = using[b]
  BY <1>0, <1>1, NodeNumbers DEF NodesTypes, Nodes!Links
<1>5. /\ toRelay' \in [Nodes!Links -> Seq(Messages)] /\ toRelay'[c] = <<Nodes!Msg("register", {})>>
      /\ \A d \in Nodes!Links : d # c => toRelay'[d] = toRelay[d]
  <2>1. toRelay[c] = <<>>
    BY <1>0, <1>1 DEF QueuesKnown, Told
  <2>2. Nodes!Msg("register", {}) \in Messages
    BY DEF Nodes!Msg, Messages
  <2>3. Append(toRelay[c], Nodes!Msg("register", {})) = <<Nodes!Msg("register", {})>>
    BY <2>1
  <2>4. <<Nodes!Msg("register", {})>> \in Seq(Messages)
    BY <2>2
  <2>5. toRelay' = [toRelay EXCEPT ![c] = <<Nodes!Msg("register", {})>>]
    BY <1>1, <2>3
  <2>6. QED
    BY <1>0, <2>4, <2>5 DEF NodesTypes
<1>6. NodesTypes'
  BY <1>0, <1>2, <1>3, <1>4, <1>5 DEF NodesTypes
<1>7. toAgent[c] = <<>>
  BY <1>0, <1>1 DEF QueuesKnown, Listens, Up
<1>8. Alive(a)' = Alive(a)
  <2>1. Spawned(c) = {}
    BY <1>7, NothingQueued DEF Spawned
  <2>2. Spawned(c)' = {}
    BY <1>2, <1>7, NothingQueued DEF Spawned
  <2>3. QED
    BY <1>2, <1>4, <2>2, NodeNumbers DEF Alive
<1>9. \A b \in Nodes!NodeAgents : Alive(b)' = Alive(b)
  BY <1>2, <1>4, <1>8 DEF Alive, Spawned
<1>10. \A d \in Nodes!Links : Opened(d) => d # c /\ conn'[d] = conn[d] /\ conn[d].agent \in Nodes!NodeAgents
  BY <1>0, <1>1, <1>3 DEF Opened, ConnsKnown
<1>11. AliveGrows
  BY <1>4, <1>9, <1>10 DEF AliveGrows
<1>12. \A d \in Nodes!Links : Opened(d) => d < c
  BY <1>0, <1>1, NodeNumbers DEF ConnsKnown, Opened, Nodes!Links
<1>13. ConnsKnown'
  <2>1. ASSUME NEW d \in Nodes!Links, Opened(d)'
        PROVE  /\ conn'[d].agent \in Nodes!NodeAgents
               /\ using'[conn'[d].agent] = 0 \/ d <= using'[conn'[d].agent]
               /\ \A e \in 1..(d - 1) : Opened(e)'
    <3>1. CASE d = c
      BY <1>1, <1>3, <1>4, <3>1, NodeNumbers DEF Opened, Nodes!Links
    <3>2. CASE d # c
      <4>1. Opened(d) /\ d < c /\ conn'[d] = conn[d]
        BY <1>3, <1>12, <2>1, <3>2 DEF Opened
      <4>2. \A e \in 1..(d - 1) : Opened(e) /\ e \in Nodes!Links /\ e # c
        BY <1>0, <4>1, NodeNumbers DEF ConnsKnown, Nodes!Links
      <4>3. \A e \in 1..(d - 1) : Opened(e)'
        BY <1>3, <4>2 DEF Opened
      <4>4. PICK b \in Nodes!NodeAgents : conn[d].agent = b
        BY <1>0, <4>1 DEF ConnsKnown
      <4>5. (using[b] = 0 \/ d <= using[b]) /\ d <= c
        BY <1>0, <4>1, <4>4, NodeNumbers DEF ConnsKnown, Nodes!Links
      <4>6. using'[b] = 0 \/ d <= using'[b]
        BY <1>4, <4>5
      <4>7. QED
        BY <4>1, <4>3, <4>4, <4>6
    <3>3. QED
      BY <3>1, <3>2
  <2>2. ASSUME NEW b \in Nodes!NodeAgents, using'[b] # 0
        PROVE  conn'[using'[b]].agent = b /\ conn'[using'[b]].state \in {"open", "registered"}
    <3>1. CASE b = a
      BY <1>3, <1>4, <3>1
    <3>2. CASE b # a
      <4>1. using[b] # 0 /\ using'[b] = using[b] /\ using[b] \in Nodes!Links
        BY <1>0, <1>4, <2>2, <3>2, NodeNumbers DEF NodesTypes, Nodes!Links
      <4>2. conn[using[b]].agent = b /\ conn[using[b]].state \in {"open", "registered"}
        BY <1>0, <4>1 DEF ConnsKnown
      <4>3. QED
        BY <1>3, <1>1, <4>1, <4>2
    <3>3. QED
      BY <3>1, <3>2
  <2>3. QED
    BY <2>1, <2>2 DEF ConnsKnown
<1>14. Onward
  BY <1>2, <1>11 DEF Onward, InstsGrow
<1>15. QueuesKnown'
  <2>1. ASSUME NEW d \in Nodes!Links PROVE Told(d)'
    <3>1. CASE d = c
      BY <1>3, <1>5, <3>1 DEF Told, Up
    <3>2. CASE d # c
      BY <1>3, <1>5, <1>14, <3>2, ToldStays
    <3>3. QED
      BY <3>1, <3>2
  <2>2. ASSUME NEW d \in Nodes!Links PROVE Listens(d)'
    <3>1. CASE toAgent[d] = <<>>
      BY <1>2, <1>14, <3>1, ListensStays
    <3>2. CASE toAgent[d] # <<>>
      <4>1. Up(d) /\ using[conn[d].agent] = d /\ conn[d].agent \in Nodes!NodeAgents /\ d # 0
        BY <1>0, <3>2, NodeNumbers DEF QueuesKnown, Listens, ConnsKnown, Up, Opened
      <4>2. d # c /\ conn[d].agent # a
        BY <1>1, <1>2, <4>1 DEF Up
      <4>3. Up(d)' /\ using'[conn[d].agent] = d
        BY <1>3, <1>4, <4>1, <4>2 DEF Up
      <4>4. QED
        BY <1>2, <1>14, <4>3, ListensStays
    <3>3. QED
      BY <3>1, <3>2
  <2>3. QED
    BY <2>1, <2>2 DEF QueuesKnown
<1>16. RunningOwned'
  BY <1>2 DEF NodesInv, RunningOwned, OwnedBy
<1>17. \A b \in named : Alive(b)' \subseteq Alive(b)
  BY <1>0, <1>9 DEF NodesTypes
<1>18. \A d \in Nodes!Links : Opened(d) => conn'[d] = conn[d]
  BY <1>10
<1>19. \A d \in Nodes!Links : Up(d)' <=> Up(d)
  BY <1>1, <1>3 DEF Up
<1>20. \A d \in Nodes!Links : conn'[d].state = "unregistered" <=> conn[d].state = "unregistered"
  BY <1>1, <1>3
<1>21. UNCHANGED <<named, nodeInst, nodeSurf, cards, released>>
  BY <1>2
<1>22. QED
  BY <1>6, <1>11, <1>13, <1>15, <1>16, <1>17, <1>18, <1>19, <1>20, <1>21, AgentStep

\* What an agent does while its connections stay as they are: it may give up
\* the one it uses, and no more is alive.
LEMMA AgentOnward ==
  ASSUME NodesInv, UNCHANGED <<named, nodeInst, conn>>,
         \A a \in Nodes!NodeAgents : using'[a] \in {0, using[a]},
         \A a \in named : Alive(a)' \subseteq Alive(a)
  PROVE  AliveGrows /\ Onward /\ ConnsKnown'
<1>1. AliveGrows
  <2> SUFFICES ASSUME NEW c \in Nodes!Links, Opened(c),
                      NEW a \in Nodes!NodeAgents, conn[c].agent = a
               PROVE  conn'[c].agent = a /\ (using[a] # c => using'[a] # c)
    BY DEF AliveGrows, NodesInv, ConnsKnown
  <2>1. c # 0
    BY NodeNumbers
  <2>2. QED
    BY <2>1
<1>2. ConnsKnown'
  <2>1. \A a \in Nodes!NodeAgents : using'[a] # 0 => using'[a] = using[a]
    OBVIOUS
  <2>2. \A c \in Nodes!Links : Opened(c)' <=> Opened(c)
    BY DEF Opened
  <2>3. QED
    BY <2>1, <2>2 DEF NodesInv, ConnsKnown, Opened
<1>3. QED
  BY <1>1, <1>2 DEF Onward, InstsGrow

LEMMA AgentActs ==
  ASSUME NodesInv, UNCHANGED <<named, nodeInst, conn, nodeSurf, cards, released>>,
         NodesTypes', QueuesKnown', RunningOwned',
         \A a \in Nodes!NodeAgents : using'[a] \in {0, using[a]},
         \A a \in named : Alive(a)' \subseteq Alive(a)
  PROVE  NodesInv'
  BY AgentOnward, AgentStep DEF Up, Opened

\* An agent sends a message over the connection it uses.
LEMMA SendKeeps ==
  ASSUME NodesInv, NEW a \in Nodes!NodeAgents, NEW c \in Nodes!Links, using[a] = c, Up(c),
         NEW m \in Messages, toRelay' = [toRelay EXCEPT ![c] = Append(@, m)],
         UNCHANGED <<named, nodeInst, conn>>, Fine(c, m)',
         \A b \in Nodes!NodeAgents : using'[b] \in {0, using[b]},
         \A b \in named : Alive(b)' \subseteq Alive(b)
  PROVE  /\ toRelay' \in [Nodes!Links -> Seq(Messages)]
         /\ \A d \in Nodes!Links : Told(d)'
<1>0. Onward /\ conn[c].agent = a /\ toRelay \in [Nodes!Links -> Seq(Messages)]
  <2>1. c # 0
    BY NodeNumbers
  <2>2. QED
    BY <2>1, AgentOnward DEF NodesInv, ConnsKnown, NodesTypes
<1>1. Append(toRelay[c], m) \in Seq(Messages)
  BY <1>0, Queued
<1>2. toRelay' \in [Nodes!Links -> Seq(Messages)] /\ \A d \in Nodes!Links : d # c => toRelay'[d] = toRelay[d]
  BY <1>0, <1>1
<1>3. ASSUME NEW d \in Nodes!Links PROVE Told(d)'
  <2>1. CASE d = c
    BY <1>0, <2>1, ToldMore
  <2>2. CASE d # c
    BY <1>0, <1>2, <2>2, ToldStays
  <2>3. QED
    BY <2>1, <2>2
<1>4. QED
  BY <1>2, <1>3

\* The messages for the agents stay, but that an agent gives up its connection.
LEMMA GivenUp ==
  ASSUME NodesInv, Onward, NEW a \in Nodes!NodeAgents, using[a] # 0, conn' = conn,
         toAgent' = [toAgent EXCEPT ![using[a]] = <<>>],
         \A b \in Nodes!NodeAgents : b # a => using'[b] = using[b] /\ running'[b] = running[b]
  PROVE  toAgent' \in [Nodes!Links -> Seq(Messages)] /\ \A c \in Nodes!Links : Listens(c)'
<1>0. using[a] \in Nodes!Links /\ toAgent \in [Nodes!Links -> Seq(Messages)]
  BY NodeNumbers DEF NodesInv, NodesTypes, Nodes!Links
<1>1. /\ toAgent' \in [Nodes!Links -> Seq(Messages)] /\ toAgent'[using[a]] = <<>>
      /\ \A c \in Nodes!Links : c # using[a] => toAgent'[c] = toAgent[c]
  BY <1>0, EmptySeq
<1>2. ASSUME NEW c \in Nodes!Links PROVE Listens(c)'
  <2>1. CASE c = using[a]
    BY <1>1, <2>1, NothingQueued DEF Listens
  <2>2. CASE c # using[a] /\ toAgent[c] = <<>>
    BY <1>1, <2>2, ListensStays
  <2>3. CASE c # using[a] /\ toAgent[c] # <<>>
    <3>1. Up(c) /\ using[conn[c].agent] = c
      BY <2>3 DEF NodesInv, QueuesKnown, Listens
    <3>2. conn[c].agent \in Nodes!NodeAgents /\ conn[c].agent # a
      BY <2>3, <3>1 DEF NodesInv, ConnsKnown, Up, Opened
    <3>3. QED
      BY <1>1, <2>3, <3>1, <3>2, ListensStays DEF Up
  <2>4. QED
    BY <2>1, <2>2, <2>3
<1>3. QED
  BY <1>1, <1>2

\* The connection is lost, and with it the shells of the program's own agent.
LEMMA LoseKeeps ==
  ASSUME NodesInv, NEW a \in Nodes!NodeAgents, Nodes!Lose(a)
  PROVE  NodesInv'
<1>0. NodesTypes /\ ConnsKnown /\ QueuesKnown /\ RunningOwned
  BY DEF NodesInv
<1>1. /\ using[a] # 0 /\ using' = [using EXCEPT ![a] = 0]
      /\ running' = [b \in Nodes!NodeAgents |-> IF b \in {a} \ named THEN {} ELSE running[b]]
      /\ toAgent' = [toAgent EXCEPT ![using[a]] = <<>>]
      /\ UNCHANGED <<named, nodeInst, conn, toRelay, nodeSurf, cards, released>>
  BY DEF Nodes!Lose, Nodes!Lost
<1>2. /\ using' \in [Nodes!NodeAgents -> 0..MaxLinks] /\ using'[a] = 0
      /\ \A b \in Nodes!NodeAgents : b # a => using'[b] = using[b]
  BY <1>0, <1>1, NodeNumbers DEF NodesTypes
<1>3. /\ running' \in [Nodes!NodeAgents -> SUBSET Nodes!NodeIds] /\ running'[a] \subseteq running[a]
      /\ \A b \in Nodes!NodeAgents : b # a => running'[b] = running[b]
  BY <1>0, <1>1 DEF NodesTypes
<1>4. using[a] \in Nodes!Links
  BY <1>0, <1>1, NodeNumbers DEF NodesTypes, Nodes!Links
<1>5. ASSUME NEW b \in Nodes!NodeAgents PROVE Alive(b)' \subseteq Alive(b)
  <2>1. CASE b = a
    BY <1>2, <1>3, <2>1 DEF Alive
  <2>2. CASE b # a
    <3>1. using[b] # 0 => using[b] # using[a]
      BY <1>0, <1>1, <2>2 DEF ConnsKnown
    <3>2. using[b] # 0 => Spawned(using[b])' = Spawned(using[b])
      BY <1>0, <1>1, <1>2, <2>2, <3>1, NodeNumbers DEF Spawned, NodesTypes, Nodes!Links
    <3>3. QED
      BY <1>2, <1>3, <2>2, <3>2 DEF Alive
  <2>3. QED
    BY <2>1, <2>2
<1>6. \A b \in named : Alive(b)' \subseteq Alive(b)
  BY <1>0, <1>5 DEF NodesTypes
<1>7. \A b \in Nodes!NodeAgents : using'[b] \in {0, using[b]}
  BY <1>2
<1>8. Onward
  BY <1>1, <1>6, <1>7, AgentOnward
<1>9. toAgent' \in [Nodes!Links -> Seq(Messages)] /\ \A c \in Nodes!Links : Listens(c)'
  BY <1>1, <1>2, <1>3, <1>8, GivenUp
<1>10. \A c \in Nodes!Links : Told(c)'
  BY <1>1, <1>8, ToldStays
<1>11. QueuesKnown'
  BY <1>9, <1>10 DEF QueuesKnown
<1>12. RunningOwned'
  BY <1>0, <1>1, <1>3 DEF RunningOwned, OwnedBy
<1>13. NodesTypes'
  BY <1>0, <1>1, <1>2, <1>3, <1>9 DEF NodesTypes
<1>14. QED
  BY <1>1, <1>6, <1>7, <1>11, <1>12, <1>13, AgentActs

\* An agent hears that it is to report, or that a process runs.
LEMMA AgentReceivesKeeps ==
  ASSUME NodesInv, NEW c \in Nodes!Links, Nodes!AgentReceives(c)
  PROVE  NodesInv'
<1>0. NodesTypes /\ ConnsKnown /\ QueuesKnown /\ RunningOwned
  BY DEF NodesInv
<1>1. toAgent[c] # <<>> /\ toAgent[c] \in Seq(Messages) /\ Listens(c) /\ Up(c)
  BY <1>0 DEF Nodes!AgentReceives, NodesTypes, QueuesKnown, Listens
<1>2. PICK a \in Nodes!NodeAgents : conn[c].agent = a /\ using[a] = c
  BY <1>0, <1>1 DEF Listens, ConnsKnown, Up, Opened
<1>3. PICK m \in Messages : m = Head(toAgent[c])
  BY <1>1, Unqueued
<1>4. /\ toAgent' = [toAgent EXCEPT ![c] = Tail(@)]
      /\ UNCHANGED <<named, nodeInst, conn, using, nodeSurf, cards, released>>
  BY DEF Nodes!AgentReceives
<1>5. /\ Tail(toAgent[c]) \in Seq(Messages) /\ Len(toAgent[c]) \in Nat /\ 1 \in 1..Len(toAgent[c]) /\ m = toAgent[c][1]
      /\ \A j \in 1..Len(Tail(toAgent[c])) : /\ j + 1 \in 1..Len(toAgent[c]) /\ j + 1 # 1
                                             /\ Tail(toAgent[c])[j] = toAgent[c][j + 1]
  BY <1>1, <1>3, Unqueued
<1>6. /\ toAgent' \in [Nodes!Links -> Seq(Messages)] /\ toAgent'[c] = Tail(toAgent[c])
      /\ \A d \in Nodes!Links : d # c => toAgent'[d] = toAgent[d]
  BY <1>0, <1>4, <1>5 DEF NodesTypes
<1>7. Heard(a, m) /\ c # 0
  BY <1>1, <1>2, <1>5, NodeNumbers DEF Listens
<1>8. Spawned(c)' \subseteq Spawned(c) /\ m.procs \subseteq Spawned(c)
  <2>1. \A j \in 1..Len(toAgent'[c]) : \E k \in 1..Len(toAgent[c]) : toAgent'[c][j] = toAgent[c][k]
    BY <1>5, <1>6
  <2>2. Spawned(c)' \subseteq Spawned(c)
    BY <2>1 DEF Spawned
  <2>3. m.procs \subseteq Spawned(c)
    BY <1>5 DEF Spawned
  <2>4. QED
    BY <2>2, <2>3
<1>9. \A b \in Nodes!NodeAgents : b # a /\ using[b] # 0 => using[b] \in Nodes!Links /\ using[b] # c
  <2>1. \A b \in Nodes!NodeAgents : using[b] # 0 => conn[using[b]].agent = b
    BY <1>0 DEF ConnsKnown
  <2>2. \A b \in Nodes!NodeAgents : using[b] # 0 => using[b] \in Nodes!Links
    BY <1>0, NodeNumbers DEF NodesTypes, Nodes!Links
  <2>3. QED
    BY <1>2, <2>1, <2>2
<1>10. \A b \in Nodes!NodeAgents : b # a /\ using[b] # 0 => Spawned(using[b])' = Spawned(using[b])
  BY <1>4, <1>6, <1>9 DEF Spawned
<1> DEFINE now == IF a \in named THEN running[a] ELSE {-a}
<1>11. \/ /\ m.type = "request" /\ running' = [running EXCEPT ![a] = now]
          /\ toRelay' = [toRelay EXCEPT ![c] = Append(@, Nodes!Msg("report", now))]
       \/ /\ m.type = "spawned" /\ running' = [running EXCEPT ![a] = @ \cup m.procs] /\ toRelay' = toRelay
  <2>1. m.type \in {"request", "spawned"}
    BY <1>7 DEF Heard
  <2>2. CASE m.type = "request"
    BY <1>2, <1>3, <2>2 DEF Nodes!AgentReceives, Nodes!Send
  <2>3. CASE m.type = "spawned"
    BY <1>2, <1>3, <2>3 DEF Nodes!AgentReceives, Nodes!Send
  <2>4. QED
    BY <2>1, <2>2, <2>3
<1>12. now \subseteq Nodes!NodeIds /\ running[a] \subseteq Nodes!NodeIds
  BY <1>0, NodeNumbers DEF NodesTypes
<1>13. m.procs \subseteq Nodes!NodeIds
  BY DEF Messages
<1>14. ASSUME NEW now2 \in SUBSET Nodes!NodeIds, running' = [running EXCEPT ![a] = now2]
       PROVE  /\ running' \in [Nodes!NodeAgents -> SUBSET Nodes!NodeIds] /\ running'[a] = now2
              /\ \A b \in Nodes!NodeAgents : b # a => running'[b] = running[b]
  BY <1>0, <1>14 DEF NodesTypes
<1>15. \A p \in now : OwnedBy(a, p)
  BY <1>0 DEF RunningOwned, OwnedBy
<1>16. /\ running' \in [Nodes!NodeAgents -> SUBSET Nodes!NodeIds]
       /\ running'[a] = IF m.type = "request" THEN now ELSE running[a] \cup m.procs
       /\ \A b \in Nodes!NodeAgents : b # a => running'[b] = running[b]
  <2>1. CASE m.type = "request"
    <3>1. running' = [running EXCEPT ![a] = now]
      BY <1>11, <2>1
    <3>2. QED
      BY <1>12, <1>14, <2>1, <3>1
  <2>2. CASE m.type # "request"
    <3>1. running' = [running EXCEPT ![a] = running[a] \cup m.procs]
      BY <1>11, <2>2
    <3>2. running[a] \cup m.procs \in SUBSET Nodes!NodeIds
      BY <1>12, <1>13
    <3>3. QED
      BY <1>14, <2>2, <3>1, <3>2
  <2>3. QED
    BY <2>1, <2>2
<1>17. /\ \A p \in running'[a] : OwnedBy(a, p)
       /\ a \in named => running'[a] \subseteq running[a] \cup m.procs
  BY <1>0, <1>7, <1>15, <1>16 DEF RunningOwned, Heard
<1> HIDE DEF now
<1>18. \A b \in named : Alive(b)' \subseteq Alive(b)
  <2> SUFFICES ASSUME NEW b \in named PROVE Alive(b)' \subseteq Alive(b)
    OBVIOUS
  <2>1. b \in Nodes!NodeAgents
    BY <1>0 DEF NodesTypes
  <2>2. CASE b = a
    BY <1>2, <1>4, <1>7, <1>8, <1>17, <2>2 DEF Alive
  <2>3. CASE b # a
    BY <1>4, <1>10, <1>16, <2>1, <2>3 DEF Alive
  <2>4. QED
    BY <2>2, <2>3
<1>19. \A b \in Nodes!NodeAgents : using'[b] \in {0, using[b]}
  BY <1>4
<1>20. Onward
  BY <1>4, <1>18, <1>19, AgentOnward
<1>21. RunningOwned'
  BY <1>0, <1>4, <1>16, <1>17 DEF RunningOwned, OwnedBy
<1>22. /\ toRelay' \in [Nodes!Links -> Seq(Messages)]
       /\ \A d \in Nodes!Links : Told(d)'
  <2>1. CASE m.type = "request"
    <3>1. PICK r \in Messages : r = Nodes!Msg("report", now)
      BY <1>12 DEF Nodes!Msg, Messages
    <3>2. toRelay' = [toRelay EXCEPT ![c] = Append(@, r)]
      BY <1>11, <2>1, <3>1
    <3>3. a \in named => \A p \in now : nodeInst[p].conn <= c
      <4> SUFFICES ASSUME a \in named, NEW p \in now PROVE nodeInst[p].conn <= c
        OBVIOUS
      <4>1. p \in Nodes!InstIds /\ nodeInst[p].agent = a /\ a # 0
        BY <1>15, NodeNumbers DEF OwnedBy
      <4>2. nodeInst[p].conn \in Nodes!Links /\ Opened(nodeInst[p].conn) /\ conn[nodeInst[p].conn].agent = a
        BY <4>1 DEF NodesInv, InstsKnown
      <4>3. QED
        BY <1>0, <1>2, <1>7, <4>2 DEF ConnsKnown
    <3>4. Fine(c, r)'
      <4>1. r.type = "report" /\ r.procs = now
        BY <3>1 DEF Nodes!Msg
      <4>2. \A p \in r.procs : OwnedBy(a, p)' /\ (a \in named => nodeInst'[p].conn <= c)
        BY <1>4, <1>15, <3>3, <4>1 DEF OwnedBy
      <4>3. QED
        BY <1>2, <1>4, <4>1, <4>2 DEF Fine
    <3>5. QED
      BY <1>1, <1>2, <1>4, <1>18, <1>19, <3>2, <3>4, SendKeeps
  <2>2. CASE m.type # "request"
    <3>1. toRelay' = toRelay
      BY <1>11, <2>2
    <3>2. QED
      BY <1>0, <1>4, <1>20, <3>1, ToldStays DEF NodesTypes
  <2>3. QED
    BY <2>1, <2>2
<1>23. \A d \in Nodes!Links : Listens(d)'
  <2> SUFFICES ASSUME NEW d \in Nodes!Links PROVE Listens(d)'
    OBVIOUS
  <2>1. CASE d # c /\ toAgent[d] = <<>>
    BY <1>6, <1>20, <2>1, ListensStays
  <2>2. CASE d # c /\ toAgent[d] # <<>>
    <3>1. Up(d) /\ using[conn[d].agent] = d
      BY <1>0, <2>2 DEF QueuesKnown, Listens
    <3>2. conn[d].agent \in Nodes!NodeAgents /\ conn[d].agent # a
      BY <1>0, <1>2, <2>2, <3>1 DEF ConnsKnown, Up, Opened
    <3>3. QED
      BY <1>4, <1>6, <1>16, <1>20, <2>2, <3>1, <3>2, ListensStays DEF Up
  <2>3. CASE d = c
    <3>1. \A j \in 1..Len(toAgent'[c]) : \E k \in 1..Len(toAgent[c]) :
            k = j + 1 /\ toAgent'[c][j] = toAgent[c][k] /\ m.procs \cap toAgent[c][k].procs = {}
      BY <1>1, <1>5, <1>6 DEF Listens
    <3>2. \A n : Heard(a, n) /\ m.procs \cap n.procs = {} => Heard(a, n)'
      <4> SUFFICES ASSUME NEW n, Heard(a, n), m.procs \cap n.procs = {} PROVE Heard(a, n)'
        OBVIOUS
      <4>1. \A p \in n.procs : OwnedBy(a, p)' /\ p \notin running[a] /\ p \notin m.procs
        BY <1>4 DEF Heard, OwnedBy
      <4>2. a \notin named => n.procs = {}
        BY DEF Heard
      <4>3. QED
        BY <1>4, <1>17, <4>1, <4>2 DEF Heard
    <3>3. \A j \in 1..Len(toAgent'[c]) : \E n : n = toAgent'[c][j] /\ Heard(a, n)'
      BY <1>1, <1>2, <3>1, <3>2 DEF Listens
    <3>4. \A j, k \in 1..Len(toAgent'[c]) : j # k => toAgent'[c][j].procs \cap toAgent'[c][k].procs = {}
      BY <1>1, <3>1, SMTT(30) DEF Listens
    <3>5. QED
      BY <1>1, <1>2, <1>4, <2>3, <3>3, <3>4 DEF Listens, Up
  <2>4. QED
    BY <2>1, <2>2, <2>3
<1>24. NodesTypes'
  BY <1>0, <1>4, <1>6, <1>16, <1>22 DEF NodesTypes
<1>25. QueuesKnown'
  BY <1>22, <1>23 DEF QueuesKnown
<1>26. QED
  BY <1>4, <1>18, <1>19, <1>21, <1>24, <1>25, AgentActs

\* An agent asks for a process.
LEMMA AskSpawnKeeps ==
  ASSUME NodesInv, NEW a \in Nodes!NodeAgents, Nodes!AskSpawn(a)
  PROVE  NodesInv'
<1>0. NodesTypes /\ ConnsKnown /\ QueuesKnown /\ RunningOwned
  BY DEF NodesInv
<1>1. PICK m \in Messages : m = Nodes!Msg("spawn", {})
  BY DEF Nodes!Msg, Messages
<1>2. PICK c \in Nodes!Links : using[a] = c
  BY <1>0, NodeNumbers DEF Nodes!AskSpawn, NodesTypes, Nodes!Links
<1>3. /\ a \in named /\ Up(c) /\ toRelay' = [toRelay EXCEPT ![c] = Append(@, m)]
      /\ UNCHANGED <<named, nodeInst, conn, using, toAgent, running, nodeSurf, cards, released>>
  BY <1>1, <1>2 DEF Nodes!AskSpawn, Nodes!Send, Up
<1>4. conn[c].agent = a
  BY <1>0, <1>2, NodeNumbers DEF ConnsKnown
<1>5. Fine(c, m)'
  BY <1>1, <1>3, <1>4 DEF Fine, Nodes!Msg
<1>6. /\ \A b \in Nodes!NodeAgents : using'[b] \in {0, using[b]}
      /\ \A b \in named : Alive(b)' \subseteq Alive(b)
  BY <1>3 DEF Alive, Spawned
<1>7. /\ toRelay' \in [Nodes!Links -> Seq(Messages)]
      /\ \A d \in Nodes!Links : Told(d)'
  BY <1>2, <1>3, <1>5, <1>6, SendKeeps
<1>8. \A d \in Nodes!Links : Listens(d)'
  BY <1>0, <1>3 DEF QueuesKnown, Listens, Heard, Up, OwnedBy
<1>9. NodesTypes' /\ QueuesKnown' /\ RunningOwned'
  BY <1>0, <1>3, <1>7, <1>8 DEF NodesTypes, QueuesKnown, RunningOwned, OwnedBy
<1>10. QED
  BY <1>3, <1>6, <1>9, AgentActs

\* A process exits, and the agent says so if it can.
LEMMA ProcessExitsKeeps ==
  ASSUME NodesInv, NEW a \in Nodes!NodeAgents, NEW p \in Nodes!InstIds, Nodes!ProcessExits(a, p)
  PROVE  NodesInv'
<1>0. NodesTypes /\ ConnsKnown /\ QueuesKnown /\ RunningOwned
  BY DEF NodesInv
<1>1. /\ a \in named /\ p \in running[a] /\ running' = [running EXCEPT ![a] = @ \ {p}]
      /\ UNCHANGED <<named, nodeInst, conn, using, toAgent, nodeSurf, cards, released>>
  BY DEF Nodes!ProcessExits
<1>2. /\ running' \in [Nodes!NodeAgents -> SUBSET Nodes!NodeIds] /\ running'[a] = running[a] \ {p}
      /\ \A b \in Nodes!NodeAgents : b # a => running'[b] = running[b]
  BY <1>0, <1>1 DEF NodesTypes
<1>3. \A c \in Nodes!Links : Spawned(c)' = Spawned(c)
  BY <1>1 DEF Spawned
<1>4. \A b \in Nodes!NodeAgents : running'[b] \subseteq running[b]
  BY <1>2
<1>5. \A b \in named : Alive(b)' \subseteq Alive(b)
  <2> SUFFICES ASSUME NEW b \in named PROVE Alive(b)' \subseteq Alive(b)
    OBVIOUS
  <2>1. b \in Nodes!NodeAgents
    BY <1>0 DEF NodesTypes
  <2>2. Alive(b)' = running'[b] \cup IF using[b] = 0 THEN {} ELSE Spawned(using[b])
    BY <1>1 DEF Alive, Spawned
  <2>3. QED
    BY <1>4, <2>1, <2>2 DEF Alive
<1>6. \A b \in Nodes!NodeAgents : using'[b] \in {0, using[b]}
  BY <1>1
<1>7. Onward
  BY <1>1, <1>5, <1>6, AgentOnward
<1>8. \A d \in Nodes!Links : Listens(d)'
  <2> SUFFICES ASSUME NEW d \in Nodes!Links PROVE Listens(d)'
    OBVIOUS
  <2>1. toAgent[d] # <<>> => Up(d) /\ using[conn[d].agent] = d /\ conn[d].agent \in Nodes!NodeAgents
    BY <1>0 DEF QueuesKnown, Listens, ConnsKnown, Up, Opened
  <2>2. QED
    BY <1>1, <1>4, <1>7, <2>1, ListensStays DEF Up
<1>9. OwnedBy(a, p)
  BY <1>0, <1>1 DEF RunningOwned
<1>10. /\ toRelay' \in [Nodes!Links -> Seq(Messages)]
       /\ \A d \in Nodes!Links : Told(d)'
  <2>1. CASE using[a] # 0 /\ conn[using[a]].state = "registered"
    <3>1. PICK m \in Messages : m = Nodes!Msg("exit", {p})
      BY NodeNumbers DEF Nodes!Msg, Messages
    <3>2. PICK c \in Nodes!Links : using[a] = c
      BY <1>0, <2>1, NodeNumbers DEF NodesTypes, Nodes!Links
    <3>3. Up(c) /\ toRelay' = [toRelay EXCEPT ![c] = Append(@, m)] /\ c # 0
      BY <2>1, <3>1, <3>2, NodeNumbers DEF Nodes!ProcessExits, Nodes!Send, Up
    <3>4. conn[c].agent = a
      BY <1>0, <3>2, <3>3 DEF ConnsKnown
    <3>5. p \notin Spawned(c)
      <4> SUFFICES ASSUME NEW j \in 1..Len(toAgent[c]), p \in toAgent[c][j].procs PROVE FALSE
        BY DEF Spawned
      <4>1. Heard(a, toAgent[c][j])
        BY <1>0, <3>4 DEF QueuesKnown, Listens
      <4>2. QED
        BY <1>1, <4>1 DEF Heard
    <3>6. p \notin Alive(a)'
      <4>1. Alive(a)' = running'[a] \cup IF using[a] = 0 THEN {} ELSE Spawned(using[a])
        BY <1>1 DEF Alive, Spawned
      <4>2. QED
        BY <1>2, <3>2, <3>5, <4>1
    <3>7. nodeInst[p].conn <= c
      <4>1. nodeInst[p].agent = a /\ a # 0
        BY <1>1, <1>9, NodeNumbers DEF OwnedBy
      <4>2. nodeInst[p].conn \in Nodes!Links /\ Opened(nodeInst[p].conn) /\ conn[nodeInst[p].conn].agent = a
        BY <4>1 DEF NodesInv, InstsKnown
      <4>3. QED
        BY <1>0, <3>2, <3>3, <4>2 DEF ConnsKnown
    <3>8. Fine(c, m)'
      <4>1. m.type = "exit" /\ m.procs = {p} /\ p \in Nodes!NodeIds
        BY <3>1, NodeNumbers DEF Nodes!Msg
      <4>2. OwnedBy(a, p)' /\ nodeInst'[p].conn <= c
        BY <1>1, <1>9, <3>7 DEF OwnedBy
      <4>3. QED
        BY <1>1, <3>4, <3>6, <4>1, <4>2 DEF Fine
    <3>9. QED
      BY <1>1, <1>5, <1>6, <3>2, <3>3, <3>8, SendKeeps
  <2>2. CASE ~(using[a] # 0 /\ conn[using[a]].state = "registered")
    <3>1. toRelay' = toRelay
      BY <2>2 DEF Nodes!ProcessExits
    <3>2. QED
      BY <1>0, <1>1, <1>7, <3>1, ToldStays DEF NodesTypes
  <2>3. QED
    BY <2>1, <2>2
<1>11. RunningOwned'
  BY <1>0, <1>1, <1>4 DEF RunningOwned, OwnedBy
<1>12. NodesTypes' /\ QueuesKnown'
  BY <1>0, <1>1, <1>2, <1>8, <1>10 DEF NodesTypes, QueuesKnown
<1>13. QED
  BY <1>1, <1>5, <1>6, <1>11, <1>12, AgentActs

\* An agent says goodbye: all its processes end.
LEMMA UnregisterKeeps ==
  ASSUME NodesInv, NEW a \in Nodes!NodeAgents, Nodes!Unregister(a)
  PROVE  NodesInv'
<1>0. NodesTypes /\ ConnsKnown /\ QueuesKnown /\ RunningOwned
  BY DEF NodesInv
<1>1. PICK m \in Messages : m = Nodes!Msg("unregister", {})
  BY DEF Nodes!Msg, Messages
<1>2. PICK c \in Nodes!Links : using[a] = c /\ c # 0
  BY <1>0, NodeNumbers DEF Nodes!Unregister, NodesTypes, Nodes!Links
<1>3. /\ a \in named /\ Up(c) /\ toRelay' = [toRelay EXCEPT ![c] = Append(@, m)]
      /\ running' = [running EXCEPT ![a] = {}] /\ using' = [using EXCEPT ![a] = 0]
      /\ toAgent' = [toAgent EXCEPT ![using[a]] = <<>>]
      /\ UNCHANGED <<named, nodeInst, conn, nodeSurf, cards, released>>
  BY <1>1, <1>2 DEF Nodes!Unregister, Nodes!Send, Up
<1>4. conn[c].agent = a
  BY <1>0, <1>2 DEF ConnsKnown
<1>5. /\ using' \in [Nodes!NodeAgents -> 0..MaxLinks] /\ using'[a] = 0
      /\ \A b \in Nodes!NodeAgents : b # a => using'[b] = using[b]
  BY <1>0, <1>3, NodeNumbers DEF NodesTypes
<1>6. /\ running' \in [Nodes!NodeAgents -> SUBSET Nodes!NodeIds] /\ running'[a] = {}
      /\ \A b \in Nodes!NodeAgents : b # a => running'[b] = running[b]
  BY <1>0, <1>3 DEF NodesTypes
<1>7. Alive(a)' = {}
  BY <1>5, <1>6 DEF Alive
<1>8. ASSUME NEW b \in Nodes!NodeAgents PROVE Alive(b)' \subseteq Alive(b)
  <2>1. CASE b = a
    BY <1>7, <2>1
  <2>2. CASE b # a
    <3>1. using[b] # 0 => using[b] # c
      BY <1>0, <1>4, <2>2 DEF ConnsKnown
    <3>2. using[b] # 0 => Spawned(using[b])' = Spawned(using[b])
      BY <1>0, <1>2, <1>3, <1>5, <2>2, <3>1, NodeNumbers DEF Spawned, NodesTypes, Nodes!Links
    <3>3. QED
      BY <1>5, <1>6, <2>2, <3>2 DEF Alive
  <2>3. QED
    BY <2>1, <2>2
<1>9. \A b \in named : Alive(b)' \subseteq Alive(b)
  BY <1>0, <1>8 DEF NodesTypes
<1>10. \A b \in Nodes!NodeAgents : using'[b] \in {0, using[b]}
  BY <1>5
<1>11. Onward
  BY <1>3, <1>9, <1>10, AgentOnward
<1>12. Fine(c, m)'
  BY <1>1, <1>2, <1>3, <1>4, <1>5, <1>7 DEF Fine, Nodes!Msg
<1>13. /\ toRelay' \in [Nodes!Links -> Seq(Messages)]
       /\ \A d \in Nodes!Links : Told(d)'
  BY <1>2, <1>3, <1>9, <1>10, <1>12, SendKeeps
<1>14. toAgent' \in [Nodes!Links -> Seq(Messages)] /\ \A d \in Nodes!Links : Listens(d)'
  BY <1>2, <1>3, <1>5, <1>6, <1>11, GivenUp
<1>15. RunningOwned'
  BY <1>0, <1>3, <1>6 DEF RunningOwned, OwnedBy
<1>16. NodesTypes' /\ QueuesKnown'
  BY <1>0, <1>3, <1>5, <1>6, <1>13, <1>14 DEF NodesTypes, QueuesKnown
<1>17. QED
  BY <1>3, <1>9, <1>10, <1>15, <1>16, AgentActs

-----------------------------------------------------------------------------
\* What the relay does leaves what the agents run and use.
LEMMA RelayStep ==
  ASSUME NodesInv, Onward, UNCHANGED <<using, running>>,
         NodesTypes', InstsKnown', QueuesKnown', AliveShown', SurfKnown', Nodes!PeersTrue',
         \A c \in Nodes!Links : Opened(c)' <=> Opened(c),
         \A a \in Nodes!NodeAgents : using[a] # 0 => conn'[using[a]].state \in {"open", "registered"}
  PROVE  NodesInv'
<1>0. NodesTypes /\ ConnsKnown /\ RunningOwned
  BY DEF NodesInv
<1>1. \A c \in Nodes!Links : Opened(c) => conn'[c].agent = conn[c].agent
  BY DEF Onward, AliveGrows
<1>2. \A a \in Nodes!NodeAgents : using[a] # 0 => using[a] \in Nodes!Links /\ Opened(using[a])
  BY <1>0, UsedLink
<1>3. ConnsKnown'
  <2>1. ASSUME NEW c \in Nodes!Links, Opened(c)'
        PROVE  /\ conn'[c].agent \in Nodes!NodeAgents
               /\ using'[conn'[c].agent] = 0 \/ c <= using'[conn'[c].agent]
               /\ \A d \in 1..(c - 1) : Opened(d)'
    <3>1. Opened(c) /\ \A d \in 1..(c - 1) : Opened(d) /\ d \in Nodes!Links
      BY <1>0, <2>1, NodeNumbers DEF ConnsKnown, Nodes!Links
    <3>2. QED
      BY <1>0, <1>1, <3>1 DEF ConnsKnown
  <2>2. ASSUME NEW a \in Nodes!NodeAgents, using'[a] # 0
        PROVE  conn'[using'[a]].agent = a /\ conn'[using'[a]].state \in {"open", "registered"}
    BY <1>0, <1>1, <1>2, <2>2 DEF ConnsKnown
  <2>3. QED
    BY <2>1, <2>2 DEF ConnsKnown
<1>4. RunningOwned'
  BY <1>0, OwnedKeeps DEF RunningOwned
<1>5. QED
  BY <1>3, <1>4 DEF NodesInv

\* The first message of a queue
LEMMA FirstTold ==
  ASSUME NodesInv, NEW c \in Nodes!Links, toRelay[c] # <<>>
  PROVE  /\ Head(toRelay[c]) \in Messages /\ Tail(toRelay[c]) \in Seq(Messages)
         /\ conn[c].agent \in Nodes!NodeAgents /\ Opened(c)
         /\ \/ /\ conn[c].state = "open" /\ Head(toRelay[c]) = Nodes!Msg("register", {})
               /\ Tail(toRelay[c]) = <<>>
            \/ /\ Up(c) /\ Fine(c, Head(toRelay[c]))
               /\ Head(toRelay[c]).type = "unregister" => Tail(toRelay[c]) = <<>>
<1>0. NodesTypes /\ ConnsKnown /\ Told(c) /\ toRelay[c] \in Seq(Messages)
  BY DEF NodesInv, NodesTypes, QueuesKnown
<1>1. /\ Head(toRelay[c]) \in Messages /\ Head(toRelay[c]) = toRelay[c][1] /\ 1 \in 1..Len(toRelay[c])
      /\ Tail(toRelay[c]) \in Seq(Messages) /\ Len(Tail(toRelay[c])) = Len(toRelay[c]) - 1
  BY <1>0, Unqueued
<1>2. conn[c].state \in States /\ conn[c].state \notin {"new", "unregistered", "closed"}
  BY <1>0 DEF Told, NodesTypes
<1>3. Opened(c) /\ conn[c].agent \in Nodes!NodeAgents
  BY <1>0, <1>2 DEF Opened, ConnsKnown
<1>4. CASE conn[c].state = "open"
  <2>1. toRelay[c] = <<Nodes!Msg("register", {})>>
    BY <1>0, <1>4 DEF Told
  <2>2. Tail(toRelay[c]) = <<>> /\ Head(toRelay[c]) = Nodes!Msg("register", {})
    BY <2>1
  <2>3. QED
    BY <1>1, <1>3, <1>4, <2>2
<1>5. CASE Up(c)
  <2>1. Fine(c, Head(toRelay[c]))
    BY <1>0, <1>1, <1>5 DEF Told
  <2>2. ASSUME Head(toRelay[c]).type = "unregister" PROVE Tail(toRelay[c]) = <<>>
    <3>1. Len(toRelay[c]) = 1
      BY <1>0, <1>1, <1>5, <2>2 DEF Told
    <3>2. Len(Tail(toRelay[c])) = 0
      BY <1>1, <3>1
    <3>3. QED
      BY <1>1, <3>2, EmptySeq
  <2>3. QED
    BY <1>1, <1>3, <1>5, <2>1, <2>2
<1>6. QED
  BY <1>2, <1>4, <1>5 DEF States, Up

\* The relay has read the first message of c, whose state may have changed.
LEMMA ReadTold ==
  ASSUME NodesInv, Onward, NEW c \in Nodes!Links, toRelay[c] # <<>>,
         toRelay' = [toRelay EXCEPT ![c] = Tail(@)],
         \A d \in Nodes!Links : d # c => conn'[d].state = conn[d].state,
         \/ conn'[c].state = conn[c].state /\ Up(c)
         \/ conn'[c].state \in {"registered", "unregistered"} /\ Tail(toRelay[c]) = <<>>
  PROVE  /\ toRelay' \in [Nodes!Links -> Seq(Messages)]
         /\ \A d \in Nodes!Links : Told(d)'
<1>0. toRelay \in [Nodes!Links -> Seq(Messages)] /\ Tail(toRelay[c]) \in Seq(Messages)
  BY FirstTold DEF NodesInv, NodesTypes
<1>1. /\ toRelay' \in [Nodes!Links -> Seq(Messages)] /\ toRelay'[c] = Tail(toRelay[c])
      /\ \A d \in Nodes!Links : d # c => toRelay'[d] = toRelay[d]
  BY <1>0
<1>2. ASSUME NEW d \in Nodes!Links PROVE Told(d)'
  <2>1. CASE d # c
    BY <1>1, <2>1, ToldStays
  <2>2. CASE d = c /\ conn'[c].state = conn[c].state /\ Up(c)
    BY <1>1, <2>2, ToldLess
  <2>3. CASE d = c /\ conn'[c].state \in {"registered", "unregistered"} /\ Tail(toRelay[c]) = <<>>
    BY <1>1, <2>3, NothingQueued DEF Told
  <2>4. QED
    BY <2>1, <2>2, <2>3
<1>3. QED
  BY <1>1, <1>2

\* The relay tells the agent of a connection something, if it is still there.
LEMMA TellsTypes ==
  ASSUME NodesInv, NEW c \in Nodes!Links, Opened(c), NEW a \in Nodes!NodeAgents, conn[c].agent = a,
         NEW m \in Messages,
         using[a] = c => toAgent' = [toAgent EXCEPT ![c] = Append(@, m)], using[a] # c => toAgent' = toAgent,
         UNCHANGED <<using, running>>
  PROVE  /\ toAgent' \in [Nodes!Links -> Seq(Messages)]
         /\ \A b \in Nodes!NodeAgents : \A p \in Alive(b)' :
              p \in Alive(b) \/ (b = a /\ using[a] = c /\ p \in m.procs)
         /\ using[a] = c => m.procs \subseteq Alive(a)'
<1>0. NodesTypes /\ ConnsKnown /\ toAgent[c] \in Seq(Messages) /\ toAgent \in [Nodes!Links -> Seq(Messages)]
  BY DEF NodesInv, NodesTypes
<1>1. /\ Append(toAgent[c], m) \in Seq(Messages) /\ Len(Append(toAgent[c], m)) \in 1..Len(Append(toAgent[c], m))
      /\ \A j \in 1..Len(Append(toAgent[c], m)) :
           (j \in 1..Len(toAgent[c]) /\ Append(toAgent[c], m)[j] = toAgent[c][j]) \/ Append(toAgent[c], m)[j] = m
      /\ Append(toAgent[c], m)[Len(Append(toAgent[c], m))] = m
  BY <1>0, Queued
<1>2. /\ toAgent' \in [Nodes!Links -> Seq(Messages)]
      /\ toAgent'[c] = IF using[a] = c THEN Append(toAgent[c], m) ELSE toAgent[c]
      /\ \A d \in Nodes!Links : d # c => toAgent'[d] = toAgent[d]
  BY <1>0, <1>1
<1>3. \A d \in Nodes!Links : \A p \in Spawned(d)' :
        p \in Spawned(d) \/ (d = c /\ using[a] = c /\ p \in m.procs)
  <2> SUFFICES ASSUME NEW d \in Nodes!Links, NEW p, NEW j \in 1..Len(toAgent'[d]), p \in toAgent'[d][j].procs
               PROVE  p \in Spawned(d) \/ (d = c /\ using[a] = c /\ p \in m.procs)
    BY DEF Spawned
  <2>1. CASE d # c \/ using[a] # c
    BY <1>2, <2>1 DEF Spawned
  <2>2. CASE d = c /\ using[a] = c
    BY <1>1, <1>2, <2>2 DEF Spawned
  <2>3. QED
    BY <2>1, <2>2
<1>4. \A b \in Nodes!NodeAgents : using[b] # 0 => using[b] \in Nodes!Links /\ conn[using[b]].agent = b
  BY <1>0, UsedLink
<1>5. ASSUME NEW b \in Nodes!NodeAgents, NEW p \in Alive(b)'
      PROVE  p \in Alive(b) \/ (b = a /\ using[a] = c /\ p \in m.procs)
  <2>1. p \in running[b] \/ (using[b] # 0 /\ p \in Spawned(using[b])')
    BY DEF Alive, Spawned
  <2>2. QED
    BY <1>3, <1>4, <2>1 DEF Alive
<1>6. ASSUME using[a] = c PROVE m.procs \subseteq Alive(a)'
  <2>1. m.procs \subseteq Spawned(c)'
    BY <1>1, <1>2, <1>6 DEF Spawned
  <2>2. Spawned(c)' \subseteq Alive(a)'
    BY <1>6, NodeNumbers DEF Alive, Spawned
  <2>3. QED
    BY <2>1, <2>2
<1>7. QED
  BY <1>2, <1>5, <1>6

LEMMA TellsKeeps ==
  ASSUME NodesInv, Onward, NEW c \in Nodes!Links, Opened(c), NEW a \in Nodes!NodeAgents, conn[c].agent = a,
         NEW m \in Messages,
         using[a] = c => toAgent' = [toAgent EXCEPT ![c] = Append(@, m)], using[a] # c => toAgent' = toAgent,
         UNCHANGED <<using, running>>,
         Up(c)', Heard(a, m)', m.procs \cap Spawned(c) = {},
         \A d \in Nodes!Links : Up(d) => Up(d)'
  PROVE  \A d \in Nodes!Links : Listens(d)'
<1>0. NodesTypes /\ ConnsKnown /\ toAgent[c] \in Seq(Messages) /\ toAgent \in [Nodes!Links -> Seq(Messages)]
  BY DEF NodesInv, NodesTypes
<1> SUFFICES ASSUME NEW d \in Nodes!Links PROVE Listens(d)'
  OBVIOUS
<1>1. Listens(d) /\ Listens(c)
  BY DEF NodesInv, QueuesKnown
<1>2. /\ Append(toAgent[c], m) \in Seq(Messages)
      /\ \A j \in 1..Len(Append(toAgent[c], m)) :
           \/ j \in 1..Len(toAgent[c]) /\ Append(toAgent[c], m)[j] = toAgent[c][j]
           \/ /\ j = Len(Append(toAgent[c], m)) /\ Append(toAgent[c], m)[j] = m
  BY <1>0, Queued
<1>3. CASE d # c \/ using[a] # c
  <2>1. toAgent'[d] = toAgent[d]
    BY <1>0, <1>3
  <2>2. QED
    BY <1>1, <2>1, ListensStays DEF Listens
<1>4. CASE d = c /\ using[a] = c
  <2>1. toAgent'[c] = Append(toAgent[c], m)
    BY <1>0, <1>4
  <2>2. \A n : Heard(a, n) => Heard(a, n)'
    BY OwnedKeeps DEF Heard, Onward
  <2>3. \A j \in 1..Len(toAgent'[c]) : \E n : n = toAgent'[c][j] /\ Heard(a, n)'
    BY <1>1, <1>2, <2>1, <2>2 DEF Listens
  <2>4. \A j \in 1..Len(toAgent[c]) : m.procs \cap toAgent[c][j].procs = {}
    BY DEF Spawned
  <2>5. \A j, k \in 1..Len(toAgent'[c]) : j # k => toAgent'[c][j].procs \cap toAgent'[c][k].procs = {}
    BY <1>1, <1>2, <2>1, <2>4 DEF Listens
  <2>6. conn'[c].agent = a
    BY DEF Onward, AliveGrows
  <2>7. QED
    BY <1>4, <2>3, <2>5, <2>6 DEF Listens
<1>5. QED
  BY <1>3, <1>4

\* An agent is registered: it gets a node, and is asked what runs on it.
LEMMA RegisterNodeKeeps ==
  ASSUME NodesInv, NEW c \in Nodes!Links, toRelay[c] # <<>>, Head(toRelay[c]).type = "register",
         Nodes!Register(c), toRelay' = [toRelay EXCEPT ![c] = Tail(@)],
         UNCHANGED <<named, using, running, released>>
  PROVE  NodesInv'
<1>0. NodesTypes /\ ConnsKnown /\ QueuesKnown /\ InstsKnown
  BY DEF NodesInv
<1>1. PICK a \in Nodes!NodeAgents : conn[c].agent = a
  BY FirstTold
<1>2. conn[c].state = "open" /\ Tail(toRelay[c]) = <<>>
  BY FirstTold DEF Fine
<1>3. PICK i \in Nodes!InstIds :
        /\ nodeInst[i].kind = "unused"
        /\ nodeInst' = [nodeInst EXCEPT ![i] = Nodes!Made("node", a, c)]
        /\ conn' = [conn EXCEPT ![c].state = "registered", ![c].node = i]
  BY <1>1 DEF Nodes!Register, Nodes!FreshInst
<1>4. PICK m \in Messages : m = Nodes!Msg("request", {})
  BY DEF Nodes!Msg, Messages
<1>5. /\ cards' = Nodes!NodeCards(nodeInst') /\ UNCHANGED nodeSurf
      /\ using[a] = c => toAgent' = [toAgent EXCEPT ![c] = Append(@, m)]
      /\ using[a] # c => toAgent' = toAgent
  <2>1. toAgent' = [toAgent EXCEPT ![c] = IF using[a] = c THEN Append(toAgent[c], m) ELSE toAgent[c]]
    BY <1>1, <1>4 DEF Nodes!Register
  <2>2. toAgent = [toAgent EXCEPT ![c] = toAgent[c]]
    BY <1>0 DEF NodesTypes
  <2>3. cards' = Nodes!NodeCards(nodeInst') /\ UNCHANGED nodeSurf
    BY DEF Nodes!Register
  <2>4. QED
    BY <2>1, <2>2, <2>3
<1>6. /\ nodeInst' \in [Nodes!InstIds -> [kind: Kinds, agent: 0..MaxAgents, conn: 0..MaxLinks]]
      /\ nodeInst'[i] = Nodes!Made("node", a, c) /\ \A j \in Nodes!InstIds : j # i => nodeInst'[j] = nodeInst[j]
  <2>1. Nodes!Made("node", a, c) \in [kind: Kinds, agent: 0..MaxAgents, conn: 0..MaxLinks]
    BY NodeNumbers DEF Nodes!Made, Kinds, Nodes!NodeAgents, Nodes!Links
  <2>2. QED
    BY <1>0, <1>3, <2>1 DEF NodesTypes
<1>7. /\ conn' \in [Nodes!Links -> [agent: 0..MaxAgents, state: States, node: 0..MaxInsts]]
      /\ conn'[c].agent = a /\ conn'[c].state = "registered" /\ conn'[c].node = i
      /\ \A d \in Nodes!Links : d # c => conn'[d] = conn[d]
  <2>1. i \in 0..MaxInsts /\ "registered" \in States
    BY NodeNumbers DEF Nodes!InstIds, States
  <2>2. QED
    BY <1>0, <1>1, <1>3, <2>1 DEF NodesTypes
<1>8. /\ toAgent' \in [Nodes!Links -> Seq(Messages)]
      /\ \A b \in Nodes!NodeAgents : Alive(b)' \subseteq Alive(b)
  <2>1. m.procs = {}
    BY <1>4 DEF Nodes!Msg
  <2>2. Opened(c)
    BY <1>2 DEF Opened
  <2>3. UNCHANGED <<using, running>>
    OBVIOUS
  <2>4. /\ toAgent' \in [Nodes!Links -> Seq(Messages)]
        /\ \A b \in Nodes!NodeAgents : \A p \in Alive(b)' :
             p \in Alive(b) \/ (b = a /\ using[a] = c /\ p \in m.procs)
    BY <1>1, <1>4, <1>5, <2>2, <2>3, TellsTypes
  <2>5. QED
    BY <2>1, <2>4
<1>9. \A d \in Nodes!Links : Opened(d) <=> Opened(d)'
  BY <1>2, <1>7 DEF Opened
<1>10. Onward
  <2>1. InstsGrow
    BY <1>3, <1>6 DEF InstsGrow
  <2>2. AliveGrows
    <3>1. \A d \in Nodes!Links : Opened(d) => conn'[d].agent = conn[d].agent /\ conn[d].agent \in Nodes!NodeAgents
      BY <1>0, <1>1, <1>7 DEF ConnsKnown
    <3>2. QED
      BY <1>8, <3>1 DEF AliveGrows
  <2>3. QED
    BY <2>1, <2>2 DEF Onward
<1>11. InstsKnown'
  <2>1. ASSUME NEW d \in Nodes!Links, Up(d)'
        PROVE  /\ conn'[d].node \in Nodes!InstIds
               /\ nodeInst'[conn'[d].node] = Nodes!Made("node", conn'[d].agent, d)
    <3>1. CASE d = c
      BY <1>6, <1>7, <3>1
    <3>2. CASE d # c
      <4>1. conn'[d] = conn[d] /\ Up(d)
        BY <1>7, <2>1, <3>2 DEF Up
      <4>2. conn[d].node \in Nodes!InstIds /\ nodeInst[conn[d].node] = Nodes!Made("node", conn[d].agent, d)
        BY <1>0, <4>1 DEF InstsKnown
      <4>3. conn[d].node # i
        BY <1>3, <4>2 DEF Nodes!Made
      <4>4. QED
        BY <1>6, <4>1, <4>2, <4>3
    <3>3. QED
      BY <3>1, <3>2
  <2>2. ASSUME NEW j \in Nodes!InstIds
        PROVE  /\ nodeInst'[j].kind = "unused" => nodeInst'[j].agent = 0
               /\ nodeInst'[j].agent # 0 => \E d \in Nodes!Links :
                    d = nodeInst'[j].conn /\ Opened(d)' /\ conn'[d].agent = nodeInst'[j].agent
    <3>1. CASE j = i
      BY <1>6, <1>7, <3>1 DEF Nodes!Made, Opened
    <3>2. CASE j # i
      <4>1. nodeInst'[j] = nodeInst[j]
        BY <1>6, <3>2
      <4>2. nodeInst[j].kind = "unused" => nodeInst[j].agent = 0
        BY <1>0 DEF InstsKnown
      <4>3. nodeInst[j].agent # 0 => \E d \in Nodes!Links :
              d = nodeInst[j].conn /\ Opened(d) /\ conn[d].agent = nodeInst[j].agent
        BY <1>0 DEF InstsKnown
      <4>4. \A d \in Nodes!Links : Opened(d) => Opened(d)' /\ conn'[d].agent = conn[d].agent
        BY <1>1, <1>7, <1>9
      <4>5. QED
        BY <4>1, <4>2, <4>3, <4>4
    <3>3. QED
      BY <3>1, <3>2
  <2>3. QED
    BY <2>1, <2>2 DEF InstsKnown, Opened, Up
<1>12. toRelay' \in [Nodes!Links -> Seq(Messages)] /\ \A d \in Nodes!Links : Told(d)'
  BY <1>2, <1>7, <1>10, ReadTold
<1>13. \A d \in Nodes!Links : Listens(d)'
  <2>1. Up(c)' /\ \A d \in Nodes!Links : Up(d) => Up(d)'
    BY <1>7 DEF Up
  <2>2. Heard(a, m)' /\ m.procs \cap Spawned(c) = {}
    BY <1>4 DEF Heard, Nodes!Msg
  <2>3. Opened(c)
    BY <1>2 DEF Opened
  <2>4. QED
    BY <1>1, <1>5, <1>10, <2>1, <2>2, <2>3, TellsKeeps
<1>14. SurfKnown' /\ AliveShown'
  <2>1. SurfKnown' /\ \A p : Nodes!Of(p)' = Nodes!Of(p)
    BY <1>5, <1>10, SurfsStay
  <2>2. QED
    BY <1>0, <1>8, <2>1 DEF NodesInv, AliveShown, NodesTypes
<1>15. Nodes!PeersTrue'
  BY <1>5 DEF Nodes!PeersTrue, Nodes!NodeCards
<1>16. NodesTypes'
  BY <1>0, <1>5, <1>6, <1>7, <1>8, <1>12 DEF NodesTypes
<1>17. \A b \in Nodes!NodeAgents : using[b] # 0 => conn'[using[b]].state \in {"open", "registered"}
  BY <1>0, <1>7, UsedLink
<1>18. QED
  BY <1>9, <1>10, <1>11, <1>12, <1>13, <1>14, <1>15, <1>16, <1>17, RelayStep DEF QueuesKnown

-----------------------------------------------------------------------------
\* Where there is room, processes get a surface each.
LEMMA RoomFor ==
  ASSUME NEW ps \in SUBSET Nodes!NodeIds, NEW ss \in SUBSET Nodes!Shared,
         Nodes!Cardinality(ps) <= Nodes!Cardinality(ss)
  PROVE  \E f \in [ps -> ss] : \A p, q \in ps : p # q => f[p] # f[q]
<1>1. IsFiniteSet(ps) /\ IsFiniteSet(ss)
  <2>1. IsFiniteSet((-MaxAgents)..MaxInsts) /\ IsFiniteSet(1..MaxShared)
    BY FS_Interval, NodeNumbers
  <2>2. Nodes!NodeIds \subseteq (-MaxAgents)..MaxInsts
    BY NodeNumbers DEF Nodes!NodeIds, Nodes!InstIds, Nodes!NodeAgents
  <2>3. QED
    BY <2>1, <2>2, FS_Subset DEF Nodes!Shared
<1>2. Cardinality(ps) <= Cardinality(ss)
  BY DEF Nodes!Cardinality, Cardinality
<1>3. PICK k \in Nat : k = Cardinality(ps)
  BY <1>1, FS_CardinalityType
<1>4. PICK l \in Nat : l = Cardinality(ss) /\ k <= l
  BY <1>1, <1>2, <1>3, FS_CardinalityType
<1>5. PICK g \in Bijection(1..k, ps) : TRUE
  BY <1>1, <1>3, FS_CardinalityType, Fun_ExistsBij
<1>6. PICK h \in Bijection(1..l, ss) : TRUE
  BY <1>1, <1>4, FS_CardinalityType, Fun_ExistsBij
<1>7. /\ g \in [1..k -> ps] /\ \A p \in ps : \E j \in 1..k : g[j] = p
      /\ h \in [1..l -> ss] /\ \A i, j \in 1..l : h[i] = h[j] => i = j
  BY <1>5, <1>6, Fun_BijectionProperties
<1> DEFINE at == [p \in ps |-> CHOOSE j \in 1..k : g[j] = p]
<1>8. \A p \in ps : at[p] \in 1..k /\ at[p] \in 1..l /\ g[at[p]] = p
  BY <1>4, <1>7
<1> HIDE DEF at
<1> DEFINE f == [p \in ps |-> h[at[p]]]
<1>9. f \in [ps -> ss]
  BY <1>7, <1>8
<1>10. \A p, q \in ps : p # q => f[p] # f[q]
  BY <1>7, <1>8
<1> HIDE DEF f
<1>11. QED
  BY <1>9, <1>10

\* New surfaces, one for each of a set of processes
Gives(new, ps, n, o) ==
  /\ DOMAIN new \subseteq Nodes!Shared
  /\ \A s \in DOMAIN new : nodeSurf[s].state = "unused" /\ \E p \in ps : new[s] = Nodes!Surface(n, p, TRUE, o)
  /\ \A p \in ps : \E s \in DOMAIN new : new[s] = Nodes!Surface(n, p, TRUE, o)
  /\ \A s, t \in DOMAIN new : new[s].proc = new[t].proc => s = t

LEMMA PublishedAre ==
  ASSUME NEW ps \in SUBSET Nodes!NodeIds, Nodes!Room(ps), NEW n, NEW o
  PROVE  Gives(Nodes!Published(ps, n, o), ps, n, o)
<1> DEFINE unused == {s \in Nodes!Shared : nodeSurf[s].state = "unused"}
           new == Nodes!Published(ps, n, o)
           of == CHOOSE f \in [ps -> unused] : \A p, q \in ps : p # q => f[p] # f[q]
<1>1. \E f \in [ps -> unused] : \A p, q \in ps : p # q => f[p] # f[q]
  BY RoomFor DEF Nodes!Room
<1>2. of \in [ps -> unused] /\ \A p, q \in ps : p # q => of[p] # of[q]
  BY <1>1
<1>3. new = [s \in {of[p] : p \in ps} |-> Nodes!Surface(n, CHOOSE p \in ps : of[p] = s, TRUE, o)]
  BY DEF Nodes!Published
<1> HIDE DEF of, new
<1>4. DOMAIN new = {of[p] : p \in ps}
  BY <1>3
<1>5. \A p \in ps : new[of[p]] = Nodes!Surface(n, p, TRUE, o)
  <2> SUFFICES ASSUME NEW p \in ps PROVE new[of[p]] = Nodes!Surface(n, p, TRUE, o)
    OBVIOUS
  <2>1. (CHOOSE q \in ps : of[q] = of[p]) = p
    BY <1>2
  <2>2. QED
    BY <1>3, <2>1
<1>6. \A p \in ps : Nodes!Surface(n, p, TRUE, o).proc = p
  BY DEF Nodes!Surface
<1>7. \A p \in ps : of[p] \in Nodes!Shared /\ nodeSurf[of[p]].state = "unused"
  BY <1>2
<1>8. \A s \in DOMAIN new : \E p \in ps : /\ s = of[p] /\ new[s] = Nodes!Surface(n, p, TRUE, o)
                                          /\ s = of[new[s].proc]
  <2> SUFFICES ASSUME NEW s \in DOMAIN new
               PROVE  \E p \in ps : /\ s = of[p] /\ new[s] = Nodes!Surface(n, p, TRUE, o)
                                    /\ s = of[new[s].proc]
    OBVIOUS
  <2>1. PICK p \in ps : s = of[p]
    BY <1>4
  <2>2. new[s] = Nodes!Surface(n, p, TRUE, o) /\ new[s].proc = p
    BY <1>5, <1>6, <2>1
  <2>3. QED
    BY <2>1, <2>2
<1>9. \A p \in ps : of[p] \in DOMAIN new
  BY <1>4
<1> HIDE DEF unused
<1>10. \A s, t \in DOMAIN new : new[s].proc = new[t].proc => s = t
  BY <1>8
<1>11. \A s \in DOMAIN new : s \in Nodes!Shared /\ nodeSurf[s].state = "unused"
  <2> SUFFICES ASSUME NEW s \in DOMAIN new PROVE s \in Nodes!Shared /\ nodeSurf[s].state = "unused"
    OBVIOUS
  <2>1. PICK p \in ps : s = of[p]
    BY <1>8
  <2>2. QED
    BY <1>7, <2>1
<1>12. \A p \in ps : \E s \in DOMAIN new : new[s] = Nodes!Surface(n, p, TRUE, o)
  BY <1>5, <1>9
<1>13. QED
  BY <1>8, <1>10, <1>11, <1>12 DEF Gives, new

\* What changes only the surfaces and what the relay has read
LEMMA SurfsOnward ==
  ASSUME NodesInv, UNCHANGED <<named, nodeInst, conn, using, running, toAgent>>
  PROVE  /\ Onward /\ \A a \in Nodes!NodeAgents : Alive(a)' = Alive(a)
         /\ InstsKnown' /\ \A d \in Nodes!Links : Listens(d)'
         /\ \A d \in Nodes!Links : Opened(d)' <=> Opened(d)
         /\ \A a \in Nodes!NodeAgents : using[a] # 0 => conn'[using[a]].state \in {"open", "registered"}
<1>1. \A a \in Nodes!NodeAgents : Alive(a)' = Alive(a)
  BY DEF Alive, Spawned
<1>2. \A a \in named : Alive(a)' \subseteq Alive(a)
  BY <1>1 DEF NodesInv, NodesTypes
<1>3. Onward
  BY <1>2, AgentOnward
<1>4. InstsKnown'
  BY DEF NodesInv, InstsKnown, Up, Opened, Nodes!Made
<1>5. \A d \in Nodes!Links : Listens(d)'
  BY <1>3, ListensStays DEF NodesInv, QueuesKnown, Listens, Up
<1>6. \A a \in Nodes!NodeAgents : using[a] # 0 => conn'[using[a]].state \in {"open", "registered"}
  BY UsedLink DEF NodesInv
<1>7. QED
  BY <1>1, <1>3, <1>4, <1>5, <1>6 DEF Opened

\* Surfaces go, move or change their keeping.
LEMMA SurfsMove ==
  ASSUME NodesInv, Onward,
         \A s \in Nodes!Live' : s \in Nodes!Live /\ nodeSurf'[s].proc = nodeSurf[s].proc /\ Placed(s)'
  PROVE  SurfKnown'
  BY DEF SurfKnown, NodesInv

\* Surfaces go, move or change, and those of some processes are made.
LEMMA SurfsAdded ==
  ASSUME NodesInv, Onward, NEW ps \in SUBSET Nodes!NodeIds, \A p \in ps : Nodes!Of(p) = {},
         NEW n \in Nodes!NodeIds, NEW o, NEW new, Gives(new, ps, n, o),
         \A s \in Nodes!Shared : s \in DOMAIN new => nodeSurf'[s] = new[s],
         \A s \in Nodes!Live' : s \notin DOMAIN new =>
           s \in Nodes!Live /\ nodeSurf'[s].proc = nodeSurf[s].proc /\ Placed(s)',
         \A p \in ps : p \in Nodes!InstIds =>
           /\ nodeInst'[p].kind # "unused"
           /\ nodeInst'[p].agent # 0 => /\ n \in Nodes!InstIds /\ nodeInst'[n].agent = nodeInst'[p].agent
                                        /\ nodeInst'[p].conn <= nodeInst'[n].conn
  PROVE  SurfKnown' /\ \A p \in ps : Nodes!Of(p)' # {}
<1>1. /\ DOMAIN new \subseteq Nodes!Shared
      /\ \A s \in DOMAIN new : \E p \in ps : new[s] = Nodes!Surface(n, p, TRUE, o)
      /\ \A p \in ps : \E s \in DOMAIN new : new[s] = Nodes!Surface(n, p, TRUE, o)
      /\ \A s, t \in DOMAIN new : new[s].proc = new[t].proc => s = t
  BY DEF Gives
<1>2. ASSUME NEW s \in DOMAIN new
      PROVE  /\ s \in Nodes!Live' /\ Placed(s)' /\ nodeSurf'[s].proc \in ps
             /\ \A t \in Nodes!Live : nodeSurf[t].proc # nodeSurf'[s].proc
  <2>1. PICK p \in ps : nodeSurf'[s] = Nodes!Surface(n, p, TRUE, o)
    <3>1. s \in Nodes!Shared /\ nodeSurf'[s] = new[s]
      BY <1>1
    <3>2. PICK p \in ps : new[s] = Nodes!Surface(n, p, TRUE, o)
      BY <1>1
    <3>3. QED
      BY <3>1, <3>2
  <2>2. /\ nodeSurf'[s].proc = p /\ nodeSurf'[s].node = n /\ nodeSurf'[s].keep = TRUE
        /\ nodeSurf'[s].state = "live"
    BY <2>1 DEF Nodes!Surface
  <2>3. Placed(s)'
    BY <2>2 DEF Placed
  <2>4. \A t \in Nodes!Live : nodeSurf[t].proc # p
    BY DEF Nodes!Of
  <2>5. s \in Nodes!Live'
    BY <1>1, <2>2 DEF Nodes!Live
  <2>6. QED
    BY <2>2, <2>3, <2>4, <2>5
<1>3. ASSUME NEW s \in Nodes!Live', NEW t \in Nodes!Live', nodeSurf'[s].proc = nodeSurf'[t].proc
      PROVE  s = t
  <2>1. CASE s \in DOMAIN new /\ t \in DOMAIN new
    BY <1>1, <1>3, <2>1
  <2>2. CASE s \notin DOMAIN new /\ t \notin DOMAIN new
    BY <1>3, <2>2 DEF NodesInv, SurfKnown
  <2>3. CASE s \in DOMAIN new /\ t \notin DOMAIN new
    BY <1>2, <1>3, <2>3
  <2>4. CASE s \notin DOMAIN new /\ t \in DOMAIN new
    BY <1>2, <1>3, <2>4
  <2>5. QED
    BY <2>1, <2>2, <2>3, <2>4
<1>4. \A s \in Nodes!Live' : Placed(s)'
  BY <1>2
<1>5. SurfKnown'
  BY <1>3, <1>4 DEF SurfKnown
<1>6. ASSUME NEW p \in ps PROVE Nodes!Of(p)' # {}
  <2>1. PICK s \in DOMAIN new : new[s] = Nodes!Surface(n, p, TRUE, o)
    BY <1>1
  <2>2. s \in Nodes!Live' /\ nodeSurf'[s].proc = p
    BY <1>1, <1>2, <2>1 DEF Nodes!Surface
  <2>3. QED
    BY <2>2 DEF Nodes!Of
<1>7. QED
  BY <1>5, <1>6

\* What lives is shown, if a surface goes only with its process, or after
\* somebody has un-kept it.
LEMMA ShownStays ==
  ASSUME NodesInv, named' = named, released \subseteq released',
         \A s \in Nodes!Live :
           \/ s \in Nodes!Live' /\ nodeSurf'[s].proc = nodeSurf[s].proc
           \/ nodeSurf[s].proc \in released'
           \/ \A a \in named : nodeSurf[s].proc \notin Alive(a)',
         \A a \in named : \A p \in Alive(a)' : p \in Alive(a) \/ Nodes!Of(p)' # {}
  PROVE  AliveShown'
<1> SUFFICES ASSUME NEW a \in named, NEW p \in Alive(a)', p \in Alive(a), p \notin released'
             PROVE  Nodes!Of(p)' # {}
  BY DEF AliveShown
<1>1. PICK s \in Nodes!Live : nodeSurf[s].proc = p
  BY DEF NodesInv, AliveShown, Nodes!Of
<1>2. s \in Nodes!Live' /\ nodeSurf'[s].proc = p
  BY <1>1
<1>3. QED
  BY <1>2 DEF Nodes!Of

LEMMA SurfaceType ==
  ASSUME NEW n \in Nodes!NodeIds, NEW p \in Nodes!NodeIds
  PROVE  /\ Nodes!Surface(n, p, TRUE, TRUE) \in Surfaces /\ Nodes!Surface(n, p, TRUE, TRUE).state = "live"
         /\ Nodes!Surface(n, p, TRUE, FALSE) \in Surfaces /\ Nodes!Surface(n, p, TRUE, FALSE).state = "live"
  BY DEF Nodes!Surface, Surfaces

\* A step that changes the surfaces, and may have read a message
LEMMA SurfStep ==
  ASSUME NodesInv, UNCHANGED <<named, nodeInst, conn, using, running, toAgent>>, cards' = cards,
         nodeSurf' \in [Nodes!Shared -> Surfaces], SurfKnown', AliveShown',
         toRelay' \in [Nodes!Links -> Seq(Messages)], \A d \in Nodes!Links : Told(d)'
  PROVE  NodesInv'
<1>1. /\ Onward /\ InstsKnown' /\ \A d \in Nodes!Links : Listens(d)'
      /\ \A d \in Nodes!Links : Opened(d)' <=> Opened(d)
      /\ \A a \in Nodes!NodeAgents : using[a] # 0 => conn'[using[a]].state \in {"open", "registered"}
  BY SurfsOnward
<1>2. NodesTypes'
  BY DEF NodesInv, NodesTypes
<1>3. QueuesKnown'
  BY <1>1 DEF QueuesKnown
<1>4. Nodes!PeersTrue'
  BY DEF NodesInv, Nodes!PeersTrue, Nodes!NodeCards
<1>5. QED
  BY <1>1, <1>2, <1>3, <1>4, RelayStep

\* A browser changes the surfaces.
LEMMA BrowserStep ==
  ASSUME NodesInv, UNCHANGED <<named, nodeInst, conn, using, running, toAgent>>, cards' = cards, toRelay' = toRelay,
         nodeSurf' \in [Nodes!Shared -> Surfaces], SurfKnown', AliveShown'
  PROVE  NodesInv'
<1>1. Onward
  BY SurfsOnward
<1>2. toRelay' \in [Nodes!Links -> Seq(Messages)] /\ \A d \in Nodes!Links : Told(d)'
  BY <1>1, ToldStays DEF NodesInv, NodesTypes
<1>3. QED
  BY <1>2, SurfStep

LEMMA ReconcileKeeps ==
  ASSUME NodesInv, NEW n \in Nodes!NodeIds, Nodes!Reconcile(n)
  PROVE  NodesInv'
<1>1. /\ UNCHANGED <<named, nodeInst, conn, using, running, toAgent>> /\ cards' = cards /\ toRelay' = toRelay
      /\ nodeSurf' = nodeSurf /\ released' = released
  BY DEF Nodes!Reconcile
<1>2. Onward /\ \A a \in Nodes!NodeAgents : Alive(a)' = Alive(a)
  BY <1>1, SurfsOnward
<1>3. SurfKnown' /\ \A p : Nodes!Of(p)' = Nodes!Of(p)
  BY <1>1, <1>2, SurfsStay
<1>4. AliveShown'
  BY <1>1, <1>2, <1>3 DEF NodesInv, AliveShown, NodesTypes
<1>5. QED
  BY <1>1, <1>3, <1>4, BrowserStep DEF NodesInv, NodesTypes

\* A surface is kept, or not any more.
LEMMA SetKeepKeeps ==
  ASSUME NodesInv, NEW s \in Nodes!Shared, Nodes!SetKeep(s)
  PROVE  NodesInv'
<1>0. NodesTypes /\ SurfKnown /\ s \in Nodes!Live
  BY DEF NodesInv, Nodes!SetKeep
<1>1. /\ UNCHANGED <<named, nodeInst, conn, using, running, toAgent>> /\ cards' = cards /\ toRelay' = toRelay
      /\ nodeSurf' = [nodeSurf EXCEPT ![s].keep = ~nodeSurf[s].keep]
      /\ released' = IF nodeSurf[s].keep THEN released \cup {nodeSurf[s].proc} ELSE released
  BY DEF Nodes!SetKeep
<1>2. Onward /\ \A a \in Nodes!NodeAgents : Alive(a)' = Alive(a)
  BY <1>1, SurfsOnward
<1>3. /\ nodeSurf' \in [Nodes!Shared -> Surfaces]
      /\ \A t \in Nodes!Shared : /\ nodeSurf'[t].state = nodeSurf[t].state /\ nodeSurf'[t].proc = nodeSurf[t].proc
                                 /\ nodeSurf'[t].node = nodeSurf[t].node
                                 /\ t # s => nodeSurf'[t] = nodeSurf[t]
      /\ nodeSurf'[s].keep = ~nodeSurf[s].keep
  BY <1>0, <1>1 DEF NodesTypes, Surfaces, Nodes!Live
<1>4. Nodes!Live' = Nodes!Live
  BY <1>3 DEF Nodes!Live
<1>5. ASSUME NEW t \in Nodes!Live PROVE Placed(t)'
  <2>1. t \in Nodes!Shared /\ Placed(t)
    BY <1>0 DEF SurfKnown, Nodes!Live
  <2>2. nodeSurf'[t].keep \/ nodeSurf[t].proc \in released'
    <3>1. CASE t # s
      BY <1>1, <1>3, <2>1, <3>1 DEF Placed
    <3>2. CASE t = s /\ nodeSurf[s].keep
      BY <1>1, <3>2
    <3>3. CASE t = s /\ ~nodeSurf[s].keep
      BY <1>3, <3>3
    <3>4. QED
      BY <3>1, <3>2, <3>3
  <2>3. QED
    BY <1>2, <1>3, <2>1, <2>2, PlacedStays
<1>6. SurfKnown'
  BY <1>2, <1>3, <1>4, <1>5, SurfsMove DEF Nodes!Live
<1>7. AliveShown'
  <2>1. released \subseteq released' /\ named' = named /\ named \subseteq Nodes!NodeAgents
    BY <1>0, <1>1 DEF NodesTypes
  <2>2. \A t \in Nodes!Live : t \in Nodes!Live' /\ nodeSurf'[t].proc = nodeSurf[t].proc
    BY <1>3, <1>4 DEF Nodes!Live
  <2>3. QED
    BY <1>2, <2>1, <2>2, ShownStays
<1>8. QED
  BY <1>1, <1>3, <1>6, <1>7, BrowserStep

\* A surface that is opened is orphaned, or goes if it is not kept.
LEMMA SubscribeKeeps ==
  ASSUME NodesInv, NEW s \in Nodes!Shared, Nodes!Subscribe(s)
  PROVE  NodesInv'
<1>0. NodesTypes /\ SurfKnown /\ s \in Nodes!Live
  BY DEF NodesInv, Nodes!Subscribe
<1>1. /\ UNCHANGED <<named, nodeInst, conn, using, running, toAgent>> /\ cards' = cards /\ toRelay' = toRelay
      /\ released' = released
      /\ nodeSurf' = IF nodeSurf[s].keep THEN [nodeSurf EXCEPT ![s].orphaned = TRUE] ELSE Nodes!Gone(nodeSurf, {s})
  BY DEF Nodes!Subscribe
<1>2. Onward /\ \A a \in Nodes!NodeAgents : Alive(a)' = Alive(a)
  BY <1>1, SurfsOnward
<1>3. /\ nodeSurf' \in [Nodes!Shared -> Surfaces]
      /\ \A t \in Nodes!Shared : /\ nodeSurf'[t].proc = nodeSurf[t].proc /\ nodeSurf'[t].node = nodeSurf[t].node
                                 /\ nodeSurf'[t].keep = nodeSurf[t].keep
                                 /\ nodeSurf'[t].state = IF t = s /\ ~nodeSurf[s].keep THEN "gone" ELSE nodeSurf[t].state
  <2>1. CASE nodeSurf[s].keep
    BY <1>0, <1>1, <2>1 DEF NodesTypes, Surfaces
  <2>2. CASE ~nodeSurf[s].keep
    BY <1>0, <1>1, <2>2 DEF NodesTypes, Surfaces, Nodes!Gone
  <2>3. QED
    BY <2>1, <2>2
<1>4. \A t \in Nodes!Live' : t \in Nodes!Live
  BY <1>3 DEF Nodes!Live
<1>5. ASSUME NEW t \in Nodes!Live' PROVE Placed(t)'
  <2>1. t \in Nodes!Live /\ t \in Nodes!Shared /\ Placed(t)
    BY <1>0, <1>4 DEF SurfKnown, Nodes!Live
  <2>2. nodeSurf'[t].keep \/ nodeSurf[t].proc \in released'
    BY <1>1, <1>3, <2>1 DEF Placed
  <2>3. QED
    BY <1>2, <1>3, <2>1, <2>2, PlacedStays
<1>6. SurfKnown'
  BY <1>2, <1>3, <1>4, <1>5, SurfsMove DEF Nodes!Live
<1>7. AliveShown'
  <2>1. released \subseteq released' /\ named' = named /\ named \subseteq Nodes!NodeAgents
    BY <1>0, <1>1 DEF NodesTypes
  <2>2. \A t \in Nodes!Live : \/ t \in Nodes!Live' /\ nodeSurf'[t].proc = nodeSurf[t].proc
                              \/ nodeSurf[t].proc \in released'
    BY <1>0, <1>1, <1>3 DEF Nodes!Live, SurfKnown, Placed
  <2>3. QED
    BY <1>2, <2>1, <2>2, ShownStays
<1>8. QED
  BY <1>1, <1>3, <1>6, <1>7, BrowserStep

\* What belongs to no instance is cleaned up, unless it is kept; a local
\* instance gets a surface.
LEMMA SubscribeNodeKeeps ==
  ASSUME NodesInv, NEW n \in Nodes!NodeIds, Nodes!SubscribeNode(n)
  PROVE  NodesInv'
<1>0. NodesTypes /\ SurfKnown
  BY DEF NodesInv
<1> DEFINE stale == {s \in Nodes!Live : /\ nodeSurf[s].node = n /\ nodeSurf[s].proc # n /\ ~Nodes!Remote(n)
                                        /\ ~nodeSurf[s].keep /\ ~Nodes!Exists(nodeSurf[s].proc)}
           bare == IF Nodes!Exists(n) /\ nodeInst[n].kind = "local" /\ Nodes!Of(n) = {} THEN {n} ELSE {}
           new == Nodes!Published(bare, n, TRUE)
<1>1. /\ UNCHANGED <<named, nodeInst, conn, using, running, toAgent>> /\ cards' = cards /\ toRelay' = toRelay
      /\ released' = released /\ Nodes!Room(bare)
      /\ nodeSurf' = Nodes!With(Nodes!Gone(nodeSurf, stale), new)
  BY DEF Nodes!SubscribeNode
<1>2. /\ bare \in SUBSET Nodes!NodeIds /\ bare \subseteq {n}
      /\ \A p \in bare : Nodes!Of(p) = {} /\ nodeInst[p].kind = "local"
  OBVIOUS
<1>3. Gives(new, bare, n, TRUE)
  BY <1>1, <1>2, PublishedAre
<1>4. \A s \in stale : s \in Nodes!Live /\ ~nodeSurf[s].keep
  OBVIOUS
<1> HIDE DEF stale, bare, new
<1>5. \A s \in DOMAIN new : new[s] \in Surfaces /\ new[s].state = "live" /\ s \in Nodes!Shared /\ nodeSurf[s].state = "unused"
  <2> SUFFICES ASSUME NEW s \in DOMAIN new
               PROVE  new[s] \in Surfaces /\ new[s].state = "live" /\ s \in Nodes!Shared /\ nodeSurf[s].state = "unused"
    OBVIOUS
  <2>1. new[s] \in Surfaces /\ new[s].state = "live"
    <3>1. PICK p \in bare : new[s] = Nodes!Surface(n, p, TRUE, TRUE)
      BY <1>3 DEF Gives
    <3>2. QED
      BY <1>2, <3>1, SurfaceType
  <2>2. QED
    BY <1>3, <2>1 DEF Gives
<1>6. \A s \in Nodes!Shared :
        nodeSurf'[s] = IF s \in DOMAIN new THEN new[s]
                       ELSE IF s \in stale THEN [nodeSurf[s] EXCEPT !.state = "gone"] ELSE nodeSurf[s]
  BY <1>1 DEF Nodes!With, Nodes!Gone
<1>7. nodeSurf' \in [Nodes!Shared -> Surfaces]
  <2>1. \A s \in Nodes!Shared : nodeSurf'[s] \in Surfaces
    <3>1. \A r \in Surfaces : [r EXCEPT !.state = "gone"] \in Surfaces
      BY DEF Surfaces
    <3>2. \A s \in Nodes!Shared : nodeSurf[s] \in Surfaces
      BY <1>0 DEF NodesTypes
    <3>3. QED
      BY <1>5, <1>6, <3>1, <3>2
  <2>2. nodeSurf' = [s \in Nodes!Shared |-> nodeSurf'[s]]
    BY <1>1 DEF Nodes!With
  <2>3. QED
    BY <2>1, <2>2
<1>8. Onward /\ \A a \in Nodes!NodeAgents : Alive(a)' = Alive(a)
  BY <1>1, SurfsOnward
<1>9. ASSUME NEW s \in Nodes!Live', s \notin DOMAIN new
      PROVE  s \in Nodes!Live /\ nodeSurf'[s].proc = nodeSurf[s].proc /\ Placed(s)'
  <2>1. s \in Nodes!Shared /\ nodeSurf'[s].state = "live" /\ nodeSurf[s] \in Surfaces
    BY <1>0 DEF Nodes!Live, NodesTypes
  <2>2. s \notin stale /\ nodeSurf'[s] = nodeSurf[s]
    BY <1>6, <1>9, <2>1 DEF Surfaces
  <2>3. s \in Nodes!Live
    BY <2>1, <2>2 DEF Nodes!Live
  <2>4. Placed(s)'
    BY <1>0, <1>1, <1>8, <2>2, <2>3, PlacedStays DEF SurfKnown, Placed
  <2>5. QED
    BY <2>2, <2>3, <2>4
<1>10. SurfKnown'
  <2>1. \A p \in bare : p \in Nodes!InstIds =>
          /\ nodeInst'[p].kind # "unused"
          /\ nodeInst'[p].agent # 0 => /\ n \in Nodes!InstIds /\ nodeInst'[n].agent = nodeInst'[p].agent
                                       /\ nodeInst'[p].conn <= nodeInst'[n].conn
    <3> SUFFICES ASSUME NEW p \in bare, p \in Nodes!InstIds
                 PROVE  /\ nodeInst'[p].kind # "unused" /\ p = n /\ nodeInst'[p].conn <= nodeInst'[p].conn
      OBVIOUS
    <3>1. nodeInst'[p].conn \in 0..MaxLinks /\ p = n /\ nodeInst'[p].kind = "local"
      BY <1>0, <1>1, <1>2 DEF NodesTypes
    <3>2. QED
      BY <3>1, NodeNumbers
  <2>2. \A s \in Nodes!Shared : s \in DOMAIN new => nodeSurf'[s] = new[s]
    BY <1>6
  <2>3. QED
    BY <1>2, <1>3, <1>8, <1>9, <2>1, <2>2, SurfsAdded
<1>11. AliveShown'
  <2>1. released \subseteq released' /\ named' = named /\ named \subseteq Nodes!NodeAgents
    BY <1>0, <1>1 DEF NodesTypes
  <2>2. ASSUME NEW s \in Nodes!Live, nodeSurf[s].proc \notin released'
        PROVE  s \in Nodes!Live' /\ nodeSurf'[s].proc = nodeSurf[s].proc
    <3>1. s \in Nodes!Shared /\ nodeSurf[s].state = "live" /\ nodeSurf[s].keep
      BY <1>0, <1>1, <2>2 DEF Nodes!Live, SurfKnown, Placed
    <3>2. nodeSurf'[s] = nodeSurf[s]
      BY <1>4, <1>5, <1>6, <3>1
    <3>3. QED
      BY <3>1, <3>2 DEF Nodes!Live
  <2>3. QED
    BY <1>8, <2>1, <2>2, ShownStays
<1>12. QED
  BY <1>1, <1>7, <1>10, <1>11, BrowserStep

\* The instances, while the connections stay: a node stays as it is, and what
\* is new came over a connection of its agent.
LEMMA InstsStay ==
  ASSUME NodesInv, InstsGrow, conn' = conn,
         \A i \in Nodes!InstIds : nodeInst[i].kind = "node" => nodeInst'[i] = nodeInst[i],
         \A i \in Nodes!InstIds : nodeInst[i].kind = "unused" =>
           \/ nodeInst'[i] = nodeInst[i]
           \/ \E d \in Nodes!Links : /\ Opened(d) /\ nodeInst'[i].kind # "unused" /\ nodeInst'[i].conn = d
                                     /\ nodeInst'[i].agent = conn[d].agent
  PROVE  InstsKnown'
<1>0. InstsKnown
  BY DEF NodesInv
<1>1. ASSUME NEW d \in Nodes!Links, Up(d)'
      PROVE  /\ conn'[d].node \in Nodes!InstIds
             /\ nodeInst'[conn'[d].node] = Nodes!Made("node", conn'[d].agent, d)
  <2>1. conn[d].node \in Nodes!InstIds /\ nodeInst[conn[d].node] = Nodes!Made("node", conn[d].agent, d)
    BY <1>0, <1>1 DEF InstsKnown, Up
  <2>2. nodeInst[conn[d].node].kind = "node"
    BY <2>1 DEF Nodes!Made
  <2>3. QED
    BY <2>1, <2>2
<1>2. ASSUME NEW i \in Nodes!InstIds
      PROVE  /\ nodeInst'[i].kind = "unused" => nodeInst'[i].agent = 0
             /\ nodeInst'[i].agent # 0 => \E d \in Nodes!Links :
                  d = nodeInst'[i].conn /\ Opened(d) /\ conn[d].agent = nodeInst'[i].agent
  <2>1. /\ nodeInst[i].kind = "unused" => nodeInst[i].agent = 0
        /\ nodeInst[i].agent # 0 => \E d \in Nodes!Links :
             d = nodeInst[i].conn /\ Opened(d) /\ conn[d].agent = nodeInst[i].agent
    BY <1>0 DEF InstsKnown
  <2>2. CASE nodeInst[i].kind = "unused"
    BY <2>1, <2>2
  <2>3. CASE nodeInst[i].kind # "unused"
    BY <2>1, <2>3 DEF InstsGrow
  <2>4. QED
    BY <2>2, <2>3
<1>3. QED
  BY <1>1, <1>2 DEF InstsKnown, Opened, Up

\* The relay has read what a registered agent told it.
LEMMA ReadStep ==
  ASSUME NodesInv, Onward, NEW c \in Nodes!Links, Up(c), toRelay[c] # <<>>,
         toRelay' = [toRelay EXCEPT ![c] = Tail(@)], UNCHANGED <<conn, using, running>>,
         nodeInst' \in [Nodes!InstIds -> [kind: Kinds, agent: 0..MaxAgents, conn: 0..MaxLinks]],
         toAgent' \in [Nodes!Links -> Seq(Messages)], nodeSurf' \in [Nodes!Shared -> Surfaces],
         InstsKnown', \A d \in Nodes!Links : Listens(d)', SurfKnown', AliveShown', Nodes!PeersTrue'
  PROVE  NodesInv'
<1>0. NodesTypes /\ ConnsKnown
  BY DEF NodesInv
<1>1. toRelay' \in [Nodes!Links -> Seq(Messages)] /\ \A d \in Nodes!Links : Told(d)'
  BY ReadTold
<1>2. QueuesKnown'
  BY <1>1 DEF QueuesKnown
<1>3. NodesTypes'
  BY <1>0, <1>1 DEF NodesTypes, Onward
<1>4. \A a \in Nodes!NodeAgents : using[a] # 0 => conn'[using[a]].state \in {"open", "registered"}
  BY <1>0, UsedLink
<1>5. \A d \in Nodes!Links : Opened(d)' <=> Opened(d)
  BY DEF Opened
<1>6. UNCHANGED <<using, running>>
  OBVIOUS
<1>7. QED
  BY <1>2, <1>3, <1>4, <1>5, <1>6, RelayStep

\* A process has exited: its instance is gone, or its surface.
LEMMA ExitedKeeps ==
  ASSUME NodesInv, NEW c \in Nodes!Links, toRelay[c] # <<>>, Head(toRelay[c]).type = "exit",
         Nodes!Exited(c, CHOOSE p \in Head(toRelay[c]).procs : TRUE),
         toRelay' = [toRelay EXCEPT ![c] = Tail(@)],
         UNCHANGED <<named, using, running, released>>
  PROVE  NodesInv'
<1>0. NodesTypes /\ ConnsKnown /\ QueuesKnown /\ RunningOwned
  BY DEF NodesInv
<1>1. PICK a \in Nodes!NodeAgents : conn[c].agent = a
  BY FirstTold
<1>2. Up(c) /\ Fine(c, Head(toRelay[c])) /\ Opened(c)
  BY FirstTold DEF Nodes!Msg
<1>3. PICK p \in Nodes!NodeIds : Head(toRelay[c]).procs = {p} /\ p \notin Alive(a)
  BY <1>1, <1>2 DEF Fine
<1>4. a \in named /\ p \in Nodes!InstIds /\ nodeInst[p].kind \in {"run", "gone"} /\ nodeInst[p].agent = a
  BY <1>1, <1>2, <1>3 DEF Fine, OwnedBy
<1>5. (CHOOSE q \in Head(toRelay[c]).procs : TRUE) = p
  BY <1>3
<1>6. /\ UNCHANGED <<conn, cards, toAgent>>
      /\ \/ nodeInst' = [nodeInst EXCEPT ![p].kind = "gone"] /\ nodeSurf' = nodeSurf
         \/ nodeInst' = nodeInst /\ nodeSurf' = Nodes!Gone(nodeSurf, Nodes!Of(p))
  BY <1>5 DEF Nodes!Exited
<1>7. /\ nodeInst' \in [Nodes!InstIds -> [kind: Kinds, agent: 0..MaxAgents, conn: 0..MaxLinks]]
      /\ \A i \in Nodes!InstIds : i # p => nodeInst'[i] = nodeInst[i]
      /\ nodeInst'[p].kind \in {"run", "gone"} /\ nodeInst'[p].agent = nodeInst[p].agent
      /\ nodeInst[p].kind = "gone" => nodeInst'[p].kind = "gone"
      /\ nodeInst'[p].conn = nodeInst[p].conn
  <2>1. CASE nodeInst' = [nodeInst EXCEPT ![p].kind = "gone"]
    <3>1. nodeInst[p] \in [kind: Kinds, agent: 0..MaxAgents, conn: 0..MaxLinks]
      BY <1>0, <1>4 DEF NodesTypes
    <3>2. PICK r \in [kind: Kinds, agent: 0..MaxAgents, conn: 0..MaxLinks] :
            /\ r = [nodeInst[p] EXCEPT !.kind = "gone"] /\ r.kind = "gone" /\ r.agent = nodeInst[p].agent
            /\ r.conn = nodeInst[p].conn
      <4>1. /\ [nodeInst[p] EXCEPT !.kind = "gone"] \in [kind: Kinds, agent: 0..MaxAgents, conn: 0..MaxLinks]
            /\ [nodeInst[p] EXCEPT !.kind = "gone"].kind = "gone"
            /\ [nodeInst[p] EXCEPT !.kind = "gone"].agent = nodeInst[p].agent
            /\ [nodeInst[p] EXCEPT !.kind = "gone"].conn = nodeInst[p].conn
        BY <3>1 DEF Kinds
      <4>2. QED
        BY <4>1
    <3>3. nodeInst' = [nodeInst EXCEPT ![p] = r]
      BY <2>1, <3>2
    <3>4. QED
      BY <1>0, <1>4, <3>2, <3>3 DEF NodesTypes
  <2>2. CASE nodeInst' = nodeInst
    BY <1>0, <1>4, <2>2 DEF NodesTypes
  <2>3. QED
    BY <1>6, <2>1, <2>2
<1>8. \A b \in Nodes!NodeAgents : Alive(b)' = Alive(b)
  BY <1>6 DEF Alive, Spawned
<1>9. InstsGrow
  BY <1>4, <1>7 DEF InstsGrow
<1>10. Onward
  <2>1. AliveGrows
    BY <1>0, <1>6, <1>8 DEF AliveGrows, ConnsKnown
  <2>2. QED
    BY <1>9, <2>1 DEF Onward
<1>11. InstsKnown'
  BY <1>4, <1>6, <1>7, <1>9, InstsStay
<1>12. \A d \in Nodes!Links : Listens(d)'
  BY <1>0, <1>6, <1>10, ListensStays DEF QueuesKnown, Listens, Up
<1>13. \A b \in named : p \notin Alive(b)'
  <2> SUFFICES ASSUME NEW b \in named, p \in Alive(b) PROVE FALSE
    BY <1>0, <1>8 DEF NodesTypes
  <2>1. b \in Nodes!NodeAgents
    BY <1>0 DEF NodesTypes
  <2>2. OwnedBy(b, p)
    BY <1>0, <2>1, AliveOwned
  <2>3. b = a
    BY <1>4, <2>2 DEF OwnedBy
  <2>4. QED
    BY <1>3, <2>3
<1>14. /\ nodeSurf' \in [Nodes!Shared -> Surfaces]
       /\ \A s \in Nodes!Shared :
            \/ nodeSurf'[s] = nodeSurf[s]
            \/ s \in Nodes!Live /\ nodeSurf[s].proc = p /\ nodeSurf'[s].state = "gone"
  <2>1. CASE nodeSurf' = nodeSurf
    BY <1>0, <2>1 DEF NodesTypes
  <2>2. CASE nodeSurf' = Nodes!Gone(nodeSurf, Nodes!Of(p))
    <3>1. \A r \in Surfaces : [r EXCEPT !.state = "gone"] \in Surfaces /\ [r EXCEPT !.state = "gone"].state = "gone"
      BY DEF Surfaces
    <3>2. \A s \in Nodes!Shared : nodeSurf[s] \in Surfaces
      BY <1>0 DEF NodesTypes
    <3>3. QED
      BY <2>2, <3>1, <3>2 DEF Nodes!Gone, Nodes!Of
  <2>3. QED
    BY <1>6, <2>1, <2>2
<1>15. \A s \in Nodes!Live' : s \in Nodes!Live /\ nodeSurf'[s] = nodeSurf[s]
  BY <1>14 DEF Nodes!Live
<1>16. SurfKnown'
  <2>1. \A s \in Nodes!Live' : Placed(s)'
    BY <1>10, <1>15, PlacedStays DEF NodesInv, SurfKnown, Placed
  <2>2. QED
    BY <1>10, <1>15, <2>1, SurfsMove
<1>17. AliveShown'
  <2>1. \A s \in Nodes!Live : \/ s \in Nodes!Live' /\ nodeSurf'[s].proc = nodeSurf[s].proc
                              \/ \A b \in named : nodeSurf[s].proc \notin Alive(b)'
    BY <1>13, <1>14 DEF Nodes!Live
  <2>2. \A b \in named : \A q \in Alive(b)' : q \in Alive(b)
    BY <1>0, <1>8 DEF NodesTypes
  <2>3. QED
    BY <2>1, <2>2, ShownStays
<1>18. Nodes!PeersTrue'
  <2>1. Nodes!NodeCards(nodeInst') = Nodes!NodeCards(nodeInst)
    BY <1>4, <1>7 DEF Nodes!NodeCards
  <2>2. QED
    BY <1>6, <2>1 DEF NodesInv, Nodes!PeersTrue
<1>19. UNCHANGED <<conn, using, running>> /\ toAgent' \in [Nodes!Links -> Seq(Messages)]
  BY <1>0, <1>6 DEF NodesTypes
<1>20. QED
  BY <1>2, <1>7, <1>10, <1>11, <1>12, <1>14, <1>16, <1>17, <1>18, <1>19, ReadStep

\* An agent gets a process: an instance of its own, with a surface under its
\* node.
LEMMA SpawnKeeps ==
  ASSUME NodesInv, NEW c \in Nodes!Links, toRelay[c] # <<>>, Head(toRelay[c]).type = "spawn",
         Nodes!Spawn(c), toRelay' = [toRelay EXCEPT ![c] = Tail(@)],
         UNCHANGED <<named, using, running, released>>
  PROVE  NodesInv'
<1>0. NodesTypes /\ ConnsKnown /\ QueuesKnown /\ RunningOwned /\ InstsKnown /\ SurfKnown
  BY DEF NodesInv
<1>1. PICK a \in Nodes!NodeAgents : conn[c].agent = a
  BY FirstTold
<1>2. Up(c) /\ Fine(c, Head(toRelay[c])) /\ Opened(c)
  BY FirstTold DEF Nodes!Msg
<1>3. a \in named /\ a # 0
  BY <1>1, <1>2, NodeNumbers DEF Fine
<1>4. PICK n \in Nodes!InstIds : conn[c].node = n /\ nodeInst[n] = Nodes!Made("node", a, c)
  BY <1>0, <1>1, <1>2 DEF InstsKnown
<1>5. PICK i \in Nodes!InstIds :
        /\ nodeInst[i].kind = "unused" /\ Nodes!Room({i})
        /\ nodeInst' = [nodeInst EXCEPT ![i] = Nodes!Made("run", a, c)]
        /\ nodeSurf' = Nodes!With(nodeSurf, Nodes!Published({i}, n, FALSE))
        /\ toAgent' = [toAgent EXCEPT ![c] = IF using[a] = c THEN Append(@, Nodes!Msg("spawned", {i})) ELSE @]
        /\ UNCHANGED <<conn, cards, confirmed>>
  BY <1>1, <1>4 DEF Nodes!Spawn, Nodes!FreshInst
<1>6. PICK m \in Messages : m = Nodes!Msg("spawned", {i})
  BY NodeNumbers DEF Nodes!Msg, Messages
<1>7. m.type = "spawned" /\ m.procs = {i} /\ i \in Nodes!NodeIds /\ n \in Nodes!NodeIds
  BY <1>6, NodeNumbers DEF Nodes!Msg
<1>8. /\ using[a] = c => toAgent' = [toAgent EXCEPT ![c] = Append(@, m)]
      /\ using[a] # c => toAgent' = toAgent
  <2>1. toAgent = [toAgent EXCEPT ![c] = toAgent[c]]
    BY <1>0 DEF NodesTypes
  <2>2. QED
    BY <1>5, <1>6, <2>1
<1>9. /\ nodeInst' \in [Nodes!InstIds -> [kind: Kinds, agent: 0..MaxAgents, conn: 0..MaxLinks]]
      /\ nodeInst'[i] = Nodes!Made("run", a, c) /\ \A j \in Nodes!InstIds : j # i => nodeInst'[j] = nodeInst[j]
  <2>1. Nodes!Made("run", a, c) \in [kind: Kinds, agent: 0..MaxAgents, conn: 0..MaxLinks]
    BY NodeNumbers DEF Nodes!Made, Kinds, Nodes!NodeAgents, Nodes!Links
  <2>2. QED
    BY <1>0, <1>5, <2>1 DEF NodesTypes
<1>10. /\ nodeInst'[i].kind = "run" /\ nodeInst'[i].agent = a /\ nodeInst'[i].conn = c
       /\ n # i /\ nodeInst'[n].agent = a /\ nodeInst'[n].conn = c
  BY <1>4, <1>5, <1>9 DEF Nodes!Made
<1>11. UNCHANGED <<using, running>>
  OBVIOUS
<1>12. /\ toAgent' \in [Nodes!Links -> Seq(Messages)]
       /\ \A b \in Nodes!NodeAgents : \A p \in Alive(b)' : p \in Alive(b) \/ (b = a /\ using[a] = c /\ p = i)
  <2>1. /\ toAgent' \in [Nodes!Links -> Seq(Messages)]
        /\ \A b \in Nodes!NodeAgents : \A p \in Alive(b)' :
             p \in Alive(b) \/ (b = a /\ using[a] = c /\ p \in m.procs)
    BY <1>1, <1>2, <1>6, <1>8, <1>11, TellsTypes
  <2>2. QED
    BY <1>7, <2>1
<1>13. InstsGrow
  BY <1>5, <1>9 DEF InstsGrow
<1>14. AliveGrows
  <2> SUFFICES ASSUME NEW d \in Nodes!Links, Opened(d), NEW b \in Nodes!NodeAgents, conn[d].agent = b,
                      b \in named, NEW p \in Alive(b)', p \notin Alive(b)
               PROVE  /\ p \in Nodes!InstIds /\ nodeInst[p].kind = "unused"
                      /\ using[b] # d => nodeInst'[p].conn > d
    BY <1>0, <1>5, <1>11 DEF AliveGrows, ConnsKnown
  <2>1. b = a /\ using[a] = c /\ p = i
    BY <1>12
  <2>2. d <= c \/ c = 0
    BY <1>0, <2>1 DEF ConnsKnown
  <2>3. QED
    BY <1>5, <1>10, <2>1, <2>2, NodeNumbers
<1>15. Onward
  BY <1>13, <1>14 DEF Onward
<1>16. InstsKnown'
  <2>1. \A j \in Nodes!InstIds : nodeInst[j].kind = "node" => nodeInst'[j] = nodeInst[j]
    BY <1>5, <1>9
  <2>2. \A j \in Nodes!InstIds : nodeInst[j].kind = "unused" =>
          \/ nodeInst'[j] = nodeInst[j]
          \/ \E d \in Nodes!Links : /\ Opened(d) /\ nodeInst'[j].kind # "unused" /\ nodeInst'[j].conn = d
                                    /\ nodeInst'[j].agent = conn[d].agent
    BY <1>1, <1>2, <1>9, <1>10
  <2>3. QED
    BY <1>5, <1>13, <2>1, <2>2, InstsStay
<1>17. \A d \in Nodes!Links : Listens(d)'
  <2>1. \A p \in Alive(a) : p # i
    BY <1>0, <1>3, <1>5, AliveOwned DEF OwnedBy
  <2>2. \A p \in Spawned(c) : p # i
    <3> SUFFICES ASSUME NEW j \in 1..Len(toAgent[c]), i \in toAgent[c][j].procs PROVE FALSE
      BY DEF Spawned
    <3>1. OwnedBy(a, i)
      BY <1>0, <1>1 DEF QueuesKnown, Listens, Heard
    <3>2. QED
      BY <1>3, <1>5, <3>1 DEF OwnedBy
  <2>3. Heard(a, m)'
    BY <1>3, <1>7, <1>10, <1>11, <2>1 DEF Heard, OwnedBy, Alive
  <2>4. m.procs \cap Spawned(c) = {} /\ Up(c)' /\ \A d \in Nodes!Links : Up(d) => Up(d)'
    BY <1>2, <1>5, <1>7, <2>2 DEF Up
  <2>5. QED
    BY <1>1, <1>2, <1>6, <1>8, <1>11, <1>15, <2>3, <2>4, TellsKeeps
<1>18. PICK new : new = Nodes!Published({i}, n, FALSE)
  OBVIOUS
<1>19. Gives(new, {i}, n, FALSE) /\ {i} \in SUBSET Nodes!NodeIds
  BY <1>5, <1>7, <1>18, PublishedAre
<1>20. \A s \in DOMAIN new : new[s] \in Surfaces /\ s \in Nodes!Shared /\ nodeSurf[s].state = "unused"
  <2> SUFFICES ASSUME NEW s \in DOMAIN new
               PROVE  new[s] \in Surfaces /\ s \in Nodes!Shared /\ nodeSurf[s].state = "unused"
    OBVIOUS
  <2>1. new[s] = Nodes!Surface(n, i, TRUE, FALSE) /\ s \in Nodes!Shared /\ nodeSurf[s].state = "unused"
    BY <1>19 DEF Gives
  <2>2. QED
    BY <1>7, <2>1, SurfaceType
<1>21. \A s \in Nodes!Shared : nodeSurf'[s] = IF s \in DOMAIN new THEN new[s] ELSE nodeSurf[s]
  BY <1>5, <1>18 DEF Nodes!With
<1>22. nodeSurf' \in [Nodes!Shared -> Surfaces]
  <2>1. \A s \in Nodes!Shared : nodeSurf'[s] \in Surfaces
    BY <1>0, <1>20, <1>21 DEF NodesTypes
  <2>2. nodeSurf' = [s \in Nodes!Shared |-> nodeSurf'[s]]
    BY <1>5 DEF Nodes!With
  <2>3. QED
    BY <2>1, <2>2
<1>23. \A s \in Nodes!Live : s \in Nodes!Live' /\ nodeSurf'[s] = nodeSurf[s]
  BY <1>20, <1>21 DEF Nodes!Live
<1>24. \A s \in Nodes!Live' : s \notin DOMAIN new => s \in Nodes!Live
  BY <1>21 DEF Nodes!Live
<1>25. SurfKnown' /\ Nodes!Of(i)' # {}
  <2>1. Nodes!Of(i) = {}
    BY <1>0, <1>5 DEF Nodes!Of, SurfKnown, Placed
  <2>2. \A s \in Nodes!Live' : s \notin DOMAIN new =>
          s \in Nodes!Live /\ nodeSurf'[s].proc = nodeSurf[s].proc /\ Placed(s)'
    BY <1>0, <1>15, <1>23, <1>24, PlacedStays DEF SurfKnown, Placed
  <2>3. \A p \in {i} : p \in Nodes!InstIds =>
          /\ nodeInst'[p].kind # "unused"
          /\ nodeInst'[p].agent # 0 => /\ n \in Nodes!InstIds /\ nodeInst'[n].agent = nodeInst'[p].agent
                                       /\ nodeInst'[p].conn <= nodeInst'[n].conn
    BY <1>10, NodeNumbers
  <2>4. \A s \in Nodes!Shared : s \in DOMAIN new => nodeSurf'[s] = new[s]
    BY <1>21
  <2>5. \A p \in {i} : Nodes!Of(p) = {}
    BY <2>1
  <2>6. SurfKnown' /\ \A p \in {i} : Nodes!Of(p)' # {}
    BY <1>7, <1>15, <1>19, <2>2, <2>3, <2>4, <2>5, SurfsAdded
  <2>7. QED
    BY <2>6
<1>26. AliveShown'
  <2>1. \A b \in named : \A p \in Alive(b)' : p \in Alive(b) \/ Nodes!Of(p)' # {}
    BY <1>0, <1>12, <1>25 DEF NodesTypes
  <2>2. QED
    BY <1>23, <2>1, ShownStays
<1>27. Nodes!PeersTrue'
  <2>1. Nodes!NodeCards(nodeInst') = Nodes!NodeCards(nodeInst)
    BY <1>5, <1>9, <1>10 DEF Nodes!NodeCards
  <2>2. QED
    BY <1>5, <2>1 DEF NodesInv, Nodes!PeersTrue
<1>28. UNCHANGED <<conn, using, running>>
  BY <1>5
<1>29. QED
  BY <1>2, <1>9, <1>12, <1>15, <1>16, <1>17, <1>22, <1>25, <1>26, <1>27, <1>28, ReadStep

\* An agent is unregistered: its node is gone, and what was under it.
LEMMA UnregisteredKeeps ==
  ASSUME NodesInv, NEW c \in Nodes!Links, toRelay[c] # <<>>, Head(toRelay[c]).type = "unregister",
         Nodes!Unregistered(c), toRelay' = [toRelay EXCEPT ![c] = Tail(@)],
         UNCHANGED <<named, using, running, released>>
  PROVE  NodesInv'
<1>0. NodesTypes /\ ConnsKnown /\ QueuesKnown /\ RunningOwned /\ InstsKnown /\ SurfKnown
  BY DEF NodesInv
<1>1. PICK a \in Nodes!NodeAgents : conn[c].agent = a
  BY FirstTold
<1>2. Up(c) /\ Fine(c, Head(toRelay[c])) /\ Opened(c) /\ Tail(toRelay[c]) = <<>>
  BY FirstTold DEF Nodes!Msg
<1>3. a \in named /\ a # 0 /\ using[a] # c /\ \A p \in Alive(a) : nodeInst[p].conn > c
  BY <1>1, <1>2, NodeNumbers DEF Fine
<1>4. PICK n \in Nodes!InstIds : conn[c].node = n /\ nodeInst[n] = Nodes!Made("node", a, c)
  BY <1>0, <1>1, <1>2 DEF InstsKnown
<1>5. PICK off : off = {s \in Nodes!Live : nodeSurf[s].node = n}
  OBVIOUS
<1>6. /\ conn' = [conn EXCEPT ![c].state = "unregistered"]
      /\ nodeInst' = [nodeInst EXCEPT ![n].kind = "gone"]
      /\ nodeSurf' = Nodes!Gone(nodeSurf, off) /\ UNCHANGED <<cards, toAgent>>
  BY <1>4, <1>5 DEF Nodes!Unregistered
<1>7. /\ nodeInst' \in [Nodes!InstIds -> [kind: Kinds, agent: 0..MaxAgents, conn: 0..MaxLinks]]
      /\ \A i \in Nodes!InstIds : i # n => nodeInst'[i] = nodeInst[i]
      /\ nodeInst'[n] = Nodes!Made("gone", a, c)
  <2>1. /\ Nodes!Made("gone", a, c) \in [kind: Kinds, agent: 0..MaxAgents, conn: 0..MaxLinks]
        /\ [Nodes!Made("node", a, c) EXCEPT !.kind = "gone"] = Nodes!Made("gone", a, c)
    BY NodeNumbers DEF Nodes!Made, Kinds, Nodes!NodeAgents, Nodes!Links
  <2>2. nodeInst' = [nodeInst EXCEPT ![n] = Nodes!Made("gone", a, c)]
    BY <1>4, <1>6, <2>1
  <2>3. QED
    BY <1>0, <2>1, <2>2 DEF NodesTypes
<1>8. /\ conn' \in [Nodes!Links -> [agent: 0..MaxAgents, state: States, node: 0..MaxInsts]]
      /\ conn'[c].agent = a /\ conn'[c].state = "unregistered"
      /\ \A d \in Nodes!Links : d # c => conn'[d] = conn[d]
  <2>1. "unregistered" \in States
    BY DEF States
  <2>2. QED
    BY <1>0, <1>1, <1>6, <2>1 DEF NodesTypes
<1>9. \A b \in Nodes!NodeAgents : Alive(b)' = Alive(b)
  BY <1>6 DEF Alive, Spawned
<1>10. InstsGrow
  BY <1>4, <1>7, SMTT(30) DEF InstsGrow, Nodes!Made
<1>11. Onward
  <2>1. \A d \in Nodes!Links : Opened(d) => conn'[d].agent = conn[d].agent /\ conn[d].agent \in Nodes!NodeAgents
    BY <1>0, <1>1, <1>8 DEF ConnsKnown
  <2>2. AliveGrows
    BY <1>9, <2>1 DEF AliveGrows
  <2>3. QED
    BY <1>10, <2>2 DEF Onward
<1>12. \A d \in Nodes!Links : Opened(d)' <=> Opened(d)
  BY <1>2, <1>8 DEF Opened
<1>13. InstsKnown'
  <2>1. ASSUME NEW d \in Nodes!Links, Up(d)'
        PROVE  /\ conn'[d].node \in Nodes!InstIds
               /\ nodeInst'[conn'[d].node] = Nodes!Made("node", conn'[d].agent, d)
    <3>1. d # c /\ conn'[d] = conn[d] /\ Up(d)
      BY <1>8, <2>1 DEF Up
    <3>2. conn[d].node \in Nodes!InstIds /\ nodeInst[conn[d].node] = Nodes!Made("node", conn[d].agent, d)
      BY <1>0, <3>1 DEF InstsKnown
    <3>3. conn[d].node # n
      BY <1>4, <3>1, <3>2 DEF Nodes!Made
    <3>4. QED
      BY <1>7, <3>1, <3>2, <3>3
  <2>2. ASSUME NEW i \in Nodes!InstIds
        PROVE  /\ nodeInst'[i].kind = "unused" => nodeInst'[i].agent = 0
               /\ nodeInst'[i].agent # 0 => \E d \in Nodes!Links :
                    d = nodeInst'[i].conn /\ Opened(d)' /\ conn'[d].agent = nodeInst'[i].agent
    <3>1. CASE i = n
      BY <1>2, <1>7, <1>8, <1>12, <3>1 DEF Nodes!Made
    <3>2. CASE i # n
      <4>1. nodeInst'[i] = nodeInst[i]
        BY <1>7, <3>2
      <4>2. /\ nodeInst[i].kind = "unused" => nodeInst[i].agent = 0
            /\ nodeInst[i].agent # 0 => \E d \in Nodes!Links :
                 d = nodeInst[i].conn /\ Opened(d) /\ conn[d].agent = nodeInst[i].agent
        BY <1>0 DEF InstsKnown
      <4>3. \A d \in Nodes!Links : Opened(d) => Opened(d)' /\ conn'[d].agent = conn[d].agent
        BY <1>1, <1>8, <1>12
      <4>4. QED
        BY <4>1, <4>2, <4>3
    <3>3. QED
      BY <3>1, <3>2
  <2>3. QED
    BY <2>1, <2>2 DEF InstsKnown, Opened, Up
<1>14. toRelay' \in [Nodes!Links -> Seq(Messages)] /\ \A d \in Nodes!Links : Told(d)'
  BY <1>2, <1>8, <1>11, ReadTold
<1>15. \A d \in Nodes!Links : Listens(d)'
  <2> SUFFICES ASSUME NEW d \in Nodes!Links PROVE Listens(d)'
    OBVIOUS
  <2>1. toAgent[d] # <<>> => Up(d) /\ using[conn[d].agent] = d /\ d # c
    BY <1>0, <1>1, <1>3 DEF QueuesKnown, Listens
  <2>2. toAgent[d] # <<>> => Up(d)'
    BY <1>8, <2>1 DEF Up
  <2>3. QED
    BY <1>6, <1>11, <2>1, <2>2, ListensStays
<1>16. /\ nodeSurf' \in [Nodes!Shared -> Surfaces]
       /\ \A s \in Nodes!Shared :
            \/ nodeSurf'[s] = nodeSurf[s]
            \/ s \in Nodes!Live /\ nodeSurf[s].node = n /\ nodeSurf'[s].state = "gone"
  <2>1. \A r \in Surfaces : [r EXCEPT !.state = "gone"] \in Surfaces /\ [r EXCEPT !.state = "gone"].state = "gone"
    BY DEF Surfaces
  <2>2. \A s \in Nodes!Shared : nodeSurf[s] \in Surfaces
    BY <1>0 DEF NodesTypes
  <2>3. QED
    BY <1>5, <1>6, <2>1, <2>2 DEF Nodes!Gone
<1>17. \A s \in Nodes!Live' : s \in Nodes!Live /\ nodeSurf'[s] = nodeSurf[s]
  BY <1>16 DEF Nodes!Live
<1>18. SurfKnown'
  <2>1. \A s \in Nodes!Live' : Placed(s)'
    BY <1>0, <1>11, <1>17, PlacedStays DEF SurfKnown, Placed
  <2>2. QED
    BY <1>11, <1>17, <2>1, SurfsMove
<1>19. AliveShown'
  <2>1. ASSUME NEW s \in Nodes!Live, nodeSurf[s].node = n, NEW b \in named PROVE nodeSurf[s].proc \notin Alive(b)
    <3> SUFFICES ASSUME nodeSurf[s].proc \in Alive(b) PROVE FALSE
      OBVIOUS
    <3>1. b \in Nodes!NodeAgents /\ b # 0
      BY <1>0, NodeNumbers DEF NodesTypes
    <3>2. PICK p : p = nodeSurf[s].proc
      OBVIOUS
    <3>3. OwnedBy(b, p) /\ Placed(s)
      BY <1>0, <3>1, <3>2, AliveOwned DEF SurfKnown
    <3>4. p \in Nodes!InstIds /\ nodeInst[p].agent = b
      BY <3>3 DEF OwnedBy
    <3>5. nodeInst[n].agent = b /\ nodeInst[p].conn <= nodeInst[n].conn
      BY <2>1, <3>1, <3>2, <3>3, <3>4 DEF Placed
    <3>6. b = a /\ nodeInst[p].conn <= c
      BY <1>4, <3>5 DEF Nodes!Made
    <3>7. nodeInst[p].conn > c /\ nodeInst[p].conn \in 0..MaxLinks
      BY <1>0, <1>3, <3>2, <3>4, <3>6 DEF NodesTypes
    <3>8. QED
      BY <3>6, <3>7, NodeNumbers
  <2>2. \A s \in Nodes!Live : \/ s \in Nodes!Live' /\ nodeSurf'[s].proc = nodeSurf[s].proc
                              \/ \A b \in named : nodeSurf[s].proc \notin Alive(b)'
    <3> SUFFICES ASSUME NEW s \in Nodes!Live
                 PROVE  \/ s \in Nodes!Live' /\ nodeSurf'[s].proc = nodeSurf[s].proc
                        \/ \A b \in named : nodeSurf[s].proc \notin Alive(b)'
      OBVIOUS
    <3>1. CASE nodeSurf'[s] = nodeSurf[s]
      BY <3>1 DEF Nodes!Live
    <3>2. CASE nodeSurf[s].node = n
      BY <1>0, <1>9, <2>1, <3>2 DEF NodesTypes
    <3>3. QED
      BY <1>16, <3>1, <3>2 DEF Nodes!Live
  <2>3. \A b \in named : \A q \in Alive(b)' : q \in Alive(b)
    BY <1>0, <1>9 DEF NodesTypes
  <2>4. QED
    BY <2>2, <2>3, ShownStays
<1>20. Nodes!PeersTrue'
  BY <1>8 DEF Nodes!PeersTrue
<1>21. \A b \in Nodes!NodeAgents : using[b] # 0 => conn'[using[b]].state \in {"open", "registered"}
  <2> SUFFICES ASSUME NEW b \in Nodes!NodeAgents, using[b] # 0
               PROVE  conn'[using[b]].state \in {"open", "registered"}
    OBVIOUS
  <2>1. using[b] \in Nodes!Links /\ conn[using[b]].agent = b /\ conn[using[b]].state \in {"open", "registered"}
    BY <1>0, UsedLink
  <2>2. using[b] # c
    BY <1>1, <1>3, <2>1
  <2>3. QED
    BY <1>8, <2>1, <2>2
<1>22. NodesTypes'
  BY <1>0, <1>6, <1>7, <1>8, <1>14, <1>16 DEF NodesTypes
<1>23. UNCHANGED <<using, running>> /\ QueuesKnown'
  BY <1>14, <1>15 DEF QueuesKnown
<1>24. QED
  BY <1>11, <1>12, <1>13, <1>18, <1>19, <1>20, <1>21, <1>22, <1>23, RelayStep

\* An agent reports what runs on it: that comes under its node, and what it
\* does not report goes unless it is kept.
LEMMA ReportKeeps ==
  ASSUME NodesInv, NEW c \in Nodes!Links, toRelay[c] # <<>>, Head(toRelay[c]).type = "report",
         Nodes!Report(c, Head(toRelay[c]).procs), toRelay' = [toRelay EXCEPT ![c] = Tail(@)],
         UNCHANGED <<named, using, running, released>>
  PROVE  NodesInv'
<1>0. NodesTypes /\ ConnsKnown /\ InstsKnown /\ SurfKnown
  BY DEF NodesInv
<1>1. PICK a \in Nodes!NodeAgents : conn[c].agent = a
  BY FirstTold
<1>2. Up(c) /\ Fine(c, Head(toRelay[c])) /\ Opened(c) /\ Head(toRelay[c]) \in Messages
  BY FirstTold DEF Nodes!Msg
<1> DEFINE procs == Head(toRelay[c]).procs
           n == Nodes!Node(c)
           ps == {p \in procs : Nodes!Of(p) = {}}
           new == Nodes!Published(ps, n, FALSE)
           kept == Nodes!With(Nodes!Remapped(n, procs), new)
           stale == {s \in Nodes!Shared : /\ kept[s].state = "live" /\ kept[s].proc \notin procs
                                          /\ Nodes!Exists(kept[s].node) /\ Nodes!Exists(n)
                                          /\ Nodes!LabelOf(kept[s].node) = Nodes!LabelOf(n)}
<1>3. Nodes!Room(ps)
  BY DEF Nodes!Report
<1>4. nodeSurf' = [s \in Nodes!Shared |->
                     CASE s \in stale /\ kept[s].keep -> [kept[s] EXCEPT !.orphaned = TRUE]
                       [] s \in stale /\ ~kept[s].keep -> [kept[s] EXCEPT !.state = "gone"]
                       [] s \notin stale -> kept[s]]
  BY DEF Nodes!Report
<1>5. UNCHANGED <<nodeInst, conn, cards, toAgent>>
  BY DEF Nodes!Report
<1> HIDE DEF n
<1>6. IF a \in named THEN n \in Nodes!InstIds /\ nodeInst[n] = Nodes!Made("node", a, c) ELSE n = -a
  BY <1>0, <1>1, <1>2 DEF InstsKnown, Nodes!Node, n
<1>7. n \in Nodes!NodeIds
  BY <1>6, NodeNumbers
<1>8. /\ procs \in SUBSET Nodes!NodeIds
      /\ \A p \in procs : OwnedBy(a, p) /\ (a \in named => nodeInst[p].conn <= c)
  BY <1>1, <1>2 DEF Fine, Messages
<1>9. ps \in SUBSET Nodes!NodeIds /\ (\A p \in ps : Nodes!Of(p) = {}) /\ ps \subseteq procs
  BY <1>8
<1>10. Gives(new, ps, n, FALSE)
  BY <1>3, <1>9, PublishedAre
<1>11. \A s \in stale : kept[s].proc \notin procs
  OBVIOUS
<1>12. \A s \in Nodes!Shared :
         kept[s] = IF s \in DOMAIN new THEN new[s]
                   ELSE IF s \in Nodes!Live /\ nodeSurf[s].proc \in procs
                   THEN [nodeSurf[s] EXCEPT !.orphaned = FALSE, !.node = n] ELSE nodeSurf[s]
  BY DEF Nodes!With, Nodes!Remapped
<1> HIDE DEF procs, ps, new, kept, stale
<1>13. \A s \in DOMAIN new : /\ new[s] \in Surfaces /\ new[s].state = "live" /\ new[s].proc \in procs
                             /\ s \in Nodes!Shared /\ nodeSurf[s].state = "unused"
  <2> SUFFICES ASSUME NEW s \in DOMAIN new
               PROVE  /\ new[s] \in Surfaces /\ new[s].state = "live" /\ new[s].proc \in procs
                      /\ s \in Nodes!Shared /\ nodeSurf[s].state = "unused"
    OBVIOUS
  <2>1. PICK p \in ps : new[s] = Nodes!Surface(n, p, TRUE, FALSE)
    BY <1>10 DEF Gives
  <2>2. new[s] \in Surfaces /\ new[s].state = "live"
    BY <1>7, <1>9, <2>1, SurfaceType
  <2>3. new[s].proc = p
    BY <2>1 DEF Nodes!Surface
  <2>4. QED
    BY <1>9, <1>10, <2>2, <2>3 DEF Gives
<1>14. ASSUME NEW s \in Nodes!Shared, s \notin DOMAIN new
       PROVE  /\ kept[s] \in Surfaces /\ kept[s].state = nodeSurf[s].state /\ kept[s].proc = nodeSurf[s].proc
              /\ kept[s].keep = nodeSurf[s].keep
              /\ \/ kept[s].node = nodeSurf[s].node
                 \/ s \in Nodes!Live /\ nodeSurf[s].proc \in procs /\ kept[s].node = n
  <2>1. nodeSurf[s] \in Surfaces
    BY <1>0 DEF NodesTypes
  <2>2. CASE s \in Nodes!Live /\ nodeSurf[s].proc \in procs
    <3>1. kept[s] = [nodeSurf[s] EXCEPT !.orphaned = FALSE, !.node = n]
      BY <1>12, <1>14, <2>2
    <3>2. QED
      BY <1>7, <2>1, <2>2, <3>1 DEF Surfaces
  <2>3. CASE ~(s \in Nodes!Live /\ nodeSurf[s].proc \in procs)
    <3>1. kept[s] = nodeSurf[s]
      BY <1>12, <1>14, <2>3
    <3>2. QED
      BY <2>1, <3>1
  <2>4. QED
    BY <2>2, <2>3
<1>15. \A s \in Nodes!Shared : kept[s] \in Surfaces
  BY <1>12, <1>13, <1>14
<1>16. \A r \in Surfaces :
         /\ [r EXCEPT !.orphaned = TRUE] \in Surfaces /\ [r EXCEPT !.state = "gone"] \in Surfaces
         /\ [r EXCEPT !.orphaned = TRUE].state = r.state /\ [r EXCEPT !.orphaned = TRUE].proc = r.proc
         /\ [r EXCEPT !.orphaned = TRUE].node = r.node /\ [r EXCEPT !.orphaned = TRUE].keep = r.keep
         /\ [r EXCEPT !.state = "gone"].state = "gone"
  BY DEF Surfaces
<1>17. ASSUME NEW s \in Nodes!Shared
       PROVE  /\ nodeSurf'[s] \in Surfaces
              /\ \/ /\ nodeSurf'[s].state = kept[s].state /\ nodeSurf'[s].proc = kept[s].proc
                    /\ nodeSurf'[s].node = kept[s].node /\ nodeSurf'[s].keep = kept[s].keep
                    /\ s \notin stale => nodeSurf'[s] = kept[s]
                 \/ s \in stale /\ ~kept[s].keep /\ nodeSurf'[s].state = "gone"
  <2>1. CASE s \in stale /\ kept[s].keep
    <3>1. nodeSurf'[s] = [kept[s] EXCEPT !.orphaned = TRUE]
      BY <1>4, <2>1
    <3>2. QED
      BY <1>15, <1>16, <2>1, <3>1, ZenonT(60)
  <2>2. CASE s \in stale /\ ~kept[s].keep
    <3>1. nodeSurf'[s] = [kept[s] EXCEPT !.state = "gone"]
      BY <1>4, <2>2
    <3>2. nodeSurf'[s] \in Surfaces
      BY <1>15, <1>16, <3>1
    <3>3. nodeSurf'[s].state = "gone"
      BY <1>15, <1>16, <3>1
    <3>4. QED
      BY <2>2, <3>2, <3>3, Zenon
  <2>3. CASE s \notin stale
    BY <1>4, <1>15, <2>3
  <2>4. QED
    BY <2>1, <2>2, <2>3
<1>18. nodeSurf' \in [Nodes!Shared -> Surfaces]
  <2>1. nodeSurf' = [s \in Nodes!Shared |-> nodeSurf'[s]]
    BY <1>4
  <2>2. QED
    BY <1>17, <2>1
<1>19. UNCHANGED <<named, nodeInst, conn, using, running, toAgent>>
  BY <1>5
<1>20. Onward /\ \A b \in Nodes!NodeAgents : Alive(b)' = Alive(b)
  BY <1>19, SurfsOnward
<1>21. ASSUME NEW s \in Nodes!Live', s \notin DOMAIN new
       PROVE  s \in Nodes!Live /\ nodeSurf'[s].proc = nodeSurf[s].proc /\ Placed(s)'
  <2>1. s \in Nodes!Shared /\ nodeSurf'[s].state = "live"
    BY DEF Nodes!Live
  <2>2. /\ nodeSurf'[s].state = nodeSurf[s].state /\ nodeSurf'[s].proc = nodeSurf[s].proc
        /\ nodeSurf'[s].node = kept[s].node /\ nodeSurf'[s].keep = nodeSurf[s].keep
    BY <1>14, <1>17, <1>21, <2>1
  <2>3. s \in Nodes!Live /\ Placed(s)
    BY <1>0, <2>1, <2>2 DEF Nodes!Live, SurfKnown
  <2>4. nodeSurf'[s].keep \/ nodeSurf[s].proc \in released'
    BY <2>2, <2>3 DEF Placed
  <2>5. CASE nodeSurf'[s].node = nodeSurf[s].node
    BY <1>20, <2>2, <2>3, <2>4, <2>5, PlacedStays
  <2>6. CASE nodeSurf[s].proc \in procs /\ nodeSurf'[s].node = n
    <3>1. PICK p \in procs : p = nodeSurf[s].proc
      BY <2>6
    <3>2. OwnedBy(a, p) /\ (a \in named => nodeInst[p].conn <= c)
      BY <1>8, <3>1
    <3>3. ASSUME p \in Nodes!InstIds
          PROVE  /\ nodeInst[p].kind # "unused"
                 /\ n \in Nodes!InstIds /\ nodeInst[n].agent = nodeInst[p].agent
                 /\ nodeInst[p].conn <= nodeInst[n].conn
      <4>1. a \in named
        BY <3>2, <3>3, NodeNumbers DEF OwnedBy
      <4>2. nodeInst[n].agent = a /\ nodeInst[n].conn = c /\ n \in Nodes!InstIds
        BY <1>6, <4>1 DEF Nodes!Made
      <4>3. QED
        BY <3>2, <4>1, <4>2 DEF OwnedBy
    <3>4. p \in Nodes!NodeIds /\ nodeSurf'[s].proc = p
      BY <1>8, <2>2, <3>1
    <3>5. Placed(s)'
      BY <1>7, <1>19, <2>4, <2>6, <3>1, <3>3, <3>4 DEF Placed
    <3>6. QED
      BY <2>2, <2>3, <3>5
  <2>7. QED
    BY <1>14, <1>21, <2>1, <2>2, <2>3, <2>5, <2>6
<1>22. SurfKnown' /\ \A p \in ps : Nodes!Of(p)' # {}
  <2>1. \A s \in Nodes!Shared : s \in DOMAIN new => nodeSurf'[s] = new[s]
    BY <1>11, <1>12, <1>13, <1>17
  <2>2. \A p \in ps : p \in Nodes!InstIds =>
          /\ nodeInst'[p].kind # "unused"
          /\ nodeInst'[p].agent # 0 => /\ n \in Nodes!InstIds /\ nodeInst'[n].agent = nodeInst'[p].agent
                                       /\ nodeInst'[p].conn <= nodeInst'[n].conn
    <3> SUFFICES ASSUME NEW p \in ps, p \in Nodes!InstIds
                 PROVE  /\ nodeInst[p].kind # "unused"
                        /\ n \in Nodes!InstIds /\ nodeInst[n].agent = nodeInst[p].agent
                        /\ nodeInst[p].conn <= nodeInst[n].conn
      BY <1>19
    <3>1. OwnedBy(a, p) /\ (a \in named => nodeInst[p].conn <= c)
      BY <1>8, <1>9
    <3>2. a \in named
      BY <3>1, NodeNumbers DEF OwnedBy
    <3>3. nodeInst[n].agent = a /\ nodeInst[n].conn = c /\ n \in Nodes!InstIds
      BY <1>6, <3>2 DEF Nodes!Made
    <3>4. QED
      BY <3>1, <3>2, <3>3 DEF OwnedBy
  <2>3. QED
    BY <1>7, <1>9, <1>10, <1>20, <1>21, <2>1, <2>2, SurfsAdded
<1>23. AliveShown'
  <2>1. released \subseteq released' /\ named' = named /\ named \subseteq Nodes!NodeAgents
    BY <1>0 DEF NodesTypes
  <2>2. ASSUME NEW s \in Nodes!Live, nodeSurf[s].proc \notin released'
        PROVE  s \in Nodes!Live' /\ nodeSurf'[s].proc = nodeSurf[s].proc
    <3>1. s \in Nodes!Shared /\ nodeSurf[s].state = "live" /\ nodeSurf[s].keep
      BY <1>0, <2>2 DEF Nodes!Live, SurfKnown, Placed
    <3>2. s \notin DOMAIN new
      BY <1>13, <3>1
    <3>3. /\ nodeSurf'[s].state = "live" /\ nodeSurf'[s].proc = nodeSurf[s].proc
      BY <1>14, <1>17, <3>1, <3>2
    <3>4. QED
      BY <3>1, <3>3 DEF Nodes!Live
  <2>3. QED
    BY <1>20, <2>1, <2>2, ShownStays
<1>24. toRelay' \in [Nodes!Links -> Seq(Messages)] /\ \A d \in Nodes!Links : Told(d)'
  BY <1>2, <1>5, <1>20, ReadTold
<1>25. cards' = cards
  BY <1>5
<1>26. QED
  BY <1>18, <1>19, <1>22, <1>23, <1>24, <1>25, SurfStep

\* The relay reads a message.
LEMMA RelayReceivesKeeps ==
  ASSUME NodesInv, NEW c \in Nodes!Links, Nodes!RelayReceives(c)
  PROVE  NodesInv'
<1>1. /\ toRelay[c] # <<>> /\ toRelay' = [toRelay EXCEPT ![c] = Tail(@)]
      /\ UNCHANGED <<named, using, running, released>>
  BY DEF Nodes!RelayReceives
<1>2. Head(toRelay[c]).type \in {"register", "report", "spawn", "exit", "unregister"}
  BY <1>1, FirstTold DEF Fine, Nodes!Msg
<1>3. CASE Head(toRelay[c]).type = "register"
  BY <1>1, <1>3, RegisterNodeKeeps DEF Nodes!RelayReceives
<1>4. CASE Head(toRelay[c]).type = "report"
  BY <1>1, <1>4, ReportKeeps DEF Nodes!RelayReceives
<1>5. CASE Head(toRelay[c]).type = "spawn"
  BY <1>1, <1>5, SpawnKeeps DEF Nodes!RelayReceives
<1>6. CASE Head(toRelay[c]).type = "exit"
  BY <1>1, <1>6, ExitedKeeps DEF Nodes!RelayReceives
<1>7. CASE Head(toRelay[c]).type = "unregister"
  BY <1>1, <1>7, UnregisteredKeeps DEF Nodes!RelayReceives
<1>8. QED
  BY <1>2, <1>3, <1>4, <1>5, <1>6, <1>7

\* A socket closes: the node of its connection is gone.
LEMMA ClosesKeeps ==
  ASSUME NodesInv, NEW c \in Nodes!Links, Nodes!Closes(c)
  PROVE  NodesInv'
<1>0. NodesTypes /\ ConnsKnown /\ QueuesKnown /\ InstsKnown /\ SurfKnown
  BY DEF NodesInv
<1> DEFINE its == {i \in Nodes!InstIds : Nodes!Remote(i) /\ nodeInst[i].conn = c}
           first == {i \in its : \A j \in its : i <= j}
<1>1. /\ conn[c].state \in {"open", "registered", "unregistered"} /\ using[conn[c].agent] # c
      /\ conn' = [conn EXCEPT ![c].state = "closed"] /\ toRelay' = [toRelay EXCEPT ![c] = <<>>]
      /\ nodeInst' = [i \in Nodes!InstIds |-> IF i \in first THEN [nodeInst[i] EXCEPT !.kind = "gone"] ELSE nodeInst[i]]
      /\ cards' = Nodes!NodeCards(nodeInst')
      /\ UNCHANGED <<named, using, toAgent, running, nodeSurf, released>>
  BY DEF Nodes!Closes
<1>2. \A i \in first : nodeInst[i].kind \in {"node", "run"} /\ nodeInst[i].conn = c
  BY DEF Nodes!Remote
<1> HIDE DEF its, first
<1>3. PICK a \in Nodes!NodeAgents : conn[c].agent = a /\ using[a] # c
  BY <1>0, <1>1 DEF ConnsKnown, Opened
<1>4. ASSUME NEW i \in Nodes!InstIds
      PROVE  /\ nodeInst'[i] \in [kind: Kinds, agent: 0..MaxAgents, conn: 0..MaxLinks]
             /\ nodeInst'[i].agent = nodeInst[i].agent /\ nodeInst'[i].conn = nodeInst[i].conn
             /\ \/ nodeInst'[i] = nodeInst[i]
                \/ nodeInst[i].kind \in {"node", "run"} /\ nodeInst'[i].kind = "gone" /\ nodeInst[i].conn = c
  <2>1. nodeInst[i] \in [kind: Kinds, agent: 0..MaxAgents, conn: 0..MaxLinks]
    BY <1>0 DEF NodesTypes
  <2>2. CASE i \in first
    <3>1. nodeInst'[i] = [nodeInst[i] EXCEPT !.kind = "gone"]
      BY <1>1, <2>2
    <3>2. QED
      BY <1>2, <2>1, <2>2, <3>1 DEF Kinds
  <2>3. CASE i \notin first
    BY <1>1, <2>1, <2>3
  <2>4. QED
    BY <2>2, <2>3
<1>5. nodeInst' \in [Nodes!InstIds -> [kind: Kinds, agent: 0..MaxAgents, conn: 0..MaxLinks]]
  <2>1. nodeInst' = [i \in Nodes!InstIds |-> nodeInst'[i]]
    BY <1>1
  <2>2. QED
    BY <1>4, <2>1
<1>6. /\ conn' \in [Nodes!Links -> [agent: 0..MaxAgents, state: States, node: 0..MaxInsts]]
      /\ conn'[c].agent = a /\ conn'[c].state = "closed"
      /\ \A d \in Nodes!Links : d # c => conn'[d] = conn[d]
  <2>1. "closed" \in States
    BY DEF States
  <2>2. QED
    BY <1>0, <1>1, <1>3, <2>1 DEF NodesTypes
<1>7. /\ toRelay' \in [Nodes!Links -> Seq(Messages)] /\ toRelay'[c] = <<>>
      /\ \A d \in Nodes!Links : d # c => toRelay'[d] = toRelay[d]
  BY <1>0, <1>1, EmptySeq DEF NodesTypes
<1>8. \A b \in Nodes!NodeAgents : Alive(b)' = Alive(b)
  BY <1>1 DEF Alive, Spawned
<1>9. InstsGrow
  BY <1>4 DEF InstsGrow
<1>10. \A d \in Nodes!Links : Opened(d) => conn'[d].agent = conn[d].agent /\ conn[d].agent \in Nodes!NodeAgents
  BY <1>0, <1>3, <1>6 DEF ConnsKnown
<1>11. Onward
  <2>1. AliveGrows
    BY <1>1, <1>8, <1>10 DEF AliveGrows
  <2>2. QED
    BY <1>1, <1>9, <2>1 DEF Onward
<1>12. \A d \in Nodes!Links : Opened(d)' <=> Opened(d)
  BY <1>1, <1>6 DEF Opened
<1>13. InstsKnown'
  <2>1. ASSUME NEW d \in Nodes!Links, Up(d)'
        PROVE  /\ conn'[d].node \in Nodes!InstIds
               /\ nodeInst'[conn'[d].node] = Nodes!Made("node", conn'[d].agent, d)
    <3>1. d # c /\ conn'[d] = conn[d] /\ Up(d)
      BY <1>6, <2>1 DEF Up
    <3>2. conn[d].node \in Nodes!InstIds /\ nodeInst[conn[d].node] = Nodes!Made("node", conn[d].agent, d)
      BY <1>0, <3>1 DEF InstsKnown
    <3>3. nodeInst[conn[d].node].conn # c
      BY <3>1, <3>2 DEF Nodes!Made
    <3>4. QED
      BY <1>4, <3>1, <3>2, <3>3
  <2>2. ASSUME NEW i \in Nodes!InstIds
        PROVE  /\ nodeInst'[i].kind = "unused" => nodeInst'[i].agent = 0
               /\ nodeInst'[i].agent # 0 => \E d \in Nodes!Links :
                    d = nodeInst'[i].conn /\ Opened(d)' /\ conn'[d].agent = nodeInst'[i].agent
    <3>1. /\ nodeInst[i].kind = "unused" => nodeInst[i].agent = 0
          /\ nodeInst[i].agent # 0 => \E d \in Nodes!Links :
               d = nodeInst[i].conn /\ Opened(d) /\ conn[d].agent = nodeInst[i].agent
      BY <1>0 DEF InstsKnown
    <3>2. QED
      BY <1>4, <1>10, <1>12, <3>1
  <2>3. QED
    BY <2>1, <2>2 DEF InstsKnown, Opened, Up
<1>14. QueuesKnown'
  <2>1. ASSUME NEW d \in Nodes!Links PROVE Told(d)'
    <3>1. CASE d = c
      BY <1>6, <1>7, <3>1 DEF Told, Up
    <3>2. CASE d # c
      BY <1>6, <1>7, <1>11, <3>2, ToldStays
    <3>3. QED
      BY <3>1, <3>2
  <2>2. ASSUME NEW d \in Nodes!Links PROVE Listens(d)'
    <3>1. toAgent[d] # <<>> => Up(d) /\ using[conn[d].agent] = d /\ d # c
      BY <1>0, <1>3 DEF QueuesKnown, Listens
    <3>2. toAgent[d] # <<>> => Up(d)'
      BY <1>6, <3>1 DEF Up
    <3>3. QED
      BY <1>1, <1>11, <3>1, <3>2, ListensStays
  <2>3. QED
    BY <2>1, <2>2 DEF QueuesKnown
<1>15. SurfKnown' /\ \A p : Nodes!Of(p)' = Nodes!Of(p)
  BY <1>1, <1>11, SurfsStay
<1>16. AliveShown'
  BY <1>0, <1>1, <1>8, <1>15 DEF NodesInv, AliveShown, NodesTypes
<1>17. Nodes!PeersTrue'
  BY <1>1 DEF Nodes!PeersTrue, Nodes!NodeCards
<1>18. \A b \in Nodes!NodeAgents : using[b] # 0 => conn'[using[b]].state \in {"open", "registered"}
  <2> SUFFICES ASSUME NEW b \in Nodes!NodeAgents, using[b] # 0
               PROVE  conn'[using[b]].state \in {"open", "registered"}
    OBVIOUS
  <2>1. using[b] \in Nodes!Links /\ conn[using[b]].agent = b /\ conn[using[b]].state \in {"open", "registered"}
    BY <1>0, UsedLink
  <2>2. using[b] # c
    BY <1>3, <2>1
  <2>3. QED
    BY <1>6, <2>1, <2>2
<1>19. NodesTypes'
  BY <1>0, <1>1, <1>5, <1>6, <1>7 DEF NodesTypes
<1>20. UNCHANGED <<using, running>>
  BY <1>1
<1>21. QED
  BY <1>11, <1>12, <1>13, <1>14, <1>15, <1>16, <1>17, <1>18, <1>19, <1>20, RelayStep

\* The relay starts again: no instance and no connection is left, and of the
\* surfaces those that are kept.
LEMMA RestartKeeps ==
  ASSUME NodesInv, Nodes!Restart
  PROVE  NodesInv'
<1>0. NodesTypes /\ ConnsKnown /\ QueuesKnown /\ InstsKnown /\ SurfKnown /\ RunningOwned
  BY DEF NodesInv
<1>1. PICK stale : stale = {s \in Nodes!Live : nodeSurf[s].proc # nodeSurf[s].node}
  OBVIOUS
<1>2. PICK off : off = {s \in stale : ~nodeSurf[s].keep}
  OBVIOUS
<1>3. PICK i \in Nodes!InstIds :
        /\ nodeInst[i].kind = "unused"
        /\ nodeInst' = [j \in Nodes!InstIds |-> IF j = i THEN Nodes!Made("local", 0, 0)
                                                  ELSE IF nodeInst[j].kind = "unused" THEN nodeInst[j]
                                                  ELSE [nodeInst[j] EXCEPT !.kind = "gone"]]
  BY DEF Nodes!Restart, Nodes!FreshInst
<1>4. /\ conn' = [c \in Nodes!Links |-> IF conn[c].state = "new" THEN conn[c] ELSE [conn[c] EXCEPT !.state = "closed"]]
      /\ using' = [a \in Nodes!NodeAgents |-> 0]
      /\ running' = [b \in Nodes!NodeAgents |-> IF b \in Nodes!NodeAgents \ named THEN {} ELSE running[b]]
      /\ toRelay' = [c \in Nodes!Links |-> <<>>] /\ toAgent' = [c \in Nodes!Links |-> <<>>]
      /\ cards' = {} /\ UNCHANGED <<named, released>>
  BY DEF Nodes!Restart, Nodes!Lost
<1>5. nodeSurf' = [s \in Nodes!Shared |->
                     CASE s \in off -> [nodeSurf[s] EXCEPT !.state = "gone"]
                       [] s \in stale \ off -> [nodeSurf[s] EXCEPT !.orphaned = TRUE]
                       [] s \notin stale -> nodeSurf[s]]
  BY <1>1, <1>2 DEF Nodes!Restart
<1>6. ASSUME NEW j \in Nodes!InstIds
      PROVE  /\ nodeInst'[j] \in [kind: Kinds, agent: 0..MaxAgents, conn: 0..MaxLinks]
             /\ nodeInst'[j].kind # "node"
             /\ IF nodeInst[j].kind = "unused" THEN nodeInst'[j].agent = 0
                ELSE nodeInst'[j].kind = "gone" /\ nodeInst'[j].agent = nodeInst[j].agent
                     /\ nodeInst'[j].conn = nodeInst[j].conn
  <2>1. nodeInst[j] \in [kind: Kinds, agent: 0..MaxAgents, conn: 0..MaxLinks]
    BY <1>0 DEF NodesTypes
  <2>2. CASE j = i
    BY <1>3, <2>2, NodeNumbers DEF Nodes!Made, Kinds
  <2>3. CASE j # i /\ nodeInst[j].kind = "unused"
    BY <1>0, <1>3, <2>1, <2>3 DEF InstsKnown
  <2>4. CASE j # i /\ nodeInst[j].kind # "unused"
    <3>1. nodeInst'[j] = [nodeInst[j] EXCEPT !.kind = "gone"]
      BY <1>3, <2>4
    <3>2. QED
      BY <2>1, <2>4, <3>1 DEF Kinds
  <2>5. QED
    BY <2>2, <2>3, <2>4
<1>7. nodeInst' \in [Nodes!InstIds -> [kind: Kinds, agent: 0..MaxAgents, conn: 0..MaxLinks]]
  <2>1. nodeInst' = [j \in Nodes!InstIds |-> nodeInst'[j]]
    BY <1>3
  <2>2. QED
    BY <1>6, <2>1
<1>8. ASSUME NEW c \in Nodes!Links
      PROVE  /\ conn'[c] \in [agent: 0..MaxAgents, state: States, node: 0..MaxInsts]
             /\ conn'[c].agent = conn[c].agent /\ conn'[c].state \in {"new", "closed"}
             /\ Opened(c)' <=> Opened(c)
  <2>1. conn[c] \in [agent: 0..MaxAgents, state: States, node: 0..MaxInsts]
    BY <1>0 DEF NodesTypes
  <2>2. CASE conn[c].state = "new"
    BY <1>4, <2>1, <2>2 DEF Opened
  <2>3. CASE conn[c].state # "new"
    <3>1. conn'[c] = [conn[c] EXCEPT !.state = "closed"]
      BY <1>4, <2>3
    <3>2. QED
      BY <2>1, <2>3, <3>1 DEF States, Opened
  <2>4. QED
    BY <2>2, <2>3
<1>9. conn' \in [Nodes!Links -> [agent: 0..MaxAgents, state: States, node: 0..MaxInsts]]
  <2>1. conn' = [c \in Nodes!Links |-> conn'[c]]
    BY <1>4
  <2>2. QED
    BY <1>8, <2>1
<1>10. \A c \in Nodes!Links : toRelay'[c] = <<>> /\ toAgent'[c] = <<>> /\ ~Up(c)'
  BY <1>4, <1>8 DEF Up
<1>11. \A a \in Nodes!NodeAgents : using'[a] = 0 /\ running'[a] \subseteq running[a]
  BY <1>4
<1>12. \A a \in Nodes!NodeAgents : Alive(a)' \subseteq Alive(a)
  <2>1. \A a \in Nodes!NodeAgents : Alive(a)' = running'[a]
    BY <1>11 DEF Alive
  <2>2. QED
    BY <1>11, <2>1 DEF Alive
<1>13. Onward
  <2>1. InstsGrow
    BY <1>6 DEF InstsGrow
  <2>2. AliveGrows
    <3>1. \A c \in Nodes!Links : Opened(c) => conn[c].agent \in Nodes!NodeAgents /\ c # 0
      BY <1>0, NodeNumbers DEF ConnsKnown
    <3>2. QED
      BY <1>8, <1>11, <1>12, <3>1 DEF AliveGrows
  <2>3. QED
    BY <1>4, <2>1, <2>2 DEF Onward
<1>14. ConnsKnown'
  <2>1. ASSUME NEW c \in Nodes!Links, Opened(c)'
        PROVE  /\ conn'[c].agent \in Nodes!NodeAgents /\ using'[conn'[c].agent] = 0
               /\ \A d \in 1..(c - 1) : Opened(d)'
    <3>1. Opened(c) /\ \A d \in 1..(c - 1) : Opened(d) /\ d \in Nodes!Links
      BY <1>0, <1>8, <2>1, NodeNumbers DEF ConnsKnown, Nodes!Links
    <3>2. QED
      BY <1>0, <1>8, <1>11, <3>1 DEF ConnsKnown
  <2>2. QED
    BY <1>11, <2>1 DEF ConnsKnown
<1>15. InstsKnown'
  <2>1. ASSUME NEW j \in Nodes!InstIds
        PROVE  /\ nodeInst'[j].kind = "unused" => nodeInst'[j].agent = 0
               /\ nodeInst'[j].agent # 0 => \E d \in Nodes!Links :
                    d = nodeInst'[j].conn /\ Opened(d)' /\ conn'[d].agent = nodeInst'[j].agent
    <3>1. /\ nodeInst[j].kind = "unused" => nodeInst[j].agent = 0
          /\ nodeInst[j].agent # 0 => \E d \in Nodes!Links :
               d = nodeInst[j].conn /\ Opened(d) /\ conn[d].agent = nodeInst[j].agent
      BY <1>0 DEF InstsKnown
    <3>2. QED
      BY <1>6, <1>8, <3>1
  <2>2. QED
    BY <1>10, <2>1 DEF InstsKnown, Opened, Up
<1>16. QueuesKnown'
  <2>1. ASSUME NEW c \in Nodes!Links PROVE Told(c)' /\ Listens(c)'
    <3>1. conn'[c].state \in {"new", "closed"} /\ toRelay'[c] = <<>> /\ toAgent'[c] = <<>>
      BY <1>8, <1>10
    <3>2. QED
      BY <3>1, NothingQueued DEF Told, Listens, Up
  <2>2. QED
    BY <2>1 DEF QueuesKnown
<1>17. RunningOwned'
  BY <1>0, <1>11, <1>13, OwnedKeeps DEF RunningOwned
<1>18. ASSUME NEW s \in Nodes!Shared
       PROVE  /\ nodeSurf'[s] \in Surfaces
              /\ \/ /\ nodeSurf'[s].state = nodeSurf[s].state /\ nodeSurf'[s].proc = nodeSurf[s].proc
                    /\ nodeSurf'[s].node = nodeSurf[s].node /\ nodeSurf'[s].keep = nodeSurf[s].keep
                 \/ s \in Nodes!Live /\ ~nodeSurf[s].keep /\ nodeSurf'[s].state = "gone"
  <2>1. \A r \in Surfaces :
          /\ [r EXCEPT !.orphaned = TRUE] \in Surfaces /\ [r EXCEPT !.state = "gone"] \in Surfaces
          /\ [r EXCEPT !.orphaned = TRUE].state = r.state /\ [r EXCEPT !.orphaned = TRUE].proc = r.proc
          /\ [r EXCEPT !.orphaned = TRUE].node = r.node /\ [r EXCEPT !.orphaned = TRUE].keep = r.keep
          /\ [r EXCEPT !.state = "gone"].state = "gone"
    BY DEF Surfaces
  <2>2. nodeSurf[s] \in Surfaces
    BY <1>0 DEF NodesTypes
  <2>3. CASE s \in off
    <3>1. nodeSurf'[s] = [nodeSurf[s] EXCEPT !.state = "gone"]
      BY <1>2, <1>5, <2>3
    <3>2. s \in Nodes!Live /\ ~nodeSurf[s].keep
      BY <1>1, <1>2, <2>3
    <3>3. QED
      BY <2>1, <2>2, <3>1, <3>2
  <2>4. CASE s \notin off /\ s \in stale
    <3>1. nodeSurf'[s] = [nodeSurf[s] EXCEPT !.orphaned = TRUE]
      BY <1>5, <2>4
    <3>2. QED
      BY <2>1, <2>2, <3>1
  <2>5. CASE s \notin off /\ s \notin stale
    <3>1. nodeSurf'[s] = nodeSurf[s]
      BY <1>5, <2>5
    <3>2. QED
      BY <2>2, <3>1
  <2>6. QED
    BY <2>3, <2>4, <2>5
<1>19. nodeSurf' \in [Nodes!Shared -> Surfaces]
  <2>1. nodeSurf' = [s \in Nodes!Shared |-> nodeSurf'[s]]
    BY <1>5
  <2>2. QED
    BY <1>18, <2>1
<1>20. ASSUME NEW s \in Nodes!Live'
       PROVE  s \in Nodes!Live /\ nodeSurf'[s].proc = nodeSurf[s].proc /\ Placed(s)'
  <2>1. /\ s \in Nodes!Live /\ nodeSurf'[s].proc = nodeSurf[s].proc
        /\ nodeSurf'[s].node = nodeSurf[s].node /\ nodeSurf'[s].keep = nodeSurf[s].keep
    BY <1>18 DEF Nodes!Live
  <2>2. nodeSurf'[s].keep \/ nodeSurf[s].proc \in released'
    BY <1>0, <1>4, <2>1 DEF SurfKnown, Placed
  <2>3. QED
    BY <1>13, <2>1, <2>2, PlacedStays
<1>21. SurfKnown'
  BY <1>13, <1>20, SurfsMove
<1>22. AliveShown'
  <2>1. released \subseteq released' /\ named' = named /\ named \subseteq Nodes!NodeAgents
    BY <1>0, <1>4 DEF NodesTypes
  <2>2. ASSUME NEW s \in Nodes!Live, nodeSurf[s].proc \notin released'
        PROVE  s \in Nodes!Live' /\ nodeSurf'[s].proc = nodeSurf[s].proc
    <3>1. s \in Nodes!Shared /\ nodeSurf[s].state = "live" /\ nodeSurf[s].keep
      BY <1>0, <1>4, <2>2 DEF Nodes!Live, SurfKnown, Placed
    <3>2. QED
      BY <1>18, <3>1 DEF Nodes!Live
  <2>3. QED
    BY <1>12, <2>1, <2>2, ShownStays
<1>23. Nodes!PeersTrue'
  <2>1. Nodes!NodeCards(nodeInst') = {}
    BY <1>6 DEF Nodes!NodeCards
  <2>2. QED
    BY <1>4, <2>1 DEF Nodes!PeersTrue, Nodes!NodeCards
<1>24. NodesTypes'
  <2>1. using' \in [Nodes!NodeAgents -> 0..MaxLinks]
    BY <1>4, NodeNumbers
  <2>2. running' \in [Nodes!NodeAgents -> SUBSET Nodes!NodeIds]
    BY <1>0, <1>4 DEF NodesTypes
  <2>3. toRelay' \in [Nodes!Links -> Seq(Messages)] /\ toAgent' \in [Nodes!Links -> Seq(Messages)]
    BY <1>4, EmptySeq
  <2>4. QED
    BY <1>0, <1>4, <1>7, <1>9, <1>19, <2>1, <2>2, <2>3 DEF NodesTypes
<1>25. QED
  BY <1>14, <1>15, <1>16, <1>17, <1>21, <1>22, <1>23, <1>24 DEF NodesInv

\* Every step of the nodes
LEMMA NodesStepKeeps ==
  ASSUME NodesInv, Nodes!NodesNext
  PROVE  NodesInv'
<1>1. CASE \E a \in Nodes!NodeAgents : Nodes!Connect(a) \/ Nodes!Lose(a) \/ Nodes!AskSpawn(a) \/ Nodes!Unregister(a)
  BY <1>1, ConnectKeeps, LoseKeeps, AskSpawnKeeps, UnregisterKeeps
<1>2. CASE \E a \in Nodes!NodeAgents, p \in Nodes!InstIds : Nodes!ProcessExits(a, p)
  BY <1>2, ProcessExitsKeeps
<1>3. CASE \E c \in Nodes!Links : Nodes!AgentReceives(c) \/ Nodes!RelayReceives(c) \/ Nodes!Closes(c)
  BY <1>3, AgentReceivesKeeps, RelayReceivesKeeps, ClosesKeeps
<1>4. CASE \E n \in Nodes!NodeIds : Nodes!SubscribeNode(n) \/ Nodes!Reconcile(n)
  BY <1>4, SubscribeNodeKeeps, ReconcileKeeps
<1>5. CASE \E s \in Nodes!Shared : Nodes!Subscribe(s) \/ Nodes!SetKeep(s)
  BY <1>5, SubscribeKeeps, SetKeepKeeps
<1>6. QED
  BY <1>1, <1>2, <1>3, <1>4, <1>5, RestartKeeps DEF Nodes!NodesNext

-----------------------------------------------------------------------------
(***************************************************************************)
(* What an agent has reported.  Of an agent in Sure, a named one's          *)
(* messages are read in the order it sent them, also those of two           *)
(* connections: once a later one is registered nothing is left to be read   *)
(* of an earlier one.  So what it has confirmed while it is connected came  *)
(* over the connection it uses, and whatever moves or takes a surface of    *)
(* that is its own doing, or a browser's that opens it while the relay has  *)
(* no instance of it.  The program's own agent always reports the same.     *)
(***************************************************************************)
Sure == {a \in Nodes!NodeAgents : a \in named => a \in ordered}
Confirmed(a) ==
  /\ confirmed[a] # {} => using[a] # 0 /\ Up(using[a])
  /\ \A p \in confirmed[a] : OwnedBy(a, p)
  /\ a \in Sure => \A p \in confirmed[a] : Nodes!Exists(p) \/ p \notin released => Nodes!Found(a, p)

InOrder ==
  \A c \in Nodes!Links : conn[c].state \in {"registered", "unregistered"} /\ conn[c].agent \in ordered =>
    \A d \in Nodes!Links : d < c /\ conn[d].agent = conn[c].agent => toRelay[d] = <<>>

ConfirmedInv ==
  /\ confirmed = [a \in Nodes!NodeAgents |-> confirmed[a]]
  /\ \A a \in Nodes!NodeAgents : Confirmed(a)
  /\ InOrder

\* What a step does to a surface of a confirmed process: it is un-kept and of no
\* instance, or it stays where it is, and is not orphaned if it is of one.
Stays(s) ==
  \/ nodeSurf[s].proc \in released' /\ ~Nodes!Exists(nodeSurf[s].proc)
  \/ /\ s \in Nodes!Live' /\ nodeSurf'[s].proc = nodeSurf[s].proc
     /\ nodeSurf'[s].node = nodeSurf[s].node
     /\ Nodes!Exists(nodeSurf[s].proc) /\ ~nodeSurf[s].orphaned => ~nodeSurf'[s].orphaned

LEMMA ConfirmedStart ==
  ASSUME Nodes!NodesInit
  PROVE  ConfirmedInv
  BY DEF Nodes!NodesInit, ConfirmedInv, Confirmed, InOrder

\* Order is kept if an agent sends over its last connection only, and another
\* connection is registered when what came before has been read.
LEMMA OrderStays ==
  ASSUME NodesInv, InOrder, ordered' = ordered,
         \A c \in Nodes!Links : Opened(c) => conn'[c].agent = conn[c].agent,
         \A c \in Nodes!Links : conn'[c].state \in {"registered", "unregistered"} =>
           /\ Opened(c)
           /\ \/ conn[c].state \in {"registered", "unregistered"}
              \/ conn[c].agent \in ordered =>
                   \A d \in 1..(c - 1) : conn[d].agent = conn[c].agent => toRelay[d] = <<>>,
         \A d \in Nodes!Links : \/ toRelay[d] = <<>> => toRelay'[d] = <<>>
                                \/ Opened(d) => using[conn[d].agent] = d
  PROVE  InOrder'
<1> SUFFICES ASSUME NEW c \in Nodes!Links, conn'[c].state \in {"registered", "unregistered"},
                    conn'[c].agent \in ordered, NEW d \in Nodes!Links, d < c, conn'[d].agent = conn'[c].agent
             PROVE  toRelay'[d] = <<>>
  BY DEF InOrder
<1>1. d \in 1..(c - 1) /\ d # 0 /\ d \in Nat /\ c \in Nat
  BY NodeNumbers DEF Nodes!Links
<1>2. Opened(c) /\ Opened(d)
  BY <1>1 DEF NodesInv, ConnsKnown
<1>3. conn[d].agent = conn[c].agent /\ conn[c].agent \in ordered
  BY <1>2
<1>4. toRelay[d] = <<>>
  BY <1>1, <1>3 DEF InOrder
<1>5. using[conn[d].agent] # d
  BY <1>1, <1>2, <1>3 DEF NodesInv, ConnsKnown
<1>6. QED
  BY <1>2, <1>4, <1>5

\* What stays confirmed if its surfaces stay
LEMMA ConfirmedStays ==
  ASSUME NEW a \in Nodes!NodeAgents, Confirmed(a), UNCHANGED <<named, ordered>>, InstsGrow,
         released \subseteq released', confirmed'[a] \subseteq confirmed[a],
         confirmed'[a] # {} => using'[a] = using[a] /\ conn'[using[a]] = conn[using[a]],
         a \in Sure => \A s \in Nodes!Live :
           nodeSurf[s].proc \in confirmed'[a] /\ nodeSurf[s].node = Nodes!Node(using[a]) => Stays(s)
  PROVE  Confirmed(a)'
<1>1. confirmed'[a] # {} => using'[a] # 0 /\ Up(using[a])'
  BY DEF Confirmed, Up
<1>2. \A p \in confirmed'[a] : OwnedBy(a, p) /\ OwnedBy(a, p)'
  BY DEF Confirmed, InstsGrow, OwnedBy
<1>3. \A p \in confirmed'[a] : Nodes!Exists(p)' => Nodes!Exists(p)
  BY <1>2, NodeNumbers DEF OwnedBy, InstsGrow, Nodes!Exists
<1>4. ASSUME a \in Sure, NEW p \in confirmed'[a], Nodes!Exists(p)' \/ p \notin released'
      PROVE  Nodes!Found(a, p)'
  <2>1. p \in confirmed[a] /\ using'[a] = using[a] /\ conn'[using[a]] = conn[using[a]] /\ confirmed'[a] # {}
    BY <1>4
  <2>2. Nodes!Exists(p) \/ p \notin released
    BY <1>3, <1>4
  <2>3. PICK s \in Nodes!Of(p) : nodeSurf[s].node = Nodes!Node(using[a]) /\ (Nodes!Exists(p) => ~nodeSurf[s].orphaned)
    BY <1>4, <2>1, <2>2 DEF Confirmed, Nodes!Found
  <2>4. s \in Nodes!Live /\ nodeSurf[s].proc = p
    BY <2>3 DEF Nodes!Of
  <2>5. Stays(s)
    BY <1>4, <2>3, <2>4
  <2>6. /\ s \in Nodes!Live' /\ nodeSurf'[s].proc = p
        /\ nodeSurf'[s].node = nodeSurf[s].node /\ (Nodes!Exists(p)' => ~nodeSurf'[s].orphaned)
    BY <1>3, <1>4, <2>3, <2>4, <2>5 DEF Stays
  <2>7. Nodes!Node(using[a])' = Nodes!Node(using[a])
    BY <2>1 DEF Nodes!Node
  <2>8. QED
    BY <2>3, <2>6, <2>7 DEF Nodes!Of, Nodes!Found
<1>5. QED
  BY <1>1, <1>2, <1>4 DEF Confirmed, Sure

\* What the agents do: one that gives up its connection has confirmed nothing.
LEMMA AgentConfirms ==
  ASSUME NodesInv, ConfirmedInv, UNCHANGED <<named, ordered, released, nodeInst, conn, nodeSurf>>,
         confirmed' = [a \in Nodes!NodeAgents |-> confirmed'[a]],
         \A a \in Nodes!NodeAgents : confirmed'[a] # {} => confirmed'[a] = confirmed[a] /\ using'[a] = using[a],
         \A d \in Nodes!Links : \/ toRelay[d] = <<>> => toRelay'[d] = <<>>
                                \/ Opened(d) => using[conn[d].agent] = d
  PROVE  ConfirmedInv'
<1>1. Nodes!Live' = Nodes!Live /\ InstsGrow
  BY DEF Nodes!Live, InstsGrow
<1>2. \A a \in Nodes!NodeAgents : Confirmed(a)'
  BY <1>1, ConfirmedStays DEF ConfirmedInv, Stays
<1>3. InOrder'
  BY OrderStays DEF ConfirmedInv, Opened
<1>4. QED
  BY <1>2, <1>3 DEF ConfirmedInv

LEMMA AgentsConfirm ==
  ASSUME NodesInv, ConfirmedInv, NEW a \in Nodes!NodeAgents,
         \/ Nodes!Lose(a) \/ Nodes!AskSpawn(a) \/ Nodes!Unregister(a)
         \/ \E p \in Nodes!InstIds : Nodes!ProcessExits(a, p)
  PROVE  ConfirmedInv'
<1>0. NodesTypes /\ ConnsKnown
  BY DEF NodesInv
<1>1. UNCHANGED <<named, ordered, released, nodeInst, conn, nodeSurf>>
  BY DEF Nodes!Lose, Nodes!AskSpawn, Nodes!Unregister, Nodes!ProcessExits
<1>2. \/ using' = using /\ confirmed' = confirmed
      \/ using' = [using EXCEPT ![a] = 0] /\ confirmed' = [confirmed EXCEPT ![a] = {}]
  BY DEF Nodes!Lose, Nodes!AskSpawn, Nodes!Unregister, Nodes!ProcessExits
<1>3. \/ toRelay' = toRelay
      \/ \E m : using[a] # 0 /\ toRelay' = [toRelay EXCEPT ![using[a]] = Append(@, m)]
  BY DEF Nodes!Lose, Nodes!AskSpawn, Nodes!Unregister, Nodes!ProcessExits, Nodes!Send
<1>4. /\ confirmed' = [b \in Nodes!NodeAgents |-> confirmed'[b]]
      /\ \A b \in Nodes!NodeAgents : confirmed'[b] # {} => confirmed'[b] = confirmed[b] /\ using'[b] = using[b]
  <2>1. confirmed = [b \in Nodes!NodeAgents |-> confirmed[b]] /\ using \in [Nodes!NodeAgents -> 0..MaxLinks]
    BY <1>0 DEF NodesTypes, ConfirmedInv
  <2>2. CASE using' = using /\ confirmed' = confirmed
    BY <2>1, <2>2
  <2>3. CASE using' = [using EXCEPT ![a] = 0] /\ confirmed' = [confirmed EXCEPT ![a] = {}]
    BY <2>1, <2>3
  <2>4. QED
    BY <1>2, <2>2, <2>3
<1>5. \A d \in Nodes!Links : \/ toRelay[d] = <<>> => toRelay'[d] = <<>>
                             \/ Opened(d) => using[conn[d].agent] = d
  <2>1. CASE toRelay' = toRelay
    BY <2>1
  <2>2. CASE \E m : using[a] # 0 /\ toRelay' = [toRelay EXCEPT ![using[a]] = Append(@, m)]
    <3>1. \A d \in Nodes!Links : d # using[a] => toRelay'[d] = toRelay[d]
      BY <1>0, <2>2 DEF NodesTypes
    <3>2. conn[using[a]].agent = a
      BY <1>0, <2>2 DEF ConnsKnown
    <3>3. QED
      BY <3>1, <3>2
  <2>3. QED
    BY <1>3, <2>1, <2>2
<1>6. QED
  BY <1>1, <1>4, <1>5, AgentConfirms

LEMMA ReceivingConfirms ==
  ASSUME NodesInv, ConfirmedInv, NEW c \in Nodes!Links, Nodes!AgentReceives(c)
  PROVE  ConfirmedInv'
<1>0. NodesTypes /\ QueuesKnown
  BY DEF NodesInv
<1>1. UNCHANGED <<named, ordered, released, nodeInst, conn, nodeSurf>> /\ UNCHANGED <<using, confirmed>> /\ toAgent[c] # <<>>
  BY DEF Nodes!AgentReceives
<1>2. using[conn[c].agent] = c
  BY <1>0, <1>1 DEF QueuesKnown, Listens
<1>3. Head(toAgent[c]).type \in {"request", "spawned"}
  <2>1. toAgent[c] \in Seq(Messages) /\ Listens(c)
    BY <1>0 DEF NodesTypes, QueuesKnown
  <2>2. Head(toAgent[c]) = toAgent[c][1] /\ 1 \in 1..Len(toAgent[c])
    BY <1>1, <2>1, Unqueued
  <2>3. QED
    BY <2>1, <2>2 DEF Listens, Heard
<1>4. toRelay' = toRelay \/ \E m : toRelay' = [toRelay EXCEPT ![c] = Append(@, m)]
  BY <1>3 DEF Nodes!AgentReceives, Nodes!Send
<1>5. \A d \in Nodes!Links : d # c => toRelay'[d] = toRelay[d]
  BY <1>0, <1>4 DEF NodesTypes
<1>6. QED
  BY <1>1, <1>2, <1>5, AgentConfirms DEF ConfirmedInv

LEMMA ConnectConfirms ==
  ASSUME NodesInv, ConfirmedInv, NEW a \in Nodes!NodeAgents, Nodes!Connect(a)
  PROVE  ConfirmedInv'
<1>0. NodesTypes /\ ConnsKnown
  BY DEF NodesInv
<1>1. PICK c \in Nodes!Links :
        /\ conn[c].state = "new"
        /\ conn' = [conn EXCEPT ![c] = [agent |-> a, state |-> "open", node |-> 0]]
        /\ using' = [using EXCEPT ![a] = c]
        /\ toRelay' = [toRelay EXCEPT ![c] = Append(@, Nodes!Msg("register", {}))]
  BY DEF Nodes!Connect, Nodes!Send
<1>2. using[a] = 0 /\ UNCHANGED <<named, ordered, released, nodeInst, nodeSurf, confirmed>>
  BY DEF Nodes!Connect
<1>3. /\ conn'[c].state = "open" /\ \A d \in Nodes!Links : d # c => conn'[d] = conn[d] /\ toRelay'[d] = toRelay[d]
      /\ \A b \in Nodes!NodeAgents : b # a => using'[b] = using[b]
  BY <1>0, <1>1 DEF NodesTypes
<1>4. InOrder'
  <2>1. \A d \in Nodes!Links : \/ toRelay[d] = <<>> => toRelay'[d] = <<>>
                               \/ Opened(d) => using[conn[d].agent] = d
    BY <1>1, <1>3 DEF Opened
  <2>2. \A d \in Nodes!Links : Opened(d) => conn'[d].agent = conn[d].agent
    BY <1>1, <1>3 DEF Opened
  <2>3. \A d \in Nodes!Links : conn'[d].state \in {"registered", "unregistered"} =>
          Opened(d) /\ conn[d].state \in {"registered", "unregistered"}
    BY <1>3 DEF Opened
  <2>4. QED
    BY <1>2, <2>1, <2>2, <2>3, OrderStays DEF ConfirmedInv
<1>5. ASSUME NEW b \in Nodes!NodeAgents PROVE Confirmed(b)'
  <2>1. Nodes!Live' = Nodes!Live /\ InstsGrow /\ Confirmed(b)
    BY <1>2 DEF Nodes!Live, InstsGrow, ConfirmedInv
  <2>2. confirmed[b] # {} => using'[b] = using[b] /\ conn'[using[b]] = conn[using[b]]
    <3>1. confirmed[b] # {} => b # a /\ using[b] # 0 /\ Up(using[b])
      BY <1>2, <2>1 DEF Confirmed
    <3>2. using[b] # 0 => using[b] \in Nodes!Links
      BY <1>0, UsedLink
    <3>3. QED
      BY <1>1, <1>3, <3>1, <3>2 DEF Up
  <2>3. QED
    BY <1>2, <2>1, <2>2, ConfirmedStays DEF Stays
<1>6. QED
  BY <1>2, <1>4, <1>5 DEF ConfirmedInv

\* A socket that is closed is not used any more.
LEMMA ClosingConfirms ==
  ASSUME NodesInv, ConfirmedInv, NEW c \in Nodes!Links, Nodes!Closes(c)
  PROVE  ConfirmedInv'
<1>0. NodesTypes /\ ConnsKnown
  BY DEF NodesInv
<1> DEFINE its == {i \in Nodes!InstIds : Nodes!Remote(i) /\ nodeInst[i].conn = c}
           first == {i \in its : \A j \in its : i <= j}
<1>1. /\ conn[c].state \in {"open", "registered", "unregistered"} /\ using[conn[c].agent] # c
      /\ conn' = [conn EXCEPT ![c].state = "closed"] /\ toRelay' = [toRelay EXCEPT ![c] = <<>>]
      /\ nodeInst' = [i \in Nodes!InstIds |-> IF i \in first THEN [nodeInst[i] EXCEPT !.kind = "gone"] ELSE nodeInst[i]]
      /\ UNCHANGED <<named, ordered, released, using, nodeSurf, confirmed>>
  BY DEF Nodes!Closes
<1> HIDE DEF its, first
<1>2. InstsGrow
  <2> SUFFICES ASSUME NEW i \in Nodes!InstIds, nodeInst[i].kind # "unused"
               PROVE  /\ nodeInst'[i].kind # "unused"
                      /\ nodeInst'[i].agent = nodeInst[i].agent /\ nodeInst'[i].conn = nodeInst[i].conn
                      /\ nodeInst[i].kind \in {"run", "gone"} => nodeInst'[i].kind \in {"run", "gone"}
                      /\ nodeInst[i].kind = "gone" => nodeInst'[i].kind = "gone"
    BY DEF InstsGrow
  <2>1. nodeInst[i] \in [kind: Kinds, agent: 0..MaxAgents, conn: 0..MaxLinks]
    BY <1>0 DEF NodesTypes
  <2>2. nodeInst'[i] = nodeInst[i] \/ nodeInst'[i] = [nodeInst[i] EXCEPT !.kind = "gone"]
    BY <1>1
  <2>3. QED
    BY <2>1, <2>2
<1>3. /\ conn'[c].state = "closed" /\ conn'[c].agent = conn[c].agent
      /\ \A d \in Nodes!Links : d # c => conn'[d] = conn[d] /\ toRelay'[d] = toRelay[d]
      /\ toRelay'[c] = <<>>
  BY <1>0, <1>1 DEF NodesTypes
<1>4. InOrder'
  <2>1. \A d \in Nodes!Links : conn'[d].state \in {"registered", "unregistered"} =>
          Opened(d) /\ conn[d].state \in {"registered", "unregistered"}
    BY <1>3 DEF Opened
  <2>2. \A d \in Nodes!Links : toRelay[d] = <<>> => toRelay'[d] = <<>>
    BY <1>3
  <2>3. \A d \in Nodes!Links : Opened(d) => conn'[d].agent = conn[d].agent
    BY <1>3
  <2>4. QED
    BY <1>1, <2>1, <2>2, <2>3, OrderStays DEF ConfirmedInv
<1>5. ASSUME NEW b \in Nodes!NodeAgents PROVE Confirmed(b)'
  <2>1. Nodes!Live' = Nodes!Live /\ Confirmed(b)
    BY <1>1 DEF Nodes!Live, ConfirmedInv
  <2>2. confirmed[b] # {} => conn'[using[b]] = conn[using[b]]
    BY <1>0, <1>1, <1>3, <2>1, UsedLink DEF Confirmed
  <2>3. QED
    BY <1>1, <1>2, <2>1, <2>2, ConfirmedStays DEF Stays
<1>6. QED
  BY <1>1, <1>4, <1>5 DEF ConfirmedInv

\* A relay that starts again has been told nothing.
LEMMA RestartConfirms ==
  ASSUME NodesInv, ConfirmedInv, Nodes!Restart
  PROVE  ConfirmedInv'
<1>1. toRelay' = [c \in Nodes!Links |-> <<>>] /\ confirmed' = [a \in Nodes!NodeAgents |-> {}]
  BY DEF Nodes!Restart
<1>2. QED
  BY <1>1 DEF ConfirmedInv, Confirmed, InOrder

-----------------------------------------------------------------------------
\* What the relay reads: the connections keep their agents, what is confirmed
\* by the others stays, and nothing is left of an earlier connection.
LEMMA ReadConfirms ==
  ASSUME NodesInv, ConfirmedInv, NEW c \in Nodes!Links, toRelay[c] # <<>>,
         NEW a \in Nodes!NodeAgents, conn[c].agent = a,
         toRelay' = [toRelay EXCEPT ![c] = Tail(@)], UNCHANGED <<named, ordered, released, using>>, InstsGrow,
         \A d \in Nodes!Links : d # c => conn'[d] = conn[d],
         conn'[c].agent = a,
         conn'[c].state \in {"registered", "unregistered"} =>
           \/ conn[c].state \in {"registered", "unregistered"}
           \/ a \in ordered => \A d \in 1..(c - 1) : conn[d].agent = a => toRelay[d] = <<>>,
         confirmed' = [b \in Nodes!NodeAgents |-> confirmed'[b]],
         \A b \in Nodes!NodeAgents : b # a => confirmed'[b] = confirmed[b],
         Confirmed(a)',
         \A b \in Nodes!NodeAgents : b # a => \A s \in Nodes!Live :
           nodeSurf[s].proc \in confirmed[b] /\ nodeSurf[s].node = Nodes!Node(using[b]) => Stays(s)
  PROVE  ConfirmedInv'
<1>0. NodesTypes /\ ConnsKnown /\ Opened(c)
  BY FirstTold DEF NodesInv
<1>1. InOrder'
  <2>1. \A d \in Nodes!Links : toRelay[d] = <<>> => toRelay'[d] = <<>>
    BY <1>0 DEF NodesTypes
  <2>2. \A d \in Nodes!Links : Opened(d) => conn'[d].agent = conn[d].agent
    OBVIOUS
  <2>3. \A d \in Nodes!Links : conn'[d].state \in {"registered", "unregistered"} =>
          /\ Opened(d)
          /\ \/ conn[d].state \in {"registered", "unregistered"}
             \/ conn[d].agent \in ordered =>
                  \A e \in 1..(d - 1) : conn[e].agent = conn[d].agent => toRelay[e] = <<>>
    BY <1>0 DEF Opened
  <2>4. QED
    BY <2>1, <2>2, <2>3, OrderStays DEF ConfirmedInv
<1>2. ASSUME NEW b \in Nodes!NodeAgents, b # a PROVE Confirmed(b)'
  <2>1. Confirmed(b)
    BY DEF ConfirmedInv
  <2>2. confirmed[b] # {} => conn'[using[b]] = conn[using[b]]
    BY <1>0, <1>2, <2>1, UsedLink DEF Confirmed
  <2>3. QED
    BY <1>2, <2>1, <2>2, ConfirmedStays
<1>3. QED
  BY <1>1, <1>2 DEF ConfirmedInv

\* An agent that has something confirmed and is read in order uses this
\* connection.
LEMMA ReadIsUsed ==
  ASSUME NodesInv, ConfirmedInv, NEW c \in Nodes!Links, toRelay[c] # <<>>,
         NEW a \in Nodes!NodeAgents, conn[c].agent = a, a \in ordered, confirmed[a] # {}
  PROVE  using[a] = c /\ Up(c)
<1>1. NodesTypes /\ ConnsKnown /\ Confirmed(a) /\ InOrder /\ Opened(c)
  BY FirstTold DEF NodesInv, ConfirmedInv
<1>2. using[a] \in Nodes!Links /\ conn[using[a]].agent = a /\ Up(using[a])
  BY <1>1, UsedLink DEF Confirmed
<1>3. c <= using[a]
  BY <1>1, <1>2, NodeNumbers DEF ConnsKnown
<1>4. ~(c < using[a])
  BY <1>1, <1>2 DEF InOrder, Up
<1>5. c = using[a]
  BY <1>2, <1>3, <1>4, NodeNumbers
<1>6. QED
  BY <1>2, <1>5

LEMMA RegisterConfirms ==
  ASSUME NodesInv, ConfirmedInv, NEW c \in Nodes!Links, toRelay[c] # <<>>, Head(toRelay[c]).type = "register",
         Nodes!Register(c), toRelay' = [toRelay EXCEPT ![c] = Tail(@)],
         conn[c].agent \in ordered => \A d \in 1..(c - 1) : conn[d].agent = conn[c].agent => toRelay[d] = <<>>,
         UNCHANGED <<named, ordered, released, using>>
  PROVE  ConfirmedInv'
<1>0. NodesTypes /\ ConnsKnown
  BY DEF NodesInv
<1>1. PICK a \in Nodes!NodeAgents : conn[c].agent = a
  BY FirstTold
<1>2. conn[c].state = "open"
  BY FirstTold DEF Fine
<1>3. PICK i \in Nodes!InstIds :
        /\ nodeInst[i].kind = "unused"
        /\ nodeInst' = [nodeInst EXCEPT ![i] = Nodes!Made("node", a, c)]
        /\ conn' = [conn EXCEPT ![c].state = "registered", ![c].node = i]
        /\ nodeSurf' = nodeSurf /\ confirmed' = confirmed
  BY <1>1 DEF Nodes!Register, Nodes!FreshInst
<1>4. InstsGrow
  BY <1>0, <1>3 DEF InstsGrow, NodesTypes
<1>5. conn'[c].agent = a /\ \A d \in Nodes!Links : d # c => conn'[d] = conn[d]
  BY <1>0, <1>1, <1>3 DEF NodesTypes
<1>6. Nodes!Live' = Nodes!Live /\ \A s \in Nodes!Live : Stays(s)
  BY <1>3 DEF Nodes!Live, Stays
<1>7. Confirmed(a)'
  <2>1. Confirmed(a)
    BY DEF ConfirmedInv
  <2>2. confirmed[a] # {} => conn'[using[a]] = conn[using[a]]
    BY <1>0, <1>2, <1>5, <2>1, UsedLink DEF Confirmed, Up
  <2>3. QED
    BY <1>3, <1>4, <1>6, <2>1, <2>2, ConfirmedStays
<1>8. confirmed' = [b \in Nodes!NodeAgents |-> confirmed'[b]]
  BY <1>3 DEF ConfirmedInv
<1>9. QED
  BY <1>1, <1>3, <1>4, <1>5, <1>6, <1>7, <1>8, ReadConfirms, ZenonT(60)

LEMMA SpawnConfirms ==
  ASSUME NodesInv, ConfirmedInv, NEW c \in Nodes!Links, toRelay[c] # <<>>, Head(toRelay[c]).type = "spawn",
         Nodes!Spawn(c), toRelay' = [toRelay EXCEPT ![c] = Tail(@)], UNCHANGED <<named, ordered, released, using>>
  PROVE  ConfirmedInv'
<1>0. NodesTypes
  BY DEF NodesInv
<1>1. PICK a \in Nodes!NodeAgents : conn[c].agent = a
  BY FirstTold
<1>2. Up(c)
  BY FirstTold DEF Nodes!Msg
<1>3. PICK n : n = conn[c].node
  OBVIOUS
<1>4. PICK i \in Nodes!InstIds :
        /\ nodeInst[i].kind = "unused" /\ Nodes!Room({i})
        /\ nodeInst' = [nodeInst EXCEPT ![i] = Nodes!Made("run", a, c)]
        /\ nodeSurf' = Nodes!With(nodeSurf, Nodes!Published({i}, n, FALSE))
        /\ UNCHANGED <<conn, confirmed>>
  BY <1>1, <1>3 DEF Nodes!Spawn, Nodes!FreshInst
<1>5. InstsGrow
  BY <1>0, <1>4 DEF InstsGrow, NodesTypes
<1>6. PICK new : new = Nodes!Published({i}, n, FALSE)
  OBVIOUS
<1>7. Gives(new, {i}, n, FALSE)
  BY <1>4, <1>6, NodeNumbers, PublishedAre
<1>8. \A s \in Nodes!Live : Stays(s)
  BY <1>4, <1>6, <1>7 DEF Nodes!Live, Nodes!With, Gives, Stays
<1>9. Confirmed(a)'
  BY <1>4, <1>5, <1>8, ConfirmedStays DEF ConfirmedInv
<1>10. confirmed' = [b \in Nodes!NodeAgents |-> confirmed'[b]]
  BY <1>4 DEF ConfirmedInv
<1>11. conn[c].state \in {"registered", "unregistered"}
  BY <1>2 DEF Up
<1>12. QED
  BY <1>1, <1>4, <1>5, <1>8, <1>9, <1>10, <1>11, ReadConfirms

\* What exits is not confirmed any more, and no other process loses a surface.
LEMMA ExitedConfirms ==
  ASSUME NodesInv, ConfirmedInv, NEW c \in Nodes!Links, toRelay[c] # <<>>, Head(toRelay[c]).type = "exit",
         Nodes!Exited(c, CHOOSE p \in Head(toRelay[c]).procs : TRUE),
         toRelay' = [toRelay EXCEPT ![c] = Tail(@)], UNCHANGED <<named, ordered, released, using>>
  PROVE  ConfirmedInv'
<1>0. NodesTypes
  BY DEF NodesInv
<1>1. PICK a \in Nodes!NodeAgents : conn[c].agent = a
  BY FirstTold
<1>2. Up(c) /\ Fine(c, Head(toRelay[c]))
  BY FirstTold DEF Nodes!Msg
<1>3. PICK p \in Nodes!NodeIds : Head(toRelay[c]).procs = {p}
  BY <1>2 DEF Fine
<1>4. p \in Nodes!InstIds /\ nodeInst[p].kind \in {"run", "gone"} /\ OwnedBy(a, p)
  <2>1. OwnedBy(a, p) /\ a \in named
    BY <1>1, <1>2, <1>3 DEF Fine
  <2>2. QED
    BY <2>1 DEF OwnedBy
<1>5. (CHOOSE q \in Head(toRelay[c]).procs : TRUE) = p
  BY <1>3
<1>6. /\ conn' = conn /\ confirmed' = [confirmed EXCEPT ![a] = @ \ {p}]
      /\ \/ nodeInst' = [nodeInst EXCEPT ![p].kind = "gone"] /\ nodeSurf' = nodeSurf
         \/ nodeInst' = nodeInst /\ nodeSurf' = Nodes!Gone(nodeSurf, Nodes!Of(p))
  BY <1>1, <1>5 DEF Nodes!Exited
<1>7. InstsGrow
  <2>1. CASE nodeInst' = [nodeInst EXCEPT ![p].kind = "gone"]
    <3>1. nodeInst[p] \in [kind: Kinds, agent: 0..MaxAgents, conn: 0..MaxLinks]
      BY <1>0, <1>4 DEF NodesTypes
    <3>2. PICK r \in [kind: Kinds, agent: 0..MaxAgents, conn: 0..MaxLinks] :
            /\ r = [nodeInst[p] EXCEPT !.kind = "gone"] /\ r.kind = "gone" /\ r.agent = nodeInst[p].agent
            /\ r.conn = nodeInst[p].conn
      <4>1. /\ [nodeInst[p] EXCEPT !.kind = "gone"] \in [kind: Kinds, agent: 0..MaxAgents, conn: 0..MaxLinks]
            /\ [nodeInst[p] EXCEPT !.kind = "gone"].kind = "gone"
            /\ [nodeInst[p] EXCEPT !.kind = "gone"].agent = nodeInst[p].agent
            /\ [nodeInst[p] EXCEPT !.kind = "gone"].conn = nodeInst[p].conn
        BY <3>1 DEF Kinds
      <4>2. QED
        BY <4>1
    <3>3. nodeInst' = [nodeInst EXCEPT ![p] = r]
      BY <2>1, <3>2
    <3>4. QED
      BY <1>0, <1>4, <3>2, <3>3 DEF InstsGrow, NodesTypes
  <2>2. CASE nodeInst' = nodeInst
    BY <2>2 DEF InstsGrow
  <2>3. QED
    BY <1>6, <2>1, <2>2
<1>8. /\ confirmed' = [b \in Nodes!NodeAgents |-> confirmed'[b]] /\ confirmed'[a] = confirmed[a] \ {p}
      /\ \A b \in Nodes!NodeAgents : b # a => confirmed'[b] = confirmed[b]
  <2>1. confirmed = [b \in Nodes!NodeAgents |-> confirmed[b]]
    BY DEF ConfirmedInv
  <2>2. QED
    BY <1>6, <2>1
<1>9. \A s \in Nodes!Live : nodeSurf[s].proc # p => Stays(s)
  <2>1. CASE nodeSurf' = nodeSurf
    BY <2>1 DEF Nodes!Live, Stays
  <2>2. CASE nodeSurf' = Nodes!Gone(nodeSurf, Nodes!Of(p))
    BY <2>2 DEF Nodes!Live, Nodes!Gone, Nodes!Of, Stays
  <2>3. QED
    BY <1>6, <2>1, <2>2
<1>10. Confirmed(a)'
  BY <1>6, <1>7, <1>8, <1>9, ConfirmedStays DEF ConfirmedInv
<1>11. \A b \in Nodes!NodeAgents : b # a => p \notin confirmed[b]
  BY <1>4, OwnedOnce DEF ConfirmedInv, Confirmed
<1>12. conn[c].state \in {"registered", "unregistered"}
  BY <1>2 DEF Up
<1>13. \A b \in Nodes!NodeAgents : b # a => \A s \in Nodes!Live :
         nodeSurf[s].proc \in confirmed[b] /\ nodeSurf[s].node = Nodes!Node(using[b]) => Stays(s)
  BY <1>9, <1>11
<1>14. QED
  BY <1>1, <1>6, <1>7, <1>8, <1>10, <1>12, <1>13, ReadConfirms

\* An agent that has said goodbye has nothing confirmed, and no other has
\* anything under its node.
LEMMA UnregisteredConfirms ==
  ASSUME NodesInv, ConfirmedInv, NEW c \in Nodes!Links, toRelay[c] # <<>>, Head(toRelay[c]).type = "unregister",
         Nodes!Unregistered(c), toRelay' = [toRelay EXCEPT ![c] = Tail(@)], UNCHANGED <<named, ordered, released, using>>
  PROVE  ConfirmedInv'
<1>0. NodesTypes /\ ConnsKnown /\ InstsKnown
  BY DEF NodesInv
<1>1. PICK a \in Nodes!NodeAgents : conn[c].agent = a
  BY FirstTold
<1>2. Up(c) /\ using[a] # c /\ a \in named
  BY <1>1, FirstTold DEF Nodes!Msg, Fine
<1>3. PICK n \in Nodes!InstIds : conn[c].node = n /\ nodeInst[n] = Nodes!Made("node", a, c)
  BY <1>0, <1>1, <1>2 DEF InstsKnown
<1>4. PICK off : off = {s \in Nodes!Live : nodeSurf[s].node = n}
  OBVIOUS
<1>5. /\ conn' = [conn EXCEPT ![c].state = "unregistered"]
      /\ nodeInst' = [nodeInst EXCEPT ![n].kind = "gone"]
      /\ nodeSurf' = Nodes!Gone(nodeSurf, off) /\ confirmed' = confirmed
  BY <1>3, <1>4 DEF Nodes!Unregistered
<1>6. InstsGrow
  <2>1. [Nodes!Made("node", a, c) EXCEPT !.kind = "gone"] = Nodes!Made("gone", a, c)
    BY DEF Nodes!Made
  <2>2. nodeInst' = [nodeInst EXCEPT ![n] = Nodes!Made("gone", a, c)]
    BY <1>3, <1>5, <2>1
  <2>3. QED
    BY <1>0, <1>3, <2>2 DEF InstsGrow, NodesTypes, Nodes!Made
<1>7. conn'[c].agent = a /\ \A d \in Nodes!Links : d # c => conn'[d] = conn[d]
  BY <1>0, <1>1, <1>5 DEF NodesTypes
<1>8. Confirmed(a)'
  <2>1. CASE a \in ordered
    BY <1>1, <1>2, <1>5, <2>1, ReadIsUsed DEF Confirmed
  <2>2. CASE a \notin ordered
    <3>1. Confirmed(a) /\ a \notin Sure
      BY <1>2, <2>2 DEF ConfirmedInv, Sure
    <3>2. confirmed[a] # {} => conn'[using[a]] = conn[using[a]]
      BY <1>0, <1>2, <1>7, <3>1, UsedLink DEF Confirmed
    <3>3. QED
      BY <1>5, <1>6, <3>1, <3>2, ConfirmedStays
  <2>3. QED
    BY <2>1, <2>2
<1>9. \A s \in Nodes!Live : nodeSurf[s].node # n => Stays(s)
  BY <1>4, <1>5 DEF Nodes!Live, Nodes!Gone, Stays
<1>10. ASSUME NEW b \in Nodes!NodeAgents, b # a, confirmed[b] # {}
       PROVE  Nodes!Node(using[b]) # n
  <2>1. using[b] \in Nodes!Links /\ conn[using[b]].agent = b /\ Up(using[b])
    BY <1>0, <1>10, UsedLink DEF ConfirmedInv, Confirmed
  <2>2. CASE b \in named
    <3>1. /\ conn[using[b]].node \in Nodes!InstIds
          /\ nodeInst[conn[using[b]].node] = Nodes!Made("node", b, using[b])
      BY <1>0, <2>1 DEF InstsKnown
    <3>2. conn[using[b]].node # n
      BY <1>3, <1>10, <3>1 DEF Nodes!Made
    <3>3. QED
      BY <2>1, <2>2, <3>2 DEF Nodes!Node
  <2>3. CASE b \notin named
    BY <2>1, <2>3, NodeNumbers DEF Nodes!Node
  <2>4. QED
    BY <2>2, <2>3
<1>11. conn[c].state \in {"registered", "unregistered"}
  BY <1>2 DEF Up
<1>12. confirmed' = [b \in Nodes!NodeAgents |-> confirmed'[b]]
  BY <1>5 DEF ConfirmedInv
<1>13. QED
  BY <1>1, <1>5, <1>6, <1>7, <1>8, <1>9, <1>10, <1>11, <1>12, ReadConfirms, ZenonT(60)

\* Browsers: what is under the node of a connected agent is not cleaned up.
LEMMA BrowserConfirms ==
  ASSUME NodesInv, ConfirmedInv, UNCHANGED <<named, ordered, nodeInst, conn, using, toRelay, confirmed>>,
         released \subseteq released',
         \A a \in Nodes!NodeAgents : \A s \in Nodes!Live :
           nodeSurf[s].proc \in confirmed[a] /\ nodeSurf[s].node = Nodes!Node(using[a]) => Stays(s)
  PROVE  ConfirmedInv'
<1>1. InstsGrow
  BY DEF InstsGrow
<1>2. \A a \in Nodes!NodeAgents : Confirmed(a)'
  BY <1>1, ConfirmedStays DEF ConfirmedInv
<1>3. InOrder'
  BY DEF ConfirmedInv, InOrder
<1>4. QED
  BY <1>2, <1>3 DEF ConfirmedInv

\* What is opened and of an instance the relay does not know is orphaned, or
\* goes if it is not kept.
LEMMA OpeningConfirms ==
  ASSUME NodesInv, ConfirmedInv, NEW s \in Nodes!Shared, Nodes!Subscribe(s)
  PROVE  ConfirmedInv'
<1>0. NodesTypes /\ SurfKnown
  BY DEF NodesInv
<1>1. /\ UNCHANGED <<named, ordered, nodeInst, conn, using, toRelay, confirmed>> /\ released' = released
      /\ s \in Nodes!Live /\ ~Nodes!Exists(nodeSurf[s].proc)
      /\ nodeSurf' = IF nodeSurf[s].keep THEN [nodeSurf EXCEPT ![s].orphaned = TRUE] ELSE Nodes!Gone(nodeSurf, {s})
  BY DEF Nodes!Subscribe
<1>2. ASSUME NEW t \in Nodes!Live PROVE Stays(t)
  <2>1. t \in Nodes!Shared /\ nodeSurf[t].state = "live" /\ nodeSurf[t] \in Surfaces
    BY <1>0 DEF Nodes!Live, NodesTypes
  <2>2. CASE t # s
    BY <1>0, <1>1, <2>1, <2>2 DEF Stays, Nodes!Gone, Nodes!Live, NodesTypes
  <2>3. CASE t = s /\ nodeSurf[s].keep
    <3>1. nodeSurf'[t] = [nodeSurf[t] EXCEPT !.orphaned = TRUE]
      BY <1>0, <1>1, <2>1, <2>3 DEF NodesTypes
    <3>2. nodeSurf'[t].state = "live" /\ nodeSurf'[t].proc = nodeSurf[t].proc /\ nodeSurf'[t].node = nodeSurf[t].node
      BY <2>1, <3>1 DEF Surfaces
    <3>3. QED
      BY <1>1, <2>1, <2>3, <3>2 DEF Stays, Nodes!Live
  <2>4. CASE t = s /\ ~nodeSurf[s].keep
    BY <1>0, <1>1, <2>4 DEF Stays, SurfKnown, Placed
  <2>5. QED
    BY <2>2, <2>3, <2>4
<1>3. QED
  BY <1>1, <1>2, BrowserConfirms

LEMMA ReconcileConfirms ==
  ASSUME NodesInv, ConfirmedInv, NEW n \in Nodes!NodeIds, Nodes!Reconcile(n)
  PROVE  ConfirmedInv'
<1>1. UNCHANGED <<named, ordered, nodeInst, conn, using, toRelay, confirmed>> /\ UNCHANGED <<nodeSurf, released>>
  BY DEF Nodes!Reconcile
<1>2. QED
  BY <1>1, BrowserConfirms DEF Nodes!Live, Stays

LEMMA SetKeepConfirms ==
  ASSUME NodesInv, ConfirmedInv, NEW s \in Nodes!Shared, Nodes!SetKeep(s)
  PROVE  ConfirmedInv'
<1>0. NodesTypes
  BY DEF NodesInv
<1>1. /\ UNCHANGED <<named, ordered, nodeInst, conn, using, toRelay, confirmed>> /\ released \subseteq released'
      /\ nodeSurf' = [nodeSurf EXCEPT ![s].keep = ~nodeSurf[s].keep]
  BY DEF Nodes!SetKeep
<1>2. \A t \in Nodes!Shared : /\ nodeSurf'[t].state = nodeSurf[t].state /\ nodeSurf'[t].proc = nodeSurf[t].proc
                              /\ nodeSurf'[t].node = nodeSurf[t].node
                              /\ nodeSurf[t].orphaned = nodeSurf'[t].orphaned
  BY <1>0, <1>1 DEF NodesTypes, Surfaces
<1>3. QED
  BY <1>1, <1>2, BrowserConfirms DEF Nodes!Live, Stays

LEMMA SubscribingConfirms ==
  ASSUME NodesInv, ConfirmedInv, NEW n \in Nodes!NodeIds, Nodes!SubscribeNode(n)
  PROVE  ConfirmedInv'
<1>0. NodesTypes /\ ConnsKnown /\ InstsKnown
  BY DEF NodesInv
<1> DEFINE stale == {s \in Nodes!Live : /\ nodeSurf[s].node = n /\ nodeSurf[s].proc # n /\ ~Nodes!Remote(n)
                                        /\ ~nodeSurf[s].keep /\ ~Nodes!Exists(nodeSurf[s].proc)}
           bare == IF Nodes!Exists(n) /\ nodeInst[n].kind = "local" /\ Nodes!Of(n) = {} THEN {n} ELSE {}
           new == Nodes!Published(bare, n, TRUE)
<1>1. /\ UNCHANGED <<named, ordered, nodeInst, conn, using, toRelay, confirmed>> /\ Nodes!Room(bare)
      /\ released' = released
      /\ nodeSurf' = Nodes!With(Nodes!Gone(nodeSurf, stale), new)
  BY DEF Nodes!SubscribeNode
<1>2. Gives(new, bare, n, TRUE)
  BY <1>1, PublishedAre
<1>3. \A s \in stale : nodeSurf[s].node = n /\ nodeSurf[s].proc # n /\ ~Nodes!Remote(n)
  OBVIOUS
<1> HIDE DEF stale, bare, new
<1>4. \A s \in Nodes!Live : s \notin stale => Stays(s)
  BY <1>1, <1>2 DEF Nodes!Live, Nodes!With, Nodes!Gone, Gives, Stays
<1>5. ASSUME NEW a \in Nodes!NodeAgents, NEW s \in stale, nodeSurf[s].proc \in confirmed[a],
             nodeSurf[s].node = Nodes!Node(using[a])
      PROVE  FALSE
  <2>1. using[a] \in Nodes!Links /\ conn[using[a]].agent = a /\ Up(using[a])
    BY <1>0, <1>5, UsedLink DEF ConfirmedInv, Confirmed
  <2>2. CASE a \in named
    <3>1. n = conn[using[a]].node
      BY <1>3, <1>5, <2>1, <2>2 DEF Nodes!Node
    <3>2. n \in Nodes!InstIds /\ nodeInst[n] = Nodes!Made("node", a, using[a])
      BY <1>0, <2>1, <3>1 DEF InstsKnown
    <3>3. nodeInst[n].kind = "node"
      BY <3>2 DEF Nodes!Made
    <3>4. QED
      BY <1>3, <3>2, <3>3 DEF Nodes!Remote
  <2>3. CASE a \notin named
    <3>1. n = -a
      BY <1>3, <1>5, <2>1, <2>3 DEF Nodes!Node
    <3>2. OwnedBy(a, nodeSurf[s].proc)
      BY <1>5 DEF ConfirmedInv, Confirmed
    <3>3. QED
      BY <1>3, <2>3, <3>1, <3>2 DEF OwnedBy
  <2>4. QED
    BY <2>2, <2>3
<1>6. QED
  BY <1>1, <1>4, <1>5, BrowserConfirms

\* What an agent reports is under the node it reports as, and not orphaned;
\* what goes then is the agent's own and not reported.
LEMMA ReportConfirms ==
  ASSUME NodesInv, ConfirmedInv, NEW c \in Nodes!Links, toRelay[c] # <<>>, Head(toRelay[c]).type = "report",
         Nodes!Report(c, Head(toRelay[c]).procs), toRelay' = [toRelay EXCEPT ![c] = Tail(@)],
         UNCHANGED <<named, ordered, released, using>>
  PROVE  ConfirmedInv'
<1>0. NodesTypes /\ ConnsKnown /\ InstsKnown /\ SurfKnown
  BY DEF NodesInv
<1>1. PICK a \in Nodes!NodeAgents : conn[c].agent = a
  BY FirstTold
<1>2. Up(c) /\ Fine(c, Head(toRelay[c])) /\ Head(toRelay[c]) \in Messages
  BY FirstTold DEF Nodes!Msg
<1> DEFINE procs == Head(toRelay[c]).procs
           n == Nodes!Node(c)
           ps == {p \in procs : Nodes!Of(p) = {}}
           new == Nodes!Published(ps, n, FALSE)
           kept == Nodes!With(Nodes!Remapped(n, procs), new)
           stale == {s \in Nodes!Shared : /\ kept[s].state = "live" /\ kept[s].proc \notin procs
                                          /\ Nodes!Exists(kept[s].node) /\ Nodes!Exists(n)
                                          /\ Nodes!LabelOf(kept[s].node) = Nodes!LabelOf(n)}
<1>3. Nodes!Room(ps)
  BY DEF Nodes!Report
<1>4. nodeSurf' = [s \in Nodes!Shared |->
                     CASE s \in stale /\ kept[s].keep -> [kept[s] EXCEPT !.orphaned = TRUE]
                       [] s \in stale /\ ~kept[s].keep -> [kept[s] EXCEPT !.state = "gone"]
                       [] s \notin stale -> kept[s]]
  BY DEF Nodes!Report
<1>5. /\ UNCHANGED <<nodeInst, conn>>
      /\ confirmed' = [confirmed EXCEPT ![a] = IF using[a] = c THEN procs ELSE @]
  BY <1>1 DEF Nodes!Report
<1>6. /\ procs \in SUBSET Nodes!NodeIds /\ \A p \in procs : OwnedBy(a, p)
  BY <1>1, <1>2 DEF Fine, Messages
<1>7. ps \in SUBSET Nodes!NodeIds
  BY <1>6
<1>8. Gives(new, ps, n, FALSE)
  BY <1>3, <1>7, PublishedAre
<1>9. \A s \in Nodes!Shared :
        kept[s] = IF s \in DOMAIN new THEN new[s]
                  ELSE IF s \in Nodes!Live /\ nodeSurf[s].proc \in procs
                  THEN [nodeSurf[s] EXCEPT !.orphaned = FALSE, !.node = n] ELSE nodeSurf[s]
  BY DEF Nodes!With, Nodes!Remapped
<1>10. \A s \in stale : /\ kept[s].proc \notin procs
                        /\ Nodes!Exists(kept[s].node) /\ Nodes!Exists(n)
                        /\ Nodes!LabelOf(kept[s].node) = Nodes!LabelOf(n)
  OBVIOUS
<1>11. \A p \in procs : p \in ps \/ \E s \in Nodes!Live : nodeSurf[s].proc = p
  BY DEF Nodes!Of
<1>12. IF a \in named THEN n \in Nodes!InstIds /\ nodeInst[n].agent = a ELSE n = -a
  <2>1. conn[c].node \in Nodes!InstIds /\ nodeInst[conn[c].node] = Nodes!Made("node", a, c)
    BY <1>0, <1>1, <1>2 DEF InstsKnown
  <2>2. nodeInst[conn[c].node].agent = a
    BY <2>1 DEF Nodes!Made
  <2>3. QED
    BY <1>1, <2>1, <2>2 DEF Nodes!Node
<1> HIDE DEF procs, ps, n, new, kept, stale
<1>13. \A s \in Nodes!Live : s \in Nodes!Shared /\ nodeSurf[s].state = "live" /\ nodeSurf[s] \in Surfaces /\ s \notin DOMAIN new
  BY <1>0, <1>8 DEF Nodes!Live, NodesTypes, Gives
<1>14. ASSUME NEW p \in procs
       PROVE  \E s \in Nodes!Of(p)' : nodeSurf'[s].node = n /\ ~nodeSurf'[s].orphaned
  <2>1. CASE p \in ps
    <3>1. PICK s \in DOMAIN new : new[s] = Nodes!Surface(n, p, TRUE, FALSE)
      BY <1>8, <2>1 DEF Gives
    <3>2. s \in Nodes!Shared /\ kept[s] = Nodes!Surface(n, p, TRUE, FALSE)
      BY <1>8, <1>9, <3>1 DEF Gives
    <3>3. kept[s].proc = p
      BY <3>2 DEF Nodes!Surface
    <3>4. s \notin stale
      BY <1>10, <1>14, <3>3
    <3>5. nodeSurf'[s] = Nodes!Surface(n, p, TRUE, FALSE)
      BY <1>4, <3>2, <3>4
    <3>6. nodeSurf'[s].state = "live" /\ nodeSurf'[s].proc = p /\ nodeSurf'[s].node = n /\ ~nodeSurf'[s].orphaned
      BY <3>5 DEF Nodes!Surface
    <3>7. QED
      BY <3>2, <3>6 DEF Nodes!Of, Nodes!Live
  <2>2. CASE p \notin ps
    <3>1. PICK s \in Nodes!Live : nodeSurf[s].proc = p
      BY <1>11, <2>2
    <3>2. s \in Nodes!Shared /\ nodeSurf[s].state = "live" /\ nodeSurf[s] \in Surfaces /\ s \notin DOMAIN new
      BY <1>13
    <3>3. kept[s] = [nodeSurf[s] EXCEPT !.orphaned = FALSE, !.node = n]
      BY <1>9, <1>14, <3>1, <3>2
    <3>4. kept[s].state = "live" /\ kept[s].proc = p /\ kept[s].node = n /\ ~kept[s].orphaned
      BY <3>1, <3>2, <3>3 DEF Surfaces
    <3>5. s \notin stale
      BY <1>10, <1>14, <3>4
    <3>6. nodeSurf'[s] = kept[s]
      BY <1>4, <3>2, <3>5
    <3>7. QED
      BY <3>2, <3>4, <3>6 DEF Nodes!Of, Nodes!Live
  <2>3. QED
    BY <2>1, <2>2
<1>15. /\ confirmed' = [b \in Nodes!NodeAgents |-> confirmed'[b]]
       /\ using[a] = c => confirmed'[a] = procs
       /\ using[a] # c => confirmed'[a] = confirmed[a]
       /\ \A b \in Nodes!NodeAgents : b # a => confirmed'[b] = confirmed[b]
  <2>1. confirmed = [b \in Nodes!NodeAgents |-> confirmed[b]]
    BY DEF ConfirmedInv
  <2>2. QED
    BY <1>5, <2>1
<1>16. Confirmed(a)'
  <2>1. CASE using[a] = c
    <3>1. Nodes!Node(using[a])' = n /\ Up(using[a])' /\ using'[a] # 0
      BY <1>2, <1>5, <2>1, NodeNumbers DEF n, Nodes!Node, Up
    <3>2. \A p \in procs : OwnedBy(a, p)'
      BY <1>5, <1>6 DEF OwnedBy
    <3>3. QED
      BY <1>14, <1>15, <2>1, <3>1, <3>2 DEF Confirmed, Nodes!Found
  <2>2. CASE using[a] # c /\ a \in ordered
    <3>1. confirmed'[a] = {}
      BY <1>1, <1>15, <2>2, ReadIsUsed
    <3>2. QED
      BY <3>1 DEF Confirmed
  <2>3. CASE using[a] # c /\ a \notin ordered
    <3>1. Confirmed(a) /\ InstsGrow
      BY <1>5 DEF ConfirmedInv, InstsGrow
    <3>2. ASSUME a \in Sure, NEW s \in Nodes!Live, nodeSurf[s].proc \in confirmed[a],
                 nodeSurf[s].node = Nodes!Node(using[a])
          PROVE  Stays(s)
      <4>1. n = -a /\ n \notin Nodes!InstIds /\ a \notin named
        BY <1>12, <2>3, <3>2, NodeNumbers DEF Sure
      <4>2. s \notin stale /\ s \in Nodes!Shared /\ s \notin DOMAIN new /\ nodeSurf[s] \in Surfaces
            /\ nodeSurf[s].state = "live"
        BY <1>10, <1>13, <4>1 DEF Nodes!Exists
      <4>3. nodeSurf'[s] = kept[s]
        BY <1>4, <4>2
      <4>4. nodeSurf[s].node = n
        BY <1>0, <3>1, <3>2, <4>1, UsedLink DEF Confirmed, Nodes!Node
      <4>5. kept[s] = nodeSurf[s] \/ kept[s] = [nodeSurf[s] EXCEPT !.orphaned = FALSE, !.node = n]
        BY <1>9, <4>2
      <4>6. /\ kept[s].state = "live" /\ kept[s].proc = nodeSurf[s].proc /\ kept[s].node = nodeSurf[s].node
            /\ ~nodeSurf[s].orphaned => ~kept[s].orphaned
        BY <4>2, <4>4, <4>5 DEF Surfaces
      <4>7. QED
        BY <4>2, <4>3, <4>6 DEF Stays, Nodes!Live
    <3>3. QED
      BY <1>5, <1>15, <2>3, <3>1, <3>2, ConfirmedStays
  <2>4. QED
    BY <2>1, <2>2, <2>3
<1>17. ASSUME NEW b \in Nodes!NodeAgents, b # a, NEW s \in Nodes!Live, nodeSurf[s].proc \in confirmed[b],
              nodeSurf[s].node = Nodes!Node(using[b])
       PROVE  s \in Nodes!Live' /\ nodeSurf'[s] = nodeSurf[s]
  <2>1. using[b] \in Nodes!Links /\ conn[using[b]].agent = b /\ Up(using[b])
    BY <1>0, <1>17, UsedLink DEF ConfirmedInv, Confirmed
  <2>2. nodeSurf[s].proc \notin procs
    <3>1. PICK p \in confirmed[b] : p = nodeSurf[s].proc
      BY <1>17
    <3>2. OwnedBy(b, p)
      BY DEF ConfirmedInv, Confirmed
    <3>3. QED
      BY <1>6, <1>17, <3>1, <3>2, OwnedOnce
  <2>3. kept[s] = nodeSurf[s] /\ s \in Nodes!Shared
    BY <1>9, <1>13, <2>2
  <2>4. s \notin stale
    <3> SUFFICES ASSUME s \in stale PROVE FALSE
      OBVIOUS
    <3>1. PICK k : k = Nodes!Node(using[b])
      OBVIOUS
    <3>2. k \in Nodes!InstIds /\ n \in Nodes!InstIds /\ nodeInst[k].agent = nodeInst[n].agent
      BY <1>10, <1>17, <2>3, <3>1 DEF Nodes!Exists, Nodes!LabelOf
    <3>3. a \in named
      BY <1>12, <3>2, NodeNumbers
    <3>4. b \in named
      BY <2>1, <3>1, <3>2, NodeNumbers DEF Nodes!Node
    <3>5. nodeInst[k] = Nodes!Made("node", b, using[b])
      BY <1>0, <2>1, <3>1, <3>4 DEF InstsKnown, Nodes!Node
    <3>6. QED
      BY <1>12, <1>17, <3>2, <3>3, <3>5 DEF Nodes!Made
  <2>5. nodeSurf'[s] = nodeSurf[s]
    BY <1>4, <2>3, <2>4
  <2>6. QED
    BY <1>13, <2>3, <2>5 DEF Nodes!Live
<1>18. \A b \in Nodes!NodeAgents : b # a => \A s \in Nodes!Live :
         nodeSurf[s].proc \in confirmed[b] /\ nodeSurf[s].node = Nodes!Node(using[b]) => Stays(s)
  BY <1>17 DEF Stays
<1>19. conn[c].state \in {"registered", "unregistered"} /\ InstsGrow
  BY <1>2, <1>5 DEF Up, InstsGrow
<1>20. QED
  BY <1>1, <1>5, <1>15, <1>16, <1>18, <1>19, ReadConfirms

\* Every step of the nodes
LEMMA NodesStepConfirms ==
  ASSUME NodesInv, ConfirmedInv, Nodes!NodesNext
  PROVE  ConfirmedInv'
<1>1. CASE \E a \in Nodes!NodeAgents : Nodes!Connect(a) \/ Nodes!Lose(a) \/ Nodes!AskSpawn(a) \/ Nodes!Unregister(a)
  BY <1>1, ConnectConfirms, AgentsConfirm
<1>2. CASE \E a \in Nodes!NodeAgents, p \in Nodes!InstIds : Nodes!ProcessExits(a, p)
  BY <1>2, AgentsConfirm
<1>3. CASE \E c \in Nodes!Links : Nodes!AgentReceives(c)
  BY <1>3, ReceivingConfirms
<1>4. ASSUME NEW c \in Nodes!Links, Nodes!RelayReceives(c) PROVE ConfirmedInv'
  <2>1. /\ toRelay[c] # <<>> /\ toRelay' = [toRelay EXCEPT ![c] = Tail(@)] /\ UNCHANGED <<named, ordered, released, using>>
        /\ conn[c].agent \in ordered => \A d \in 1..(c - 1) : conn[d].agent = conn[c].agent => toRelay[d] = <<>>
    BY <1>4 DEF Nodes!RelayReceives
  <2>2. Head(toRelay[c]).type \in {"register", "report", "spawn", "exit", "unregister"}
    BY <2>1, FirstTold DEF Fine, Nodes!Msg
  <2>3. CASE Head(toRelay[c]).type = "register"
    BY <1>4, <2>1, <2>3, RegisterConfirms DEF Nodes!RelayReceives
  <2>4. CASE Head(toRelay[c]).type = "report"
    BY <1>4, <2>1, <2>4, ReportConfirms DEF Nodes!RelayReceives
  <2>5. CASE Head(toRelay[c]).type = "spawn"
    BY <1>4, <2>1, <2>5, SpawnConfirms DEF Nodes!RelayReceives
  <2>6. CASE Head(toRelay[c]).type = "exit"
    BY <1>4, <2>1, <2>6, ExitedConfirms DEF Nodes!RelayReceives
  <2>7. CASE Head(toRelay[c]).type = "unregister"
    BY <1>4, <2>1, <2>7, UnregisteredConfirms DEF Nodes!RelayReceives
  <2>8. QED
    BY <2>2, <2>3, <2>4, <2>5, <2>6, <2>7
<1>5. CASE \E c \in Nodes!Links : Nodes!Closes(c)
  BY <1>5, ClosingConfirms
<1>6. CASE \E n \in Nodes!NodeIds : Nodes!SubscribeNode(n) \/ Nodes!Reconcile(n)
  BY <1>6, SubscribingConfirms, ReconcileConfirms
<1>7. CASE \E s \in Nodes!Shared : Nodes!Subscribe(s) \/ Nodes!SetKeep(s)
  BY <1>7, OpeningConfirms, SetKeepConfirms
<1>8. QED
  BY <1>1, <1>2, <1>3, <1>4, <1>5, <1>6, <1>7, RestartConfirms DEF Nodes!NodesNext

\* A step of another subject leaves the nodes as they are.
LEMMA NodesStay ==
  ASSUME UNCHANGED nodesVars
  PROVE  /\ NodesInv => NodesInv'
         /\ ConfirmedInv => ConfirmedInv'
<1>1. /\ named' = named /\ ordered' = ordered /\ nodeInst' = nodeInst /\ conn' = conn /\ using' = using /\ toRelay' = toRelay
      /\ toAgent' = toAgent /\ running' = running /\ nodeSurf' = nodeSurf /\ cards' = cards
      /\ confirmed' = confirmed /\ released' = released
  BY DEF nodesVars
<1>2. /\ \A p : Nodes!Of(p)' = Nodes!Of(p)
      /\ Nodes!Live' = Nodes!Live
  BY <1>1 DEF Nodes!Of, Nodes!Live
<1>3. \A c : Spawned(c)' = Spawned(c)
  BY <1>1 DEF Spawned
<1>4. \A a : Alive(a)' = Alive(a)
  BY <1>1, <1>3 DEF Alive
<1>5. NodesInv => NodesInv'
  <2>1. NodesTypes => NodesTypes'
    BY <1>1 DEF NodesTypes
  <2>2. ConnsKnown /\ InstsKnown => ConnsKnown' /\ InstsKnown'
    BY <1>1 DEF ConnsKnown, InstsKnown, Opened, Up
  <2>3. QueuesKnown => QueuesKnown'
    BY <1>1, <1>4 DEF QueuesKnown, Told, Listens, Fine, Heard, OwnedBy, Up
  <2>4. RunningOwned /\ AliveShown => RunningOwned' /\ AliveShown'
    BY <1>1, <1>2, <1>4 DEF RunningOwned, AliveShown, OwnedBy
  <2>5. SurfKnown => SurfKnown'
    BY <1>1, <1>2 DEF SurfKnown, Placed
  <2>6. Nodes!PeersTrue => Nodes!PeersTrue'
    BY <1>1 DEF Nodes!PeersTrue, Nodes!NodeCards
  <2>7. QED
    BY <2>1, <2>2, <2>3, <2>4, <2>5, <2>6 DEF NodesInv
<1>6. ConfirmedInv => ConfirmedInv'
  BY <1>1, <1>2 DEF ConfirmedInv, Confirmed, Sure, InOrder, OwnedBy, Up, Nodes!Exists, Nodes!Found, Nodes!Node
<1>7. QED
  BY <1>5, <1>6

LEMMA NodesNextKeeps ==
  ASSUME NodesInv, [Next]_allVars
  PROVE  NodesInv'
<1>1. CASE NodesStep
  BY <1>1, NodesStepKeeps DEF NodesStep
<1>2. CASE UNCHANGED nodesVars
  BY <1>2, NodesStay
<1>3. Next => NodesStep \/ UNCHANGED nodesVars
  BY DEF Next, StateStep, ShellsStep, SurfacesStep, SessionsStep, ExtensionsStep, PagesStep, OutputStep
<1>4. QED
  BY <1>1, <1>2, <1>3 DEF allVars

\* A process has no two surfaces, and one that runs has one.
LEMMA NodesInvShows ==
  ASSUME NodesInv
  PROVE  Nodes!RunningIsShown
<1>1. \A a \in named : \A p \in running[a] : Nodes!Of(p) # {} \/ p \in released
  BY DEF NodesInv, AliveShown, Alive
<1>2. ASSUME NEW p \in Nodes!NodeIds PROVE Nodes!Cardinality(Nodes!Of(p)) <= 1
  <2>1. \A s, t \in Nodes!Of(p) : s = t
    BY DEF NodesInv, SurfKnown, Nodes!Of
  <2>2. Nodes!Of(p) = {} \/ \E s : Nodes!Of(p) = {s}
    BY <2>1
  <2>3. Cardinality(Nodes!Of(p)) \in {0, 1}
    BY <2>2, FS_EmptySet, FS_Singleton
  <2>4. Nodes!Cardinality(Nodes!Of(p)) = Cardinality(Nodes!Of(p))
    BY DEF Nodes!Cardinality, Cardinality
  <2>5. QED
    BY <2>3, <2>4
<1>3. QED
  BY <1>1, <1>2 DEF Nodes!RunningIsShown

\* A process that runs on an agent has a surface unless somebody un-kept it,
\* no process has two, and the peers shown are the nodes there are: over any
\* number of agents, connections and restarts of the relay, in whatever order
\* it hears of two connections of one agent (relay-server.ts:2736, 3290).
THEOREM NodesShownCorrect ==
  Spec => [](subject = "nodes" => Nodes!RunningIsShown /\ Nodes!PeersTrue)
<1>1. Init => NodesInv
  BY NodesStart DEF Init
<1>2. NodesInv /\ [Next]_allVars => NodesInv'
  BY NodesNextKeeps
<1>3. NodesInv => (subject = "nodes" => Nodes!RunningIsShown /\ Nodes!PeersTrue)
  BY NodesInvShows DEF NodesInv
<1> QED
  BY <1>1, <1>2, <1>3, PTL DEF Spec

\* An agent that has registered is in the list; what runs on one keeps its
\* surface and the peers shown are its nodes; and what it has reported, and has
\* not ended since, is found under the node it reports as and is not orphaned
\* if it is of an instance the relay knows, in whatever order browsers open and
\* un-keep surfaces and whatever connections are lost, but for a named agent
\* whose old messages arrive after its new ones
\* (relay-server.ts:2686, 2736, 2780, 3705).
THEOREM AgentsListedCorrect == Spec => []AgentsListed
<1>1. Init => NodesInv /\ ConfirmedInv
  BY NodesStart, ConfirmedStart DEF Init
<1>2. NodesInv /\ ConfirmedInv /\ [Next]_allVars => NodesInv' /\ ConfirmedInv'
  <2> SUFFICES ASSUME NodesInv, ConfirmedInv, [Next]_allVars PROVE NodesInv' /\ ConfirmedInv'
    OBVIOUS
  <2>1. CASE NodesStep
    BY <2>1, NodesStepKeeps, NodesStepConfirms DEF NodesStep
  <2>2. CASE UNCHANGED nodesVars
    BY <2>2, NodesStay
  <2>3. Next => NodesStep \/ UNCHANGED nodesVars
    BY DEF Next, StateStep, ShellsStep, SurfacesStep, SessionsStep, ExtensionsStep, PagesStep, OutputStep
  <2>4. QED
    BY <2>1, <2>2, <2>3 DEF allVars
<1>3. NodesInv /\ ConfirmedInv => Nodes!NodesFound
  <2> SUFFICES ASSUME NodesInv, ConfirmedInv PROVE Nodes!NodesFound
    OBVIOUS
  <2>1. Nodes!ReportedIsFound
    <3> SUFFICES ASSUME NEW a \in Sure, NEW p \in confirmed[a], Nodes!Exists(p) \/ p \notin released
                 PROVE  Nodes!Found(a, p)
      BY DEF Nodes!ReportedIsFound, Sure
    <3>1. a \in Nodes!NodeAgents
      BY DEF Sure
    <3>2. QED
      BY <3>1 DEF ConfirmedInv, Confirmed
  <2>2. QED
    BY <2>1, NodesInvShows DEF NodesInv, Nodes!NodesFound
<1>4. NodesInv /\ ConfirmedInv /\ (subject = "sessions" => Inst!AgentsListed) => AgentsListed
  BY <1>3 DEF AgentsListed
<1> QED
  BY <1>1, <1>2, <1>4, OwnInstanceListed, PTL DEF Spec

-----------------------------------------------------------------------------
(***************************************************************************)
(* The shells.  A start that is pending has an instance; the handle of an  *)
(* instance is a process of its own that lives.  Of an instance that was   *)
(* not restarted, nor started twice at a time, one process starts or runs, *)
(* and one that was stopped and lives is of an instance that was deleted.  *)
(***************************************************************************)
InstState ==
  [status : {"absent", "starting", "running", "stopped", "gone"}, handle : 0..MaxProcs]
ProcState ==
  [of : Insts \cup {"none"}, via : {"none", "spawn", "surface", "input", "command"},
   state : {"unused", "starting", "live", "exited"}, stopped : BOOLEAN]

ProcTypes ==
  /\ inst \in [Insts -> InstState] /\ proc \in [Inst!Procs -> ProcState]
  /\ pending \subseteq Inst!Procs

Simple(i) == i \notin restarted \cup overlapped

PendingStarts ==
  /\ \A p \in Inst!Procs : p \in pending <=> proc[p].state = "starting"
  /\ \A p \in Inst!Procs : proc[p].state # "unused" => proc[p].of \in Insts
  /\ \A p \in pending : Inst!Exists(proc[p].of) /\ ~proc[p].stopped

HandlesLive ==
  \A i \in Insts : inst[i].handle # 0 =>
    /\ inst[i].status = "running"
    /\ inst[i].handle \in Inst!Procs
    /\ proc[inst[i].handle].state = "live" /\ proc[inst[i].handle].of = i

OneStarts ==
  \A p \in pending, q \in Inst!Procs :
    p # q /\ proc[q].of = proc[p].of /\ Simple(proc[p].of) => q \notin pending /\ ~Inst!Running(q)

StoppedIsGone ==
  \A p \in Inst!Procs : proc[p].state = "live" /\ proc[p].stopped /\ Simple(proc[p].of) =>
    inst[proc[p].of].status = "gone"

ProcInv ==
  ProcTypes /\ PendingStarts /\ HandlesLive /\ OneStarts /\ StoppedIsGone /\ Inst!ShellsReachable

LEMMA ProcsAre == 0 \notin Inst!Procs /\ Inst!Procs \subseteq 0..MaxProcs
BY RelayBounds DEF Inst!Procs

LEMMA AbsentIs ==
  /\ Inst!Absent \in InstState /\ Inst!Absent.handle = 0 /\ Inst!Absent.status = "absent"
  /\ Inst!Unused \in ProcState /\ Inst!Unused.state = "unused"
BY RelayBounds DEF Inst!Absent, Inst!Unused, InstState, ProcState

LEMMA ProcsStart == Inst!ShellsInit => ProcInv
<1> SUFFICES ASSUME Inst!ShellsInit
             PROVE  ProcInv
  OBVIOUS
<1>1. /\ inst = [i \in Insts |-> Inst!Absent] /\ proc = [p \in Inst!Procs |-> Inst!Unused] /\ pending = {}
  BY DEF Inst!ShellsInit
<1>2. \A i \in Insts : inst[i].handle = 0
  BY <1>1, AbsentIs
<1>3. \A p \in Inst!Procs : proc[p].state = "unused"
  BY <1>1, AbsentIs
<1>4. ProcTypes
  BY <1>1, AbsentIs DEF ProcTypes
<1> QED
  BY <1>1, <1>2, <1>3, <1>4
     DEF ProcInv, PendingStarts, HandlesLive, OneStarts, StoppedIsGone, Inst!ShellsReachable, Inst!Running

LEMMA FreshIs ==
  ASSUME Inst!CanStart
  PROVE  Inst!Fresh \in Inst!Procs /\ proc[Inst!Fresh] = Inst!Unused
BY DEF Inst!CanStart, Inst!Fresh

\* A process is started, of an instance none runs of.
LEMMA StartKeeps ==
  ASSUME ProcInv, NEW k, NEW i \in Insts, NEW via \in {"spawn", "surface", "input"}, Inst!Start(k, i, via),
         \/ inst' = inst /\ Inst!Exists(i)
         \/ inst[i].status = "absent" /\ inst' = [inst EXCEPT ![i].status = "starting"],
         Simple(i) => \A q \in Inst!Procs : proc[q].of = i => ~Inst!Running(q),
         restarted' = restarted
  PROVE  ProcInv'
<1> ProcTypes /\ PendingStarts /\ HandlesLive /\ OneStarts /\ StoppedIsGone /\ Inst!ShellsReachable
  BY DEF ProcInv
<1> PICK f : f = Inst!Fresh
  OBVIOUS
<1>1. f \in Inst!Procs /\ proc[f] = Inst!Unused
  BY FreshIs DEF Inst!Start
<1>2. f \notin pending /\ proc[f].state = "unused"
  BY <1>1, AbsentIs DEF PendingStarts
<1> PICK new : new = [of |-> i, via |-> via, state |-> "starting", stopped |-> FALSE]
  OBVIOUS
<1>3. new \in ProcState /\ new.of = i /\ new.state = "starting" /\ ~new.stopped
  BY DEF ProcState
<1>4. proc' = [proc EXCEPT ![f] = new] /\ pending' = pending \cup {f}
  BY DEF Inst!Start
<1>5. /\ overlapped \subseteq overlapped'
      /\ (\E p \in pending : proc[p].of = i) => i \in overlapped'
  BY DEF Inst!Start
<1>6. /\ proc' \in [Inst!Procs -> ProcState] /\ proc'[f] = new
      /\ \A q \in Inst!Procs : q # f => proc'[q] = proc[q]
  BY <1>1, <1>3, <1>4 DEF ProcTypes
<1>7. /\ inst' \in [Insts -> InstState]
      /\ inst'[i].handle = inst[i].handle /\ Inst!Exists(i)'
      /\ inst'[i] = inst[i] \/ inst[i].status = "absent"
      /\ \A j \in Insts : j # i => inst'[j] = inst[j]
  <2>1. CASE inst' = inst /\ Inst!Exists(i)
    BY <2>1 DEF Inst!Exists, ProcTypes
  <2>2. CASE inst[i].status = "absent" /\ inst' = [inst EXCEPT ![i].status = "starting"]
    <3>1. PICK w \in InstState : w = inst[i]
      BY DEF ProcTypes
    <3>2. PICK v : v = [w EXCEPT !.status = "starting"]
      OBVIOUS
    <3>3. v \in InstState /\ v.handle = w.handle /\ v.status = "starting"
      BY <3>2 DEF InstState
    <3>4. inst' = [inst EXCEPT ![i] = v]
      BY <2>2, <3>1, <3>2 DEF ProcTypes
    <3>5. inst' \in [Insts -> InstState] /\ inst'[i] = v /\ \A j \in Insts : j # i => inst'[j] = inst[j]
      BY <3>3, <3>4 DEF ProcTypes
    <3> QED
      BY <2>2, <3>1, <3>3, <3>5 DEF Inst!Exists
  <2> QED
    BY <2>1, <2>2
<1>8. \A j : j \notin restarted' \cup overlapped' => Simple(j)
  BY <1>5 DEF Simple
<1>9. \A p \in Inst!Procs : Inst!Running(p)' => p # f /\ Inst!Running(p)
  BY <1>3, <1>6 DEF Inst!Running
<1>10. ProcTypes'
  BY <1>1, <1>4, <1>6, <1>7 DEF ProcTypes
<1>11. PendingStarts'
  BY <1>2, <1>3, <1>4, <1>6, <1>7 DEF PendingStarts, Inst!Exists, ProcTypes
<1>12. HandlesLive'
  <2> SUFFICES ASSUME NEW j \in Insts, inst'[j].handle # 0
               PROVE  /\ inst'[j].status = "running" /\ inst'[j].handle \in Inst!Procs
                      /\ proc'[inst'[j].handle].state = "live" /\ proc'[inst'[j].handle].of = j
    BY DEF HandlesLive
  <2>1. inst[j].handle = inst'[j].handle /\ inst[j].handle # 0
    BY <1>7
  <2>2. inst[j].status = "running" /\ inst[j].handle \in Inst!Procs
        /\ proc[inst[j].handle].state = "live" /\ proc[inst[j].handle].of = j
    BY <2>1 DEF HandlesLive
  <2>3. inst'[j] = inst[j]
    BY <1>7, <2>2
  <2> QED
    BY <1>2, <1>6, <2>2, <2>3
<1>13. Inst!ShellsReachable'
  <2> SUFFICES ASSUME NEW p \in Inst!Procs, Inst!Running(p)', proc'[p].of \notin restarted' \cup overlapped'
               PROVE  inst'[proc'[p].of] = [status |-> "running", handle |-> p]
    BY DEF Inst!ShellsReachable, Simple
  <2>1. p # f /\ Inst!Running(p) /\ proc'[p] = proc[p]
    BY <1>6, <1>9
  <2>2. proc[p].of \in Insts
    BY <2>1 DEF PendingStarts, Inst!Running
  <2>3. inst[proc[p].of] = [status |-> "running", handle |-> p]
    BY <1>8, <2>1, <2>2 DEF Inst!ShellsReachable, Simple
  <2> QED
    BY <1>7, <2>1, <2>2, <2>3
<1>14. OneStarts'
  <2> SUFFICES ASSUME NEW p \in pending', NEW q \in Inst!Procs, p # q, proc'[q].of = proc'[p].of,
                      proc'[p].of \notin restarted' \cup overlapped'
               PROVE  q \notin pending' /\ ~Inst!Running(q)'
    BY DEF OneStarts, Simple
  <2>1. p \in Inst!Procs
    BY <1>10 DEF ProcTypes
  <2>2. CASE p = f
    <3>1. proc'[p].of = i /\ q # f /\ proc[q].of = i
      BY <1>3, <1>6, <2>2
    <3>2. Simple(i) /\ i \notin overlapped'
      BY <1>8, <3>1 DEF Simple
    <3> QED
      BY <1>4, <1>5, <1>9, <3>1, <3>2
  <2>3. CASE p # f /\ q = f
    <3>1. p \in pending /\ proc[p].of = i
      BY <1>3, <1>4, <1>6, <2>1, <2>3
    <3>2. i \in overlapped'
      BY <1>5, <3>1
    <3> QED
      BY <1>3, <1>6, <2>3, <3>2 DEF Simple
  <2>4. CASE p # f /\ q # f
    <3>1. p \in pending /\ proc'[p] = proc[p] /\ proc'[q] = proc[q]
      BY <1>4, <1>6, <2>1, <2>4
    <3>2. proc[p].of \in Insts
      BY <3>1 DEF PendingStarts, ProcTypes
    <3> QED
      BY <1>4, <1>8, <1>9, <2>4, <3>1, <3>2 DEF OneStarts
  <2> QED
    BY <2>2, <2>3, <2>4
<1>15. StoppedIsGone'
  <2> SUFFICES ASSUME NEW p \in Inst!Procs, proc'[p].state = "live", proc'[p].stopped, proc'[p].of \notin restarted' \cup overlapped'
               PROVE  inst'[proc'[p].of].status = "gone"
    BY DEF StoppedIsGone, Simple
  <2>1. p # f /\ proc'[p] = proc[p]
    BY <1>3, <1>6
  <2>2. proc[p].of \in Insts
    BY <2>1 DEF PendingStarts
  <2>3. inst[proc[p].of].status = "gone"
    BY <1>8, <2>1, <2>2 DEF StoppedIsGone
  <2> QED
    BY <1>7, <2>1, <2>2, <2>3
<1> QED
  BY <1>10, <1>11, <1>12, <1>13, <1>14, <1>15 DEF ProcInv

LEMMA ProcsStay ==
  ASSUME ProcInv, UNCHANGED <<inst, proc, pending, restarted, overlapped>>
  PROVE  ProcInv'
BY DEF ProcInv, ProcTypes, PendingStarts, HandlesLive, OneStarts, StoppedIsGone, Simple,
       Inst!ShellsReachable, Inst!Running, Inst!Exists

LEMMA RunningIsHandle ==
  ASSUME ProcInv, NEW q \in Inst!Procs, Inst!Running(q), Simple(proc[q].of)
  PROVE  Inst!Attached(proc[q].of) /\ inst[proc[q].of].handle = q /\ inst[proc[q].of].status = "running"
<1>1. inst[proc[q].of] = [status |-> "running", handle |-> q]
  BY DEF ProcInv, Inst!ShellsReachable, Simple
<1> QED
  BY <1>1, ProcsAre DEF Inst!Attached

LEMMA SpawnShellKeeps ==
  ASSUME ProcInv, NEW k, NEW i \in Insts, NEW viaSurface \in BOOLEAN, Inst!SpawnShell(k, i, viaSurface)
  PROVE  ProcInv'
<1>1. inst' = inst /\ Inst!Exists(i) /\ restarted' = restarted
  BY DEF Inst!SpawnShell
<1>2. CASE Inst!Attached(i)
  BY <1>1, <1>2, ProcsStay DEF Inst!SpawnShell, Inst!NoStart
<1>3. CASE ~Inst!Attached(i)
  <2>1. Inst!Start(k, i, "surface") \/ Inst!Start(k, i, "spawn")
    BY <1>3 DEF Inst!SpawnShell
  <2>2. \A q \in Inst!Procs : Simple(i) /\ proc[q].of = i => ~Inst!Running(q)
    BY <1>3, RunningIsHandle
  <2> QED
    BY <1>1, <2>1, <2>2, StartKeeps
<1> QED
  BY <1>2, <1>3

LEMMA SpawnNewKeeps ==
  ASSUME ProcInv, NEW k, NEW i \in Insts, Inst!SpawnNew(k, i)
  PROVE  ProcInv'
<1>1. /\ inst[i].status = "absent" /\ inst' = [inst EXCEPT ![i].status = "starting"]
      /\ restarted' = restarted /\ Inst!Start(k, i, "spawn")
  BY DEF Inst!SpawnNew
<1>2. \A q \in Inst!Procs : Simple(i) /\ proc[q].of = i => ~Inst!Running(q)
  BY <1>1, RunningIsHandle
<1> QED
  BY <1>1, <1>2, StartKeeps

LEMMA SelfHealKeeps ==
  ASSUME ProcInv, NEW k, NEW i \in Insts, Inst!SelfHeal(k, i)
  PROVE  ProcInv'
<1>1. /\ inst' = inst /\ inst[i].handle = 0 /\ Inst!Exists(i)
      /\ restarted' = restarted /\ Inst!Start(k, i, "input")
  BY DEF Inst!SelfHeal
<1>2. \A q \in Inst!Procs : Simple(i) /\ proc[q].of = i => ~Inst!Running(q)
  BY <1>1, RunningIsHandle DEF Inst!Attached
<1> QED
  BY <1>1, <1>2, StartKeeps

LEMMA CreateKeeps ==
  ASSUME ProcInv, NEW i \in Insts, Inst!Create(i)
  PROVE  ProcInv'
<1> ProcTypes /\ PendingStarts /\ HandlesLive /\ OneStarts /\ StoppedIsGone /\ Inst!ShellsReachable
  BY DEF ProcInv
<1>1. /\ pending = {} /\ inst[i].status = "absent" /\ inst' = [inst EXCEPT ![i].status = "starting"]
      /\ UNCHANGED <<proc, pending, restarted, overlapped>>
  BY DEF Inst!Create
<1>2. PICK w \in InstState : w = inst[i]
  BY DEF ProcTypes
<1>3. PICK v : v = [w EXCEPT !.status = "starting"]
  OBVIOUS
<1>4. v \in InstState /\ v.handle = w.handle /\ v.status = "starting"
  BY <1>3 DEF InstState
<1>5. inst' = [inst EXCEPT ![i] = v]
  BY <1>1, <1>2, <1>3 DEF ProcTypes
<1>6. inst' \in [Insts -> InstState] /\ inst'[i] = v /\ \A j \in Insts : j # i => inst'[j] = inst[j]
  BY <1>4, <1>5 DEF ProcTypes
<1>7. ProcTypes'
  BY <1>1, <1>6 DEF ProcTypes
<1>8. PendingStarts' /\ OneStarts'
  BY <1>1 DEF PendingStarts, OneStarts
<1>9. HandlesLive'
  BY <1>1, <1>2, <1>4, <1>6 DEF HandlesLive
<1>10. StoppedIsGone'
  <2> SUFFICES ASSUME NEW p \in Inst!Procs, proc[p].state = "live", proc[p].stopped, Simple(proc[p].of)
               PROVE  inst'[proc[p].of].status = "gone"
    BY <1>1 DEF StoppedIsGone, Simple
  <2> QED
    BY <1>1, <1>6 DEF StoppedIsGone, PendingStarts
<1>11. Inst!ShellsReachable'
  <2> SUFFICES ASSUME NEW p \in Inst!Procs, Inst!Running(p), Simple(proc[p].of)
               PROVE  inst'[proc[p].of] = [status |-> "running", handle |-> p]
    BY <1>1 DEF Inst!ShellsReachable, Simple, Inst!Running
  <2>1. inst[proc[p].of] = [status |-> "running", handle |-> p] /\ proc[p].of \in Insts
    BY DEF Inst!ShellsReachable, Simple, PendingStarts, Inst!Running
  <2>2. proc[p].of # i
    BY <1>1, <2>1
  <2> QED
    BY <1>6, <2>1, <2>2
<1> QED
  BY <1>7, <1>8, <1>9, <1>10, <1>11 DEF ProcInv

\* The process of the handle is told to stop.
LEMMA StoppedIs ==
  ASSUME ProcInv, NEW i \in Insts
  PROVE  /\ Inst!Stopped(i) \in [Inst!Procs -> ProcState]
         /\ \A q \in Inst!Procs : /\ Inst!Stopped(i)[q].of = proc[q].of
                                  /\ Inst!Stopped(i)[q].state = proc[q].state
                                  /\ ~Inst!Stopped(i)[q].stopped => ~proc[q].stopped
                                  /\ q = inst[i].handle => Inst!Stopped(i)[q].stopped
                                  /\ q # inst[i].handle => Inst!Stopped(i)[q] = proc[q]
<1> ProcTypes /\ HandlesLive
  BY DEF ProcInv
<1>1. CASE inst[i].handle = 0
  BY <1>1, ProcsAre DEF Inst!Stopped, ProcTypes
<1>2. CASE inst[i].handle # 0
  <2>1. PICK h \in Inst!Procs : h = inst[i].handle
    BY <1>2 DEF HandlesLive
  <2>2. PICK w \in ProcState : w = proc[h]
    BY DEF ProcTypes
  <2>3. PICK v : v = [w EXCEPT !.stopped = TRUE]
    OBVIOUS
  <2>4. v \in ProcState /\ v.of = w.of /\ v.state = w.state /\ v.stopped = TRUE
    BY <2>3 DEF ProcState
  <2>5. Inst!Stopped(i) = [proc EXCEPT ![h] = v]
    BY <1>2, <2>1, <2>2, <2>3 DEF Inst!Stopped, ProcTypes
  <2> QED
    BY <2>1, <2>2, <2>4, <2>5 DEF ProcTypes
<1> QED
  BY <1>1, <1>2

LEMMA DeleteKeeps ==
  ASSUME ProcInv, NEW i \in Insts, Inst!Delete(i)
  PROVE  ProcInv'
<1> ProcTypes /\ PendingStarts /\ HandlesLive /\ OneStarts /\ StoppedIsGone /\ Inst!ShellsReachable
  BY DEF ProcInv
<1>1. /\ pending = {} /\ proc' = Inst!Stopped(i) /\ inst' = [inst EXCEPT ![i] = [status |-> "gone", handle |-> 0]]
      /\ UNCHANGED <<pending, restarted, overlapped>>
  BY DEF Inst!Delete
<1>2. /\ proc' \in [Inst!Procs -> ProcState]
      /\ \A q \in Inst!Procs : /\ proc'[q].of = proc[q].of /\ proc'[q].state = proc[q].state
                               /\ ~proc'[q].stopped => ~proc[q].stopped
                               /\ q = inst[i].handle => proc'[q].stopped
                               /\ q # inst[i].handle => proc'[q] = proc[q]
  BY <1>1, StoppedIs
<1>3. PICK v : v = [status |-> "gone", handle |-> 0]
  OBVIOUS
<1>4. v \in InstState /\ v.status = "gone" /\ v.handle = 0
  BY <1>3, RelayBounds DEF InstState
<1>5. inst' \in [Insts -> InstState] /\ inst'[i] = v /\ \A j \in Insts : j # i => inst'[j] = inst[j]
  BY <1>1, <1>3, <1>4 DEF ProcTypes
<1>6. ProcTypes'
  BY <1>1, <1>2, <1>5 DEF ProcTypes
<1>7. PendingStarts' /\ OneStarts'
  BY <1>1, <1>2 DEF PendingStarts, OneStarts
<1>8. HandlesLive'
  BY <1>2, <1>4, <1>5 DEF HandlesLive
<1>9. StoppedIsGone'
  <2> SUFFICES ASSUME NEW p \in Inst!Procs, proc'[p].state = "live", proc'[p].stopped, Simple(proc[p].of)
               PROVE  inst'[proc[p].of].status = "gone"
    BY <1>1, <1>2 DEF StoppedIsGone, Simple
  <2>1. proc[p].state = "live" /\ proc[p].of \in Insts
    BY <1>2 DEF PendingStarts
  <2>2. CASE p = inst[i].handle
    <3>1. proc[p].of = i
      BY <2>2, ProcsAre DEF HandlesLive
    <3> QED
      BY <1>4, <1>5, <3>1
  <2>3. CASE p # inst[i].handle
    BY <1>2, <1>4, <1>5, <2>1, <2>3 DEF StoppedIsGone
  <2> QED
    BY <2>2, <2>3
<1>10. Inst!ShellsReachable'
  <2> SUFFICES ASSUME NEW p \in Inst!Procs, proc'[p].state = "live", ~proc'[p].stopped, Simple(proc[p].of)
               PROVE  inst'[proc[p].of] = [status |-> "running", handle |-> p]
    BY <1>1, <1>2 DEF Inst!ShellsReachable, Simple, Inst!Running
  <2>1. proc[p].state = "live" /\ proc[p].of \in Insts /\ Inst!Running(p)
    BY <1>2 DEF PendingStarts, Inst!Running
  <2>2. inst[proc[p].of] = [status |-> "running", handle |-> p]
    BY <2>1 DEF Inst!ShellsReachable, Simple
  <2>3. proc[p].of # i
    BY <1>2, <2>2
  <2> QED
    BY <1>5, <2>1, <2>2, <2>3
<1> QED
  BY <1>6, <1>7, <1>8, <1>9, <1>10 DEF ProcInv

LEMMA RestartShellKeeps ==
  ASSUME ProcInv, NEW k, NEW i \in Insts, Inst!Restart(k, i)
  PROVE  ProcInv'
<1> ProcTypes /\ PendingStarts /\ HandlesLive /\ OneStarts /\ StoppedIsGone /\ Inst!ShellsReachable
  BY DEF ProcInv
<1> PICK f : f = Inst!Fresh
  OBVIOUS
<1>1. f \in Inst!Procs /\ proc[f] = Inst!Unused
  BY FreshIs DEF Inst!Restart
<1>2. f \notin pending /\ proc[f].state = "unused"
  BY <1>1, AbsentIs DEF PendingStarts
<1> PICK new : new = [of |-> i, via |-> "command", state |-> "starting", stopped |-> FALSE]
  OBVIOUS
<1>3. new \in ProcState /\ new.of = i /\ new.state = "starting" /\ ~new.stopped
  BY DEF ProcState
<1>4. /\ proc' = [Inst!Stopped(i) EXCEPT ![f] = new] /\ pending' = pending \cup {f}
      /\ inst' = [inst EXCEPT ![i].handle = 0]
      /\ restarted' = restarted \cup {i} /\ Inst!Exists(i)
  BY DEF Inst!Restart
<1>5. overlapped \subseteq overlapped'
  BY DEF Inst!Restart
<1>6. /\ proc' \in [Inst!Procs -> ProcState] /\ proc'[f] = new
      /\ \A q \in Inst!Procs : q # f =>
           /\ proc'[q].of = proc[q].of /\ proc'[q].state = proc[q].state
           /\ q # inst[i].handle => proc'[q] = proc[q]
  BY <1>1, <1>3, <1>4, StoppedIs
<1>7. PICK w \in InstState : w = inst[i]
  BY DEF ProcTypes
<1>8. PICK v : v = [w EXCEPT !.handle = 0]
  OBVIOUS
<1>9. v \in InstState /\ v.handle = 0 /\ v.status = w.status
  BY <1>8, RelayBounds DEF InstState
<1>10. /\ inst' \in [Insts -> InstState] /\ inst'[i] = v /\ \A j \in Insts : j # i => inst'[j] = inst[j]
  <2>1. inst' = [inst EXCEPT ![i] = v]
    BY <1>4, <1>7, <1>8 DEF ProcTypes
  <2> QED
    BY <1>9, <2>1 DEF ProcTypes
<1>11. \A j : j \notin restarted' \cup overlapped' => Simple(j) /\ j # i
  BY <1>4, <1>5 DEF Simple
<1>12. ASSUME NEW q \in Inst!Procs, q # f, proc[q].of # i
       PROVE  proc'[q] = proc[q]
  <2>1. q # inst[i].handle
    BY <1>12, ProcsAre DEF HandlesLive
  <2> QED
    BY <1>6, <1>12, <2>1
<1>13. ProcTypes'
  BY <1>1, <1>4, <1>6, <1>10 DEF ProcTypes
<1>14. PendingStarts'
  <2>1. \A p \in Inst!Procs : p \in pending' <=> proc'[p].state = "starting"
    BY <1>3, <1>4, <1>6 DEF PendingStarts
  <2>2. \A p \in Inst!Procs : proc'[p].state # "unused" => proc'[p].of \in Insts
    BY <1>3, <1>6 DEF PendingStarts
  <2>3. ASSUME NEW p \in pending
        PROVE  p # f /\ proc'[p] = proc[p]
    <3>1. p \in Inst!Procs /\ p # f /\ proc[p].state = "starting"
      BY <1>2 DEF ProcTypes, PendingStarts
    <3>2. p # inst[i].handle
      BY <3>1, ProcsAre DEF HandlesLive
    <3> QED
      BY <1>6, <3>1, <3>2
  <2>4. \A j \in Insts : Inst!Exists(j) => Inst!Exists(j)'
    BY <1>7, <1>9, <1>10 DEF Inst!Exists
  <2>5. \A p \in pending : proc[p].of \in Insts
    BY DEF PendingStarts, ProcTypes
  <2>6. ASSUME NEW p \in pending'
        PROVE  inst'[proc'[p].of].status \in {"starting", "running", "stopped"} /\ ~proc'[p].stopped
    <3>1. CASE p = f
      BY <1>3, <1>4, <1>6, <2>4, <3>1 DEF Inst!Exists
    <3>2. CASE p # f
      BY <1>4, <2>3, <2>4, <2>5, <3>2 DEF Inst!Exists, PendingStarts
    <3> QED
      BY <3>1, <3>2
  <2> QED
    BY <2>1, <2>2, <2>6 DEF PendingStarts, Inst!Exists
<1>15. HandlesLive'
  <2> SUFFICES ASSUME NEW j \in Insts, inst'[j].handle # 0
               PROVE  /\ inst'[j].status = "running" /\ inst'[j].handle \in Inst!Procs
                      /\ proc'[inst'[j].handle].state = "live" /\ proc'[inst'[j].handle].of = j
    BY DEF HandlesLive
  <2>1. j # i /\ inst'[j] = inst[j]
    BY <1>9, <1>10
  <2>2. inst[j].status = "running" /\ inst[j].handle \in Inst!Procs
        /\ proc[inst[j].handle].state = "live" /\ proc[inst[j].handle].of = j
    BY <2>1 DEF HandlesLive
  <2> QED
    BY <1>2, <1>6, <2>1, <2>2
<1>16. OneStarts'
  <2> SUFFICES ASSUME NEW p \in pending', NEW q \in Inst!Procs, p # q, proc'[q].of = proc'[p].of,
                      proc'[p].of \notin restarted' \cup overlapped'
               PROVE  q \notin pending' /\ ~Inst!Running(q)'
    BY DEF OneStarts, Simple
  <2>1. p \in Inst!Procs
    BY <1>13 DEF ProcTypes
  <2>2. proc'[p].of # i /\ Simple(proc'[p].of)
    BY <1>11
  <2>3. p # f /\ q # f
    BY <1>3, <1>6, <2>2
  <2>4. p \in pending /\ proc[p].of = proc'[p].of /\ proc[q].of = proc[p].of /\ proc'[q] = proc[q]
    BY <1>4, <1>6, <1>12, <2>1, <2>2, <2>3
  <2> QED
    BY <1>4, <2>2, <2>3, <2>4 DEF OneStarts, Inst!Running
<1>17. StoppedIsGone'
  <2> SUFFICES ASSUME NEW p \in Inst!Procs, proc'[p].state = "live", proc'[p].stopped,
                      proc'[p].of \notin restarted' \cup overlapped'
               PROVE  inst'[proc'[p].of].status = "gone"
    BY DEF StoppedIsGone, Simple
  <2>1. p # f /\ proc[p].of = proc'[p].of /\ proc[p].of # i /\ Simple(proc[p].of)
    BY <1>3, <1>6, <1>11
  <2>2. proc'[p] = proc[p] /\ proc[p].of \in Insts
    BY <1>12, <2>1 DEF PendingStarts
  <2> QED
    BY <1>10, <2>1, <2>2 DEF StoppedIsGone
<1>18. Inst!ShellsReachable'
  <2> SUFFICES ASSUME NEW p \in Inst!Procs, proc'[p].state = "live", ~proc'[p].stopped,
                      proc'[p].of \notin restarted' \cup overlapped'
               PROVE  inst'[proc'[p].of] = [status |-> "running", handle |-> p]
    BY DEF Inst!ShellsReachable, Inst!Running
  <2>1. p # f /\ proc[p].of = proc'[p].of /\ proc[p].of # i /\ Simple(proc[p].of)
    BY <1>3, <1>6, <1>11
  <2>2. proc'[p] = proc[p] /\ proc[p].of \in Insts
    BY <1>12, <2>1 DEF PendingStarts
  <2> QED
    BY <1>10, <2>1, <2>2 DEF Inst!ShellsReachable, Inst!Running, Simple
<1> QED
  BY <1>13, <1>14, <1>15, <1>16, <1>17, <1>18 DEF ProcInv

\* What a process is after its state changed
LEMMA ProcChanged ==
  ASSUME ProcTypes, NEW p \in Inst!Procs, NEW st \in {"live", "exited"}, proc' = [proc EXCEPT ![p].state = st]
  PROVE  /\ proc' \in [Inst!Procs -> ProcState]
         /\ proc'[p].of = proc[p].of /\ proc'[p].stopped = proc[p].stopped /\ proc'[p].state = st
         /\ \A q \in Inst!Procs : q # p => proc'[q] = proc[q]
<1>1. PICK w \in ProcState : w = proc[p]
  BY DEF ProcTypes
<1>2. PICK v : v = [w EXCEPT !.state = st]
  OBVIOUS
<1>3. v \in ProcState /\ v.of = w.of /\ v.stopped = w.stopped /\ v.state = st
  BY <1>2 DEF ProcState
<1>4. proc' = [proc EXCEPT ![p] = v]
  BY <1>1, <1>2 DEF ProcTypes
<1> QED
  BY <1>1, <1>3, <1>4 DEF ProcTypes

LEMMA SettleKeeps ==
  ASSUME ProcInv, NEW p \in Inst!Procs, Inst!Settle(p)
  PROVE  ProcInv'
<1> ProcTypes /\ PendingStarts /\ HandlesLive /\ OneStarts /\ StoppedIsGone /\ Inst!ShellsReachable
  BY DEF ProcInv
<1>1. /\ p \in pending /\ pending' = pending \ {p}
      /\ inst' = [inst EXCEPT ![proc[p].of] = [status |-> "running", handle |-> p]]
      /\ proc' = [proc EXCEPT ![p].state = "live"]
      /\ UNCHANGED <<restarted, overlapped>>
  BY DEF Inst!Settle
<1> PICK i : i = proc[p].of
  OBVIOUS
<1>2. i \in Insts /\ Inst!Exists(i) /\ proc[p].state = "starting" /\ ~proc[p].stopped
  BY <1>1 DEF PendingStarts
<1>3. /\ proc' \in [Inst!Procs -> ProcState]
      /\ proc'[p].of = i /\ proc'[p].stopped = proc[p].stopped /\ proc'[p].state = "live"
      /\ \A q \in Inst!Procs : q # p => proc'[q] = proc[q]
  BY <1>1, ProcChanged
<1>4. PICK v : v = [status |-> "running", handle |-> p]
  OBVIOUS
<1>5. v \in InstState /\ v.status = "running" /\ v.handle = p
  BY <1>4, ProcsAre DEF InstState
<1>6. inst' \in [Insts -> InstState] /\ inst'[i] = v /\ \A j \in Insts : j # i => inst'[j] = inst[j]
  BY <1>1, <1>2, <1>4, <1>5 DEF ProcTypes
<1>7. ProcTypes'
  BY <1>1, <1>3, <1>6 DEF ProcTypes
<1>8. PendingStarts'
  <2>1. \A q \in Inst!Procs : q \in pending' <=> proc'[q].state = "starting"
    BY <1>1, <1>3 DEF PendingStarts
  <2>2. \A q \in Inst!Procs : proc'[q].state # "unused" => proc'[q].of \in Insts
    BY <1>2, <1>3 DEF PendingStarts
  <2>3. ASSUME NEW q \in pending'
        PROVE  inst'[proc'[q].of].status \in {"starting", "running", "stopped"} /\ ~proc'[q].stopped
    <3>1. q \in pending /\ q # p /\ q \in Inst!Procs
      BY <1>1 DEF ProcTypes
    <3>2. proc'[q] = proc[q] /\ Inst!Exists(proc[q].of) /\ proc[q].of \in Insts /\ ~proc[q].stopped
      BY <1>3, <3>1 DEF PendingStarts
    <3>3. inst'[proc[q].of].status \in {"starting", "running", "stopped"}
      BY <1>5, <1>6, <3>2 DEF Inst!Exists
    <3> QED
      BY <3>2, <3>3 DEF Inst!Exists
  <2> QED
    BY <2>1, <2>2, <2>3 DEF PendingStarts, Inst!Exists
<1>9. HandlesLive'
  <2> SUFFICES ASSUME NEW j \in Insts, inst'[j].handle # 0
               PROVE  /\ inst'[j].status = "running" /\ inst'[j].handle \in Inst!Procs
                      /\ proc'[inst'[j].handle].state = "live" /\ proc'[inst'[j].handle].of = j
    BY DEF HandlesLive
  <2>1. CASE j = i
    BY <1>3, <1>5, <1>6, <2>1
  <2>2. CASE j # i
    <3>1. inst'[j] = inst[j] /\ proc[inst[j].handle].state = "live" /\ inst[j].handle \in Inst!Procs
      BY <1>6, <2>2 DEF HandlesLive
    <3>2. inst[j].handle # p
      BY <1>2, <3>1
    <3> QED
      BY <1>3, <3>1, <3>2 DEF HandlesLive
  <2> QED
    BY <2>1, <2>2
<1>10. OneStarts'
  <2> SUFFICES ASSUME NEW a \in pending', NEW b \in Inst!Procs, a # b, proc'[b].of = proc'[a].of,
                      Simple(proc'[a].of)
               PROVE  b \notin pending' /\ ~Inst!Running(b)'
    BY <1>1 DEF OneStarts, Simple
  <2>1. a \in pending /\ a # p /\ a \in Inst!Procs /\ proc'[a] = proc[a] /\ proc'[b].of = proc[b].of
    BY <1>1, <1>3 DEF ProcTypes
  <2>2. b \notin pending /\ ~Inst!Running(b)
    BY <2>1 DEF OneStarts
  <2> QED
    BY <1>1, <1>3, <2>2 DEF Inst!Running
<1>11. StoppedIsGone'
  <2> SUFFICES ASSUME NEW q \in Inst!Procs, proc'[q].state = "live", proc'[q].stopped, Simple(proc'[q].of)
               PROVE  inst'[proc'[q].of].status = "gone"
    BY <1>1 DEF StoppedIsGone, Simple
  <2>1. q # p /\ proc'[q] = proc[q] /\ proc[q].of \in Insts
    BY <1>2, <1>3 DEF PendingStarts
  <2>2. inst[proc[q].of].status = "gone"
    BY <2>1 DEF StoppedIsGone
  <2>3. proc[q].of # i
    BY <1>2, <2>2 DEF Inst!Exists
  <2> QED
    BY <1>6, <2>1, <2>2, <2>3
<1>12. Inst!ShellsReachable'
  <2> SUFFICES ASSUME NEW q \in Inst!Procs, proc'[q].state = "live", ~proc'[q].stopped, Simple(proc'[q].of)
               PROVE  inst'[proc'[q].of] = [status |-> "running", handle |-> q]
    BY <1>1 DEF Inst!ShellsReachable, Simple, Inst!Running
  <2>1. CASE q = p
    BY <1>3, <1>4, <1>6, <2>1
  <2>2. CASE q # p
    <3>1. proc'[q] = proc[q] /\ Inst!Running(q) /\ proc[q].of \in Insts
      BY <1>3, <2>2 DEF PendingStarts, Inst!Running
    <3>2. proc[q].of # i
      BY <1>1, <2>2, <3>1 DEF OneStarts
    <3> QED
      BY <1>6, <3>1, <3>2 DEF Inst!ShellsReachable, Simple
  <2> QED
    BY <2>1, <2>2
<1> QED
  BY <1>7, <1>8, <1>9, <1>10, <1>11, <1>12 DEF ProcInv

LEMMA StartThrowsKeeps ==
  ASSUME ProcInv, NEW p \in Inst!Procs, Inst!StartThrows(p)
  PROVE  ProcInv'
<1> ProcTypes /\ PendingStarts /\ HandlesLive /\ OneStarts /\ StoppedIsGone /\ Inst!ShellsReachable
  BY DEF ProcInv
<1>1. /\ p \in pending /\ pending' = pending \ {p} /\ inst' = inst
      /\ proc' = [proc EXCEPT ![p].state = "exited"]
      /\ UNCHANGED <<restarted, overlapped>>
  BY DEF Inst!StartThrows
<1>2. proc[p].of \in Insts /\ proc[p].state = "starting"
  BY <1>1 DEF PendingStarts
<1>3. /\ proc' \in [Inst!Procs -> ProcState]
      /\ proc'[p].of = proc[p].of /\ proc'[p].state = "exited"
      /\ \A q \in Inst!Procs : q # p => proc'[q] = proc[q]
  BY <1>1, ProcChanged
<1>4. ProcTypes'
  BY <1>1, <1>3 DEF ProcTypes
<1>5. PendingStarts'
  BY <1>1, <1>2, <1>3 DEF PendingStarts, Inst!Exists, ProcTypes
<1>6. HandlesLive'
  BY <1>1, <1>2, <1>3 DEF HandlesLive
<1>7. OneStarts'
  BY <1>1, <1>3 DEF OneStarts, Simple, Inst!Running, ProcTypes
<1>8. StoppedIsGone' /\ Inst!ShellsReachable'
  BY <1>1, <1>3 DEF StoppedIsGone, Simple, Inst!ShellsReachable, Inst!Running
<1> QED
  BY <1>4, <1>5, <1>6, <1>7, <1>8 DEF ProcInv

LEMMA ExitShellKeeps ==
  ASSUME ProcInv, NEW p \in Inst!Procs, Inst!Exit(p)
  PROVE  ProcInv'
<1> ProcTypes /\ PendingStarts /\ HandlesLive /\ OneStarts /\ StoppedIsGone /\ Inst!ShellsReachable
  BY DEF ProcInv
<1> PICK i : i = proc[p].of
  OBVIOUS
<1>1. /\ pending = {} /\ pending' = {} /\ proc[p].state = "live" /\ proc' = [proc EXCEPT ![p].state = "exited"]
      /\ inst' = IF Inst!Exists(i) THEN [inst EXCEPT ![i] = [status |-> "stopped", handle |-> 0]] ELSE inst
      /\ UNCHANGED <<restarted, overlapped>>
  BY DEF Inst!Exit
<1>2. i \in Insts
  BY <1>1 DEF PendingStarts
<1>3. /\ proc' \in [Inst!Procs -> ProcState]
      /\ proc'[p].of = i /\ proc'[p].state = "exited"
      /\ \A q \in Inst!Procs : q # p => proc'[q] = proc[q]
  BY <1>1, ProcChanged
<1>4. PICK v : v = [status |-> "stopped", handle |-> 0]
  OBVIOUS
<1>5. v \in InstState /\ v.status = "stopped" /\ v.handle = 0
  BY <1>4, RelayBounds DEF InstState
<1>6. /\ inst' \in [Insts -> InstState] /\ \A j \in Insts : j # i => inst'[j] = inst[j]
      /\ \/ Inst!Exists(i) /\ inst'[i] = v
         \/ ~Inst!Exists(i) /\ inst'[i] = inst[i]
  <2>1. CASE Inst!Exists(i)
    BY <1>1, <1>2, <1>4, <1>5, <2>1 DEF ProcTypes
  <2>2. CASE ~Inst!Exists(i)
    BY <1>1, <2>2 DEF ProcTypes
  <2> QED
    BY <2>1, <2>2
<1>7. ProcTypes'
  BY <1>1, <1>3, <1>6 DEF ProcTypes
<1>8. PendingStarts' /\ OneStarts'
  BY <1>1, <1>2, <1>3 DEF PendingStarts, OneStarts
<1>9. HandlesLive'
  <2> SUFFICES ASSUME NEW j \in Insts, inst'[j].handle # 0
               PROVE  /\ inst'[j].status = "running" /\ inst'[j].handle \in Inst!Procs
                      /\ proc'[inst'[j].handle].state = "live" /\ proc'[inst'[j].handle].of = j
    BY DEF HandlesLive
  <2>1. j # i
    BY <1>5, <1>6 DEF HandlesLive, Inst!Exists
  <2>2. inst'[j] = inst[j] /\ inst[j].handle \in Inst!Procs /\ inst[j].handle # p
    BY <1>6, <2>1 DEF HandlesLive
  <2> QED
    BY <1>3, <2>2 DEF HandlesLive
<1>10. StoppedIsGone'
  <2> SUFFICES ASSUME NEW q \in Inst!Procs, proc'[q].state = "live", proc'[q].stopped, Simple(proc'[q].of)
               PROVE  inst'[proc'[q].of].status = "gone"
    BY <1>1 DEF StoppedIsGone, Simple
  <2>1. q # p /\ proc'[q] = proc[q] /\ proc[q].of \in Insts
    BY <1>3 DEF PendingStarts
  <2>2. inst[proc[q].of].status = "gone"
    BY <2>1 DEF StoppedIsGone
  <2> QED
    BY <1>6, <2>1, <2>2 DEF Inst!Exists
<1>11. Inst!ShellsReachable'
  <2> SUFFICES ASSUME NEW q \in Inst!Procs, proc'[q].state = "live", ~proc'[q].stopped, Simple(proc'[q].of)
               PROVE  inst'[proc'[q].of] = [status |-> "running", handle |-> q]
    BY <1>1 DEF Inst!ShellsReachable, Simple, Inst!Running
  <2>1. q # p /\ proc'[q] = proc[q] /\ Inst!Running(q) /\ proc[q].of \in Insts
    BY <1>3 DEF PendingStarts, Inst!Running
  <2>2. inst[proc[q].of] = [status |-> "running", handle |-> q]
    BY <2>1 DEF Inst!ShellsReachable, Simple
  <2>3. ASSUME proc[q].of = i
        PROVE  FALSE
    <3>1. CASE proc[p].stopped
      BY <1>1, <2>1, <2>2, <2>3, <3>1 DEF StoppedIsGone
    <3>2. CASE ~proc[p].stopped
      <4>1. inst[i] = [status |-> "running", handle |-> p]
        BY <1>1, <2>1, <2>3, <3>2 DEF Inst!ShellsReachable, Simple, Inst!Running
      <4> QED
        BY <2>1, <2>2, <2>3, <4>1
    <3> QED
      BY <3>1, <3>2
  <2> QED
    BY <1>6, <2>1, <2>2, <2>3
<1> QED
  BY <1>7, <1>8, <1>9, <1>10, <1>11 DEF ProcInv

LEMMA ShellStepKeeps ==
  ASSUME ProcInv, Inst!ShellsNext
  PROVE  ProcInv'
<1>1. ASSUME NEW k \in Sockets, NEW i \in Insts, Inst!Lock(k, i) \/ Inst!Unlock(k, i)
      PROVE  ProcInv'
  BY <1>1, ProcsStay DEF Inst!Lock, Inst!Unlock
<1>2. ASSUME NEW k \in Sockets, NEW c \in Clients, Inst!Hello(k, c)
      PROVE  ProcInv'
  BY <1>2, ProcsStay DEF Inst!Hello
<1>3. ASSUME NEW k \in Sockets, Inst!Close(k)
      PROVE  ProcInv'
  BY <1>3, ProcsStay DEF Inst!Close
<1> QED
  BY <1>1, <1>2, <1>3, SpawnShellKeeps, SpawnNewKeeps, SelfHealKeeps, CreateKeeps, RestartShellKeeps,
     DeleteKeeps, SettleKeeps, StartThrowsKeeps, ExitShellKeeps DEF Inst!ShellsNext

-----------------------------------------------------------------------------
(* The sessions.  While a start is pending its socket is open; and a       *)
(* browser that is not connected, nor away, has asked for nothing yet.     *)
ClientState == [sock : Sockets \cup {NoSocket}, shells : SUBSET Insts, away : BOOLEAN]

ClientTypes ==
  /\ client \in [Sockets -> Clients \cup {"new", "closed"}]
  /\ session \in [Clients -> ClientState] /\ mine \in [Clients -> SUBSET Insts]

BatchIsOpen == pending # {} => batch \in Sockets /\ Inst!Open(batch)

StrangersHaveNone ==
  \A c \in Clients \ shared : session[c].away \/ (\E k \in Sockets : client[k] = c) \/ mine[c] = {}

RecoverInv == ClientTypes /\ BatchIsOpen /\ StrangersHaveNone /\ Inst!SessionsRecover

LEMMA RecoverStarts == Inst!ShellsInit => RecoverInv
<1> SUFFICES ASSUME Inst!ShellsInit
             PROVE  RecoverInv
  OBVIOUS
<1>1. /\ client = [k \in Sockets |-> "new"] /\ session = [c \in Clients |-> Inst!NoSession]
      /\ mine = [c \in Clients |-> {}] /\ pending = {}
  BY DEF Inst!ShellsInit
<1>2. Inst!NoSession \in ClientState
  BY DEF Inst!NoSession, ClientState
<1> QED
  BY <1>1, <1>2, RelayBounds
     DEF RecoverInv, ClientTypes, BatchIsOpen, StrangersHaveNone, Inst!SessionsRecover

LEMMA RecoverStays ==
  ASSUME RecoverInv, UNCHANGED <<client, session, mine, shared>>, BatchIsOpen'
  PROVE  RecoverInv'
BY DEF RecoverInv, ClientTypes, StrangersHaveNone, Inst!SessionsRecover

\* The session with more shells in it
LEMMA RememberKeeps ==
  ASSUME RecoverInv, NEW k \in Sockets, Inst!Open(k), NEW i \in Insts, Inst!Remember(k, i),
         UNCHANGED <<client, shared>>, BatchIsOpen'
  PROVE  RecoverInv'
<1> ClientTypes /\ StrangersHaveNone /\ Inst!SessionsRecover
  BY DEF RecoverInv
<1> PICK c \in Clients : c = client[k]
  BY DEF Inst!Open
<1>1. /\ session' = [session EXCEPT ![c].shells = @ \cup {i}] /\ mine' = [mine EXCEPT ![c] = @ \cup {i}]
  BY DEF Inst!Remember
<1>2. PICK w \in ClientState : w = session[c]
  BY DEF ClientTypes
<1>3. PICK v : v = [w EXCEPT !.shells = w.shells \cup {i}]
  OBVIOUS
<1>4. v \in ClientState /\ v.shells = w.shells \cup {i} /\ v.sock = w.sock /\ v.away = w.away
  BY <1>3 DEF ClientState
<1>5. session' = [session EXCEPT ![c] = v]
  BY <1>1, <1>2, <1>3 DEF ClientTypes
<1>6. session' \in [Clients -> ClientState] /\ session'[c] = v /\ \A d \in Clients : d # c => session'[d] = session[d]
  BY <1>4, <1>5 DEF ClientTypes
<1>7. /\ mine' \in [Clients -> SUBSET Insts] /\ mine'[c] = mine[c] \cup {i}
      /\ \A d \in Clients : d # c => mine'[d] = mine[d]
  BY <1>1 DEF ClientTypes
<1>8. ClientTypes'
  BY <1>6, <1>7 DEF ClientTypes
<1>9. StrangersHaveNone'
  <2> SUFFICES ASSUME NEW d \in Clients \ shared
               PROVE  session'[d].away \/ (\E j \in Sockets : client[j] = d) \/ mine'[d] = {}
    BY DEF StrangersHaveNone
  <2>1. CASE d = c
    BY <2>1
  <2>2. CASE d # c
    BY <1>6, <1>7, <2>2 DEF StrangersHaveNone
  <2> QED
    BY <2>1, <2>2
<1>10. Inst!SessionsRecover'
  <2> SUFFICES ASSUME NEW d \in Clients \ shared
               PROVE  /\ mine'[d] \subseteq session'[d].shells
                      /\ \A j \in Sockets : client[j] = d => session'[d].sock = j /\ ~session'[d].away
    BY DEF Inst!SessionsRecover
  <2>1. CASE d = c
    BY <1>2, <1>4, <1>6, <1>7, <2>1 DEF Inst!SessionsRecover
  <2>2. CASE d # c
    BY <1>6, <1>7, <2>2 DEF Inst!SessionsRecover
  <2> QED
    BY <2>1, <2>2
<1> QED
  BY <1>8, <1>9, <1>10 DEF RecoverInv

LEMMA StartBatch ==
  ASSUME NEW k \in Sockets, Inst!Heard(k), NEW i, NEW via, Inst!Start(k, i, via), UNCHANGED client
  PROVE  BatchIsOpen'
BY DEF Inst!Start, Inst!Heard, BatchIsOpen, Inst!Open

LEMMA HelloKeeps ==
  ASSUME RecoverInv, NEW k \in Sockets, NEW c \in Clients, Inst!Hello(k, c)
  PROVE  RecoverInv'
<1> ClientTypes /\ StrangersHaveNone /\ Inst!SessionsRecover
  BY DEF RecoverInv
<1>1. /\ client[k] = "new" /\ pending = {} /\ client' = [client EXCEPT ![k] = c]
      /\ UNCHANGED <<mine, pending>>
  BY DEF Inst!Hello
<1>2. /\ shared \subseteq shared'
      /\ (\E j \in Sockets : client[j] = c) => c \in shared'
  BY DEF Inst!Hello
<1>3. /\ client' \in [Sockets -> Clients \cup {"new", "closed"}] /\ client'[k] = c
      /\ \A j \in Sockets : j # k => client'[j] = client[j]
  BY <1>1 DEF ClientTypes
<1>4. PICK w \in ClientState : w = session[c]
  BY DEF ClientTypes
<1>5. PICK v \in ClientState :
         /\ session' = [session EXCEPT ![c] = v] /\ v.sock = k /\ ~v.away
         /\ w.away => v.shells = w.shells
  <2>1. CASE session[c].away
    <3>1. session' = [session EXCEPT ![c].sock = k, ![c].away = FALSE]
      BY <2>1 DEF Inst!Hello
    <3>2. PICK v : v = [w EXCEPT !.sock = k, !.away = FALSE]
      OBVIOUS
    <3>3. v \in ClientState /\ v.sock = k /\ v.away = FALSE /\ v.shells = w.shells
      BY <3>2 DEF ClientState
    <3>4. session' = [session EXCEPT ![c] = v]
      BY <1>4, <3>1, <3>2 DEF ClientTypes
    <3> QED
      BY <3>3, <3>4
  <2>2. CASE ~session[c].away
    <3>1. session' = [session EXCEPT ![c] = [Inst!NoSession EXCEPT !.sock = k]]
      BY <2>2 DEF Inst!Hello
    <3>2. PICK u : u = Inst!NoSession
      OBVIOUS
    <3>3. u \in ClientState /\ u.away = FALSE
      BY <3>2 DEF Inst!NoSession, ClientState
    <3>4. PICK v : v = [u EXCEPT !.sock = k]
      OBVIOUS
    <3>5. v \in ClientState /\ v.sock = k /\ ~v.away
      BY <3>3, <3>4 DEF ClientState
    <3> QED
      BY <1>4, <2>2, <3>1, <3>2, <3>4, <3>5
  <2> QED
    BY <2>1, <2>2
<1>6. session' \in [Clients -> ClientState] /\ session'[c] = v /\ \A d \in Clients : d # c => session'[d] = session[d]
  BY <1>5 DEF ClientTypes
<1>7. ClientTypes'
  BY <1>1, <1>3, <1>6 DEF ClientTypes
<1>8. BatchIsOpen'
  BY <1>1 DEF BatchIsOpen
<1>9. k \in Sockets /\ client[k] \notin Clients
  BY <1>1, RelayBounds
<1>10. StrangersHaveNone'
  <2> SUFFICES ASSUME NEW d \in Clients \ shared'
               PROVE  session'[d].away \/ (\E j \in Sockets : client'[j] = d) \/ mine'[d] = {}
    BY DEF StrangersHaveNone
  <2>1. CASE d = c
    BY <1>3, <2>1
  <2>2. CASE d # c
    <3>1. session[d].away \/ (\E j \in Sockets : client[j] = d) \/ mine[d] = {}
      BY <1>2 DEF StrangersHaveNone
    <3>2. \A j \in Sockets : client[j] = d => client'[j] = d
      BY <1>3, <1>9
    <3> QED
      BY <1>1, <1>6, <2>2, <3>1, <3>2
  <2> QED
    BY <2>1, <2>2
<1>11. Inst!SessionsRecover'
  <2> SUFFICES ASSUME NEW d \in Clients \ shared'
               PROVE  /\ mine'[d] \subseteq session'[d].shells
                      /\ \A j \in Sockets : client'[j] = d => session'[d].sock = j /\ ~session'[d].away
    BY DEF Inst!SessionsRecover
  <2>1. CASE d = c
    <3>1. ~\E j \in Sockets : client[j] = c
      BY <1>2, <2>1
    <3>2. \A j \in Sockets : client'[j] = c => j = k
      BY <1>3, <3>1
    <3>3. mine[c] \subseteq v.shells
      BY <1>2, <1>4, <1>5, <2>1, <3>1 DEF Inst!SessionsRecover, StrangersHaveNone
    <3> QED
      BY <1>1, <1>5, <1>6, <2>1, <3>2, <3>3
  <2>2. CASE d # c
    BY <1>1, <1>2, <1>3, <1>6, <2>2 DEF Inst!SessionsRecover
  <2> QED
    BY <2>1, <2>2
<1> QED
  BY <1>7, <1>8, <1>10, <1>11 DEF RecoverInv

LEMMA CloseKeeps ==
  ASSUME RecoverInv, NEW k \in Sockets, Inst!Close(k)
  PROVE  RecoverInv'
<1> ClientTypes /\ StrangersHaveNone /\ Inst!SessionsRecover
  BY DEF RecoverInv
<1>1. /\ client[k] \in Clients /\ pending = {} /\ client' = [client EXCEPT ![k] = "closed"]
      /\ UNCHANGED <<mine, pending, shared>>
  BY DEF Inst!Close, Inst!Open
<1> PICK c \in Clients : c = client[k]
  BY <1>1
<1>2. /\ client' \in [Sockets -> Clients \cup {"new", "closed"}] /\ client'[k] = "closed"
      /\ \A j \in Sockets : j # k => client'[j] = client[j]
  BY <1>1 DEF ClientTypes
<1>3. "closed" \notin Clients
  BY RelayBounds
<1>4. PICK w \in ClientState : w = session[c]
  BY DEF ClientTypes
<1>5. PICK v : v = [w EXCEPT !.away = TRUE]
  OBVIOUS
<1>6. v \in ClientState /\ v.sock = w.sock /\ v.shells = w.shells /\ v.away = TRUE
  BY <1>5 DEF ClientState
<1>7. IF session[c].sock = k THEN session' = [session EXCEPT ![c] = v] ELSE session' = session
  BY <1>4, <1>5 DEF Inst!Close, Inst!Away
<1>8. /\ session' \in [Clients -> ClientState] /\ \A d \in Clients : d # c => session'[d] = session[d]
      /\ \/ w.sock = k /\ session'[c] = v
         \/ w.sock # k /\ session'[c] = w
  BY <1>4, <1>6, <1>7 DEF ClientTypes
<1>9. ClientTypes'
  BY <1>1, <1>2, <1>8 DEF ClientTypes
<1>10. BatchIsOpen'
  BY <1>1 DEF BatchIsOpen
<1>11. \A j \in Sockets, d \in Clients : client'[j] = d => j # k /\ client[j] = d
  BY <1>2, <1>3
<1>12. c \notin shared => w.sock = k /\ ~w.away /\ \A j \in Sockets : client'[j] # c
  BY <1>4, <1>11 DEF Inst!SessionsRecover
<1>13. StrangersHaveNone'
  <2> SUFFICES ASSUME NEW d \in Clients \ shared
               PROVE  session'[d].away \/ (\E j \in Sockets : client'[j] = d) \/ mine[d] = {}
    BY <1>1 DEF StrangersHaveNone
  <2>1. CASE d = c
    BY <1>6, <1>8, <1>12, <2>1
  <2>2. CASE d # c
    BY <1>2, <1>8, <2>2 DEF StrangersHaveNone
  <2> QED
    BY <2>1, <2>2
<1>14. Inst!SessionsRecover'
  <2> SUFFICES ASSUME NEW d \in Clients \ shared
               PROVE  /\ mine[d] \subseteq session'[d].shells
                      /\ \A j \in Sockets : client'[j] = d => session'[d].sock = j /\ ~session'[d].away
    BY <1>1 DEF Inst!SessionsRecover
  <2>1. CASE d = c
    BY <1>4, <1>6, <1>8, <1>12, <2>1 DEF Inst!SessionsRecover
  <2>2. CASE d # c
    BY <1>8, <1>11, <2>2 DEF Inst!SessionsRecover
  <2> QED
    BY <2>1, <2>2
<1> QED
  BY <1>9, <1>10, <1>13, <1>14 DEF RecoverInv

LEMMA SettleRecovers ==
  ASSUME ProcInv, RecoverInv, NEW p \in Inst!Procs, Inst!Settle(p)
  PROVE  RecoverInv'
<1>1. p \in pending /\ UNCHANGED <<client, shared>> /\ Inst!Handed
  BY DEF Inst!Settle
<1>2. proc[p].of \in Insts
  BY <1>1 DEF ProcInv, PendingStarts
<1>3. batch \in Sockets /\ Inst!Open(batch)
  BY <1>1 DEF RecoverInv, BatchIsOpen
<1>4. BatchIsOpen'
  BY <1>1, <1>3 DEF Inst!Handed, BatchIsOpen, Inst!Open
<1>5. CASE proc[p].via = "spawn"
  <2>1. Inst!Remember(batch, proc[p].of)
    BY <1>5 DEF Inst!Settle
  <2> QED
    BY <1>1, <1>2, <1>3, <1>4, <2>1, RememberKeeps
<1>6. CASE proc[p].via # "spawn"
  BY <1>1, <1>4, <1>6, RecoverStays DEF Inst!Settle
<1> QED
  BY <1>5, <1>6

LEMMA SpawnShellRecovers ==
  ASSUME RecoverInv, NEW k \in Sockets, NEW i \in Insts, NEW viaSurface \in BOOLEAN, Inst!SpawnShell(k, i, viaSurface)
  PROVE  RecoverInv'
<1>1. Inst!Heard(k) /\ Inst!Open(k) /\ UNCHANGED <<client, shared>>
  BY DEF Inst!SpawnShell, Inst!Heard
<1>2. BatchIsOpen'
  <2>1. CASE Inst!Attached(i)
    <3>1. UNCHANGED <<pending, batch>>
      BY <2>1 DEF Inst!SpawnShell, Inst!NoStart
    <3> QED
      BY <1>1, <3>1 DEF RecoverInv, BatchIsOpen, Inst!Open
  <2>2. CASE ~Inst!Attached(i)
    <3>1. Inst!Start(k, i, "surface") \/ Inst!Start(k, i, "spawn")
      BY <2>2 DEF Inst!SpawnShell
    <3> QED
      BY <1>1, <3>1, StartBatch
  <2> QED
    BY <2>1, <2>2
<1>3. Inst!Remember(k, i) \/ UNCHANGED <<session, mine>>
  BY DEF Inst!SpawnShell
<1> QED
  BY <1>1, <1>2, <1>3, RememberKeeps, RecoverStays

LEMMA RestRecovers ==
  ASSUME RecoverInv, NEW k \in Sockets, NEW i \in Insts,
         Inst!SpawnNew(k, i) \/ Inst!SelfHeal(k, i) \/ Inst!Restart(k, i) \/ Inst!Lock(k, i) \/ Inst!Unlock(k, i)
  PROVE  RecoverInv'
<1>1. Inst!Heard(k) /\ Inst!Open(k) /\ UNCHANGED <<client, session, mine, shared>>
  BY DEF Inst!SpawnNew, Inst!SelfHeal, Inst!Restart, Inst!Lock, Inst!Unlock, Inst!Heard
<1>2. batch' = k \/ UNCHANGED <<pending, batch>>
  BY DEF Inst!SpawnNew, Inst!SelfHeal, Inst!Restart, Inst!Lock, Inst!Unlock, Inst!Start
<1>3. BatchIsOpen'
  BY <1>1, <1>2 DEF RecoverInv, BatchIsOpen, Inst!Open
<1> QED
  BY <1>1, <1>3, RecoverStays

LEMMA AloneRecovers ==
  ASSUME RecoverInv, NEW i \in Insts, Inst!Create(i) \/ Inst!Delete(i)
  PROVE  RecoverInv'
<1>1. UNCHANGED <<client, session, mine, shared, pending, batch>>
  BY DEF Inst!Create, Inst!Delete
<1>2. BatchIsOpen'
  BY <1>1 DEF RecoverInv, BatchIsOpen, Inst!Open
<1> QED
  BY <1>1, <1>2, RecoverStays

LEMMA EndsRecovers ==
  ASSUME RecoverInv, NEW p \in Inst!Procs, Inst!StartThrows(p) \/ Inst!Exit(p)
  PROVE  RecoverInv'
<1>1. UNCHANGED <<client, session, mine, shared>>
  BY DEF Inst!StartThrows, Inst!Exit
<1>2. BatchIsOpen'
  <2>1. CASE Inst!StartThrows(p)
    <3>1. p \in pending /\ batch' = (IF pending' = {} THEN NoSocket ELSE batch)
      BY <2>1 DEF Inst!StartThrows, Inst!Handed
    <3> QED
      BY <1>1, <3>1 DEF RecoverInv, BatchIsOpen, Inst!Open
  <2>2. CASE Inst!Exit(p)
    BY <1>1, <2>2 DEF Inst!Exit, RecoverInv, BatchIsOpen, Inst!Open
  <2> QED
    BY <2>1, <2>2
<1> QED
  BY <1>1, <1>2, RecoverStays

LEMMA ShellStepRecovers ==
  ASSUME ProcInv, RecoverInv, Inst!ShellsNext
  PROVE  RecoverInv'
BY SpawnShellRecovers, RestRecovers, HelloKeeps, CloseKeeps, AloneRecovers, SettleRecovers, EndsRecovers
   DEF Inst!ShellsNext

LEMMA ShellsStay ==
  ASSUME ProcInv, RecoverInv, UNCHANGED shellVars
  PROVE  ProcInv' /\ RecoverInv'
<1>1. UNCHANGED <<inst, proc, pending, restarted, overlapped, batch, client, session, mine, shared>>
  BY DEF shellVars
<1>2. ProcInv'
  BY <1>1 DEF ProcInv, ProcTypes, PendingStarts, HandlesLive, OneStarts, StoppedIsGone, Simple,
              Inst!ShellsReachable, Inst!Running, Inst!Exists
<1>3. BatchIsOpen'
  BY <1>1 DEF RecoverInv, BatchIsOpen, Inst!Open
<1> QED
  BY <1>1, <1>2, <1>3, RecoverStays

\* A process that nobody stopped is the handle of its instance, unless that was
\* restarted or started twice at a time; and a browser that was never connected
\* twice at a time is told, when it comes back, of the shells it asked for: for
\* any number of processes, sockets, browsers and instances (relay-server.ts:1128,
\* 2557).
THEOREM ShellsKeptCorrect == Spec => [](subject = "shells" => ShellsFound)
<1>1. Init => ProcInv /\ RecoverInv
  BY ProcsStart, RecoverStarts DEF Init
<1>2. ProcInv /\ RecoverInv /\ [Next]_allVars => ProcInv' /\ RecoverInv'
  <2> SUFFICES ASSUME ProcInv, RecoverInv, [Next]_allVars PROVE ProcInv' /\ RecoverInv'
    OBVIOUS
  <2>1. CASE ShellsStep
    BY <2>1, ShellStepKeeps, ShellStepRecovers DEF ShellsStep
  <2>2. CASE UNCHANGED shellVars
    BY <2>2, ShellsStay
  <2>3. Next => ShellsStep \/ UNCHANGED shellVars
    BY DEF Next, StateStep, SurfacesStep, SessionsStep, ExtensionsStep, PagesStep, OutputStep,
           NodesStep
  <2> QED
    BY <2>1, <2>2, <2>3 DEF allVars
<1>3. ProcInv /\ RecoverInv => (subject = "shells" => ShellsFound)
  BY DEF ProcInv, RecoverInv, ShellsFound
<1> QED
  BY <1>1, <1>2, <1>3, PTL DEF Spec

-----------------------------------------------------------------------------
(***************************************************************************)
(* Shared surfaces.  A surface of the hub is on its way to a relay it is   *)
(* for, or is there, or its close is on the way up; and unless the leaf    *)
(* has sent something of it up, the last that is on the way down to it is  *)
(* what the hub has.  A surface that the hub has no more ends with a close *)
(* wherever it is left; one that the hub has not yet has its publish first *)
(* of what its leaf has sent.                                              *)
(***************************************************************************)
\* The messages about surface d in queue q
About(q, d) == {q[i] : i \in {j \in 1..Len(q) : q[j].id = d}}

\* The last of them is m.
EndsIn(q, d, m) ==
  \E i \in 1..Len(q) : q[i] = m /\ m.id = d /\ \A j \in 1..Len(q) : q[j].id = d => j <= i

\* The first of them, and no other, is a publish.
ComesFirst(q, d) ==
  \E i \in 1..Len(q) :
    /\ q[i].id = d /\ q[i].type = "publish"
    /\ \A j \in 1..Len(q) : q[j].id = d /\ j # i => i < j /\ q[j].type # "publish"

LEMMA NothingAbout ==
  ASSUME NEW d
  PROVE  About(<<>>, d) = {} /\ ~ComesFirst(<<>>, d) /\ \A m : ~EndsIn(<<>>, d, m)
<1>1. Len(<<>>) = 0 /\ 1..0 = {}
  OBVIOUS
<1> QED
  BY <1>1 DEF About, EndsIn, ComesFirst

LEMMA AddedIs ==
  ASSUME NEW S, NEW q \in Seq(S), NEW m \in S
  PROVE  /\ Append(q, m) \in Seq(S) /\ Len(Append(q, m)) = Len(q) + 1 /\ Len(q) \in Nat
         /\ Append(q, m)[Len(q) + 1] = m /\ \A j \in 1..Len(q) : Append(q, m)[j] = q[j]
         /\ \A j \in 1..(Len(q) + 1) : j \in 1..Len(q) \/ j = Len(q) + 1
         /\ Len(q) + 1 \in 1..(Len(q) + 1)
         /\ \A j \in 1..Len(q) : j \in 1..(Len(q) + 1) /\ j < Len(q) + 1 /\ j # Len(q) + 1
OBVIOUS

LEMMA TakenIs ==
  ASSUME NEW S, NEW q \in Seq(S), q # <<>>
  PROVE  /\ Head(q) = q[1] /\ Head(q) \in S /\ Tail(q) \in Seq(S) /\ Len(q) \in Nat \ {0}
         /\ Len(Tail(q)) = Len(q) - 1 /\ 1 \in 1..Len(q)
         /\ \A j \in 1..(Len(q) - 1) : j + 1 \in 1..Len(q) /\ j + 1 # 1 /\ Tail(q)[j] = q[j + 1]
         /\ \A j \in 1..Len(q) : j = 1 \/ (j - 1 \in 1..(Len(q) - 1) /\ (j - 1) + 1 = j)
<1>1. Len(q) \in Nat \ {0}
  BY EmptySeq
<1>2. Head(q) \in S /\ Tail(q) \in Seq(S) /\ Len(Tail(q)) = Len(q) - 1 /\ Head(q) = q[1]
  BY HeadTailProperties, <1>1
<1>3. \A j \in 1..Len(Tail(q)) : Tail(q)[j] = q[j + 1]
  BY HeadTailProperties
<1>4. \A j \in 1..(Len(q) - 1) : j + 1 \in 1..Len(q) /\ j + 1 # 1
  BY <1>1
<1>5. \A j \in 1..Len(q) : j = 1 \/ (j - 1 \in 1..(Len(q) - 1) /\ (j - 1) + 1 = j)
  BY <1>1
<1>6. 1 \in 1..Len(q)
  BY <1>1
<1> QED
  BY <1>1, <1>2, <1>3, <1>4, <1>5, <1>6

\* What a message that is added, or taken off, changes for another surface
Alike(p, q, d) ==
  /\ About(p, d) = About(q, d) /\ (ComesFirst(p, d) <=> ComesFirst(q, d))
  /\ \A m : EndsIn(p, d, m) <=> EndsIn(q, d, m)

LEMMA AddedAbout ==
  ASSUME NEW S, NEW q \in Seq(S), NEW m \in S, NEW d
  PROVE  /\ m.id # d => About(Append(q, m), d) = About(q, d)
         /\ m.id = d => About(Append(q, m), d) = About(q, d) \cup {m}
<1> PICK p : p = Append(q, m)
  OBVIOUS
<1> PICK n \in Nat : n = Len(q)
  BY AddedIs
<1>1. /\ Len(p) = n + 1 /\ p[n + 1] = m /\ \A j \in 1..n : p[j] = q[j]
      /\ \A j \in 1..(n + 1) : j \in 1..n \/ j = n + 1
      /\ n + 1 \in 1..(n + 1) /\ \A j \in 1..n : j \in 1..(n + 1) /\ j # n + 1
  BY AddedIs
<1>2. ASSUME NEW x PROVE x \in About(q, d) <=> \E j \in 1..n : q[j] = x /\ x.id = d
  BY DEF About
<1>3. ASSUME NEW x PROVE x \in About(p, d) <=> \E j \in 1..(n + 1) : p[j] = x /\ x.id = d
  BY <1>1 DEF About
<1>4. ASSUME NEW x PROVE x \in About(p, d) <=> x \in About(q, d) \/ (x = m /\ m.id = d)
  <2>1. ASSUME NEW j \in 1..n, q[j] = x, x.id = d PROVE x \in About(p, d)
    BY <1>1, <1>3, <2>1
  <2>2. ASSUME x = m, m.id = d PROVE x \in About(p, d)
    BY <1>1, <1>3, <2>2
  <2>3. ASSUME NEW j \in 1..(n + 1), p[j] = x, x.id = d
        PROVE  x \in About(q, d) \/ (x = m /\ m.id = d)
    BY <1>1, <1>2, <2>3
  <2> QED
    BY <1>2, <1>3, <2>1, <2>2, <2>3
<1> QED
  BY <1>4

LEMMA AddedEnds ==
  ASSUME NEW S, NEW q \in Seq(S), NEW m \in S, NEW d, NEW x
  PROVE  /\ m.id # d => (EndsIn(Append(q, m), d, x) <=> EndsIn(q, d, x))
         /\ m.id = d => (EndsIn(Append(q, m), d, x) <=> x = m)
<1> PICK p : p = Append(q, m)
  OBVIOUS
<1> PICK n \in Nat : n = Len(q)
  BY AddedIs
<1>1. /\ Len(p) = n + 1 /\ p[n + 1] = m /\ \A j \in 1..n : p[j] = q[j]
      /\ \A j \in 1..(n + 1) : j \in 1..n \/ j = n + 1
      /\ n + 1 \in 1..(n + 1) /\ \A j \in 1..n : j \in 1..(n + 1) /\ j < n + 1 /\ j # n + 1
  BY AddedIs
<1>2. ASSUME m.id # d, EndsIn(p, d, x) PROVE EndsIn(q, d, x)
  <2>1. PICK i \in 1..(n + 1) : p[i] = x /\ x.id = d /\ \A j \in 1..(n + 1) : p[j].id = d => j <= i
    BY <1>1, <1>2 DEF EndsIn
  <2>2. i \in 1..n
    BY <1>1, <1>2, <2>1
  <2> QED
    BY <1>1, <2>1, <2>2 DEF EndsIn
<1>3. ASSUME m.id # d, EndsIn(q, d, x) PROVE EndsIn(p, d, x)
  <2>1. PICK i \in 1..n : q[i] = x /\ x.id = d /\ \A j \in 1..n : q[j].id = d => j <= i
    BY <1>3 DEF EndsIn
  <2>2. \A j \in 1..(n + 1) : p[j].id = d => j <= i
    BY <1>1, <1>3, <2>1
  <2> QED
    BY <1>1, <2>1, <2>2 DEF EndsIn
<1>4. ASSUME m.id = d, EndsIn(p, d, x) PROVE x = m
  <2>1. PICK i \in 1..(n + 1) : p[i] = x /\ x.id = d /\ \A j \in 1..(n + 1) : p[j].id = d => j <= i
    BY <1>1, <1>4 DEF EndsIn
  <2>2. n + 1 <= i
    BY <1>1, <1>4, <2>1
  <2>3. i = n + 1
    BY <2>1, <2>2
  <2> QED
    BY <1>1, <2>1, <2>3
<1>5. ASSUME m.id = d, x = m PROVE EndsIn(p, d, x)
  <2>1. \A j \in 1..(n + 1) : j <= n + 1
    OBVIOUS
  <2> QED
    BY <1>1, <1>5, <2>1 DEF EndsIn
<1> QED
  BY <1>2, <1>3, <1>4, <1>5

LEMMA AddedFirst ==
  ASSUME NEW S, NEW q \in Seq(S), NEW m \in S, NEW d
  PROVE  /\ m.id # d => (ComesFirst(Append(q, m), d) <=> ComesFirst(q, d))
         /\ m.id = d /\ m.type # "publish" /\ ComesFirst(q, d) => ComesFirst(Append(q, m), d)
         /\ m.id = d /\ m.type = "publish" /\ About(q, d) = {} => ComesFirst(Append(q, m), d)
<1> PICK p : p = Append(q, m)
  OBVIOUS
<1> PICK n \in Nat : n = Len(q)
  BY AddedIs
<1>1. /\ Len(p) = n + 1 /\ p[n + 1] = m /\ \A j \in 1..n : p[j] = q[j]
      /\ \A j \in 1..(n + 1) : j \in 1..n \/ j = n + 1
      /\ n + 1 \in 1..(n + 1) /\ \A j \in 1..n : j \in 1..(n + 1) /\ j < n + 1 /\ j # n + 1
  BY AddedIs
<1>2. ASSUME m.id # d, ComesFirst(p, d) PROVE ComesFirst(q, d)
  <2>1. PICK i \in 1..(n + 1) :
           /\ p[i].id = d /\ p[i].type = "publish"
           /\ \A j \in 1..(n + 1) : p[j].id = d /\ j # i => i < j /\ p[j].type # "publish"
    BY <1>1, <1>2 DEF ComesFirst
  <2>2. i \in 1..n
    BY <1>1, <1>2, <2>1
  <2>3. \A j \in 1..n : q[j].id = d /\ j # i => i < j /\ q[j].type # "publish"
    BY <1>1, <2>1
  <2> QED
    BY <1>1, <2>1, <2>2, <2>3 DEF ComesFirst
<1>3. ASSUME m.id = d => m.type # "publish", ComesFirst(q, d) PROVE ComesFirst(p, d)
  <2>1. PICK i \in 1..n :
           /\ q[i].id = d /\ q[i].type = "publish"
           /\ \A j \in 1..n : q[j].id = d /\ j # i => i < j /\ q[j].type # "publish"
    BY <1>3 DEF ComesFirst
  <2>2. \A j \in 1..(n + 1) : p[j].id = d /\ j # i => i < j /\ p[j].type # "publish"
    BY <1>1, <1>3, <2>1
  <2> QED
    BY <1>1, <2>1, <2>2 DEF ComesFirst
<1>4. ASSUME m.id = d, m.type = "publish", About(q, d) = {} PROVE ComesFirst(p, d)
  <2>1. \A j \in 1..n : q[j].id # d
    BY <1>4 DEF About
  <2>2. \A j \in 1..(n + 1) : p[j].id = d /\ j # n + 1 => FALSE
    BY <1>1, <2>1
  <2> QED
    BY <1>1, <1>4, <2>2 DEF ComesFirst
<1> QED
  BY <1>2, <1>3, <1>4

LEMMA TakenAbout ==
  ASSUME NEW S, NEW q \in Seq(S), q # <<>>, NEW d
  PROVE  /\ Head(q).id # d => About(Tail(q), d) = About(q, d)
         /\ Head(q).id = d => About(q, d) = About(Tail(q), d) \cup {Head(q)}
<1> PICK p : p = Tail(q)
  OBVIOUS
<1> PICK n \in Nat \ {0} : n = Len(q)
  BY TakenIs
<1>1. /\ Head(q) = q[1] /\ Len(p) = n - 1 /\ 1 \in 1..n
      /\ \A j \in 1..(n - 1) : j + 1 \in 1..n /\ j + 1 # 1 /\ p[j] = q[j + 1]
      /\ \A j \in 1..n : j = 1 \/ (j - 1 \in 1..(n - 1) /\ (j - 1) + 1 = j)
  BY TakenIs
<1>2. ASSUME NEW x PROVE x \in About(q, d) <=> \E j \in 1..n : q[j] = x /\ x.id = d
  BY DEF About
<1>3. ASSUME NEW x PROVE x \in About(p, d) <=> \E j \in 1..(n - 1) : p[j] = x /\ x.id = d
  BY <1>1 DEF About
<1>4. ASSUME NEW x PROVE x \in About(q, d) <=> x \in About(p, d) \/ (x = Head(q) /\ x.id = d)
  <2>1. ASSUME NEW j \in 1..(n - 1), p[j] = x, x.id = d PROVE x \in About(q, d)
    BY <1>1, <1>2, <2>1
  <2>2. ASSUME x = Head(q), x.id = d PROVE x \in About(q, d)
    BY <1>1, <1>2, <2>2
  <2>3. ASSUME NEW j \in 1..n, q[j] = x, x.id = d
        PROVE  x \in About(p, d) \/ (x = Head(q) /\ x.id = d)
    <3>1. CASE j = 1
      BY <1>1, <2>3, <3>1
    <3>2. CASE j - 1 \in 1..(n - 1) /\ (j - 1) + 1 = j
      <4>1. p[j - 1] = q[j]
        BY <1>1, <3>2
      <4> QED
        BY <1>3, <2>3, <3>2, <4>1
    <3> QED
      BY <1>1, <3>1, <3>2
  <2> QED
    BY <1>2, <1>3, <2>1, <2>2, <2>3
<1> QED
  BY <1>4

LEMMA TakenEnds ==
  ASSUME NEW S, NEW q \in Seq(S), q # <<>>, NEW d, NEW x
  PROVE  /\ Head(q).id # d => (EndsIn(Tail(q), d, x) <=> EndsIn(q, d, x))
         /\ EndsIn(q, d, x) => EndsIn(Tail(q), d, x) \/ (About(Tail(q), d) = {} /\ x = Head(q))
<1> PICK p : p = Tail(q)
  OBVIOUS
<1> PICK n \in Nat \ {0} : n = Len(q)
  BY TakenIs
<1>1. /\ Head(q) = q[1] /\ Len(p) = n - 1 /\ 1 \in 1..n
      /\ \A j \in 1..(n - 1) : j + 1 \in 1..n /\ j + 1 # 1 /\ p[j] = q[j + 1]
      /\ \A j \in 1..n : j = 1 \/ (j - 1 \in 1..(n - 1) /\ (j - 1) + 1 = j)
  BY TakenIs
<1>2. ASSUME NEW i \in 1..n, i # 1, q[i] = x, x.id = d, \A j \in 1..n : q[j].id = d => j <= i
      PROVE  EndsIn(p, d, x)
  <2>1. i - 1 \in 1..(n - 1) /\ p[i - 1] = x
    BY <1>1, <1>2
  <2>2. ASSUME NEW j \in 1..(n - 1), p[j].id = d PROVE j <= i - 1
    <3>1. j + 1 <= i
      BY <1>1, <1>2, <2>2
    <3> QED
      BY <3>1
  <2> QED
    BY <1>1, <1>2, <2>1, <2>2 DEF EndsIn
<1>3. ASSUME EndsIn(q, d, x)
      PROVE  EndsIn(p, d, x) \/ (About(p, d) = {} /\ x = Head(q) /\ Head(q).id = d)
  <2>1. PICK i \in 1..n : q[i] = x /\ x.id = d /\ \A j \in 1..n : q[j].id = d => j <= i
    BY <1>3 DEF EndsIn
  <2>2. CASE i = 1
    <3>1. ASSUME NEW j \in 1..(n - 1), p[j].id = d PROVE FALSE
      <4>1. j + 1 <= 1
        BY <1>1, <2>1, <2>2, <3>1
      <4> QED
        BY <4>1
    <3>2. About(p, d) = {}
      BY <1>1, <3>1 DEF About
    <3> QED
      BY <1>1, <2>1, <2>2, <3>2
  <2> QED
    BY <1>2, <2>1, <2>2
<1>4. ASSUME EndsIn(p, d, x), Head(q).id # d PROVE EndsIn(q, d, x)
  <2>1. PICK i \in 1..(n - 1) : p[i] = x /\ x.id = d /\ \A j \in 1..(n - 1) : p[j].id = d => j <= i
    BY <1>1, <1>4 DEF EndsIn
  <2>2. ASSUME NEW j \in 1..n, q[j].id = d PROVE j <= i + 1
    <3>1. j # 1
      BY <1>1, <1>4, <2>2
    <3>2. j - 1 \in 1..(n - 1) /\ (j - 1) + 1 = j
      BY <1>1, <3>1
    <3>3. p[j - 1] = q[j]
      BY <1>1, <3>2
    <3>4. j - 1 <= i
      BY <2>1, <2>2, <3>2, <3>3
    <3> QED
      BY <3>4
  <2>3. i + 1 \in 1..n /\ q[i + 1] = x
    BY <1>1, <2>1
  <2> QED
    BY <2>1, <2>2, <2>3 DEF EndsIn
<1> QED
  BY <1>3, <1>4

LEMMA TakenFirst ==
  ASSUME NEW S, NEW q \in Seq(S), q # <<>>, NEW d
  PROVE  /\ Head(q).id # d => (ComesFirst(Tail(q), d) <=> ComesFirst(q, d))
         /\ Head(q).id = d /\ ComesFirst(q, d) =>
              Head(q).type = "publish" /\ \A m \in About(Tail(q), d) : m.type # "publish"
<1> PICK p : p = Tail(q)
  OBVIOUS
<1> PICK n \in Nat \ {0} : n = Len(q)
  BY TakenIs
<1>1. /\ Head(q) = q[1] /\ Len(p) = n - 1 /\ 1 \in 1..n
      /\ \A j \in 1..(n - 1) : j + 1 \in 1..n /\ j + 1 # 1 /\ p[j] = q[j + 1]
      /\ \A j \in 1..n : j = 1 \/ (j - 1 \in 1..(n - 1) /\ (j - 1) + 1 = j)
  BY TakenIs
<1>2. ASSUME Head(q).id # d, ComesFirst(q, d) PROVE ComesFirst(p, d)
  <2>1. PICK i \in 1..n :
           /\ q[i].id = d /\ q[i].type = "publish"
           /\ \A j \in 1..n : q[j].id = d /\ j # i => i < j /\ q[j].type # "publish"
    BY <1>2 DEF ComesFirst
  <2>2. PICK k \in 1..(n - 1) : k + 1 = i
    BY <1>1, <1>2, <2>1
  <2>3. p[k] = q[i]
    BY <1>1, <2>2
  <2>4. ASSUME NEW j \in 1..(n - 1), p[j].id = d, j # k PROVE k < j /\ p[j].type # "publish"
    <3>1. j + 1 # i /\ j + 1 \in 1..n /\ q[j + 1] = p[j]
      BY <1>1, <2>2, <2>4
    <3>2. i < j + 1 /\ p[j].type # "publish"
      BY <2>1, <2>4, <3>1
    <3> QED
      BY <2>2, <3>2
  <2> QED
    BY <1>1, <2>1, <2>2, <2>3, <2>4 DEF ComesFirst
<1>3. ASSUME Head(q).id # d, ComesFirst(p, d) PROVE ComesFirst(q, d)
  <2>1. PICK i \in 1..(n - 1) :
           /\ p[i].id = d /\ p[i].type = "publish"
           /\ \A j \in 1..(n - 1) : p[j].id = d /\ j # i => i < j /\ p[j].type # "publish"
    BY <1>1, <1>3 DEF ComesFirst
  <2>2. i + 1 \in 1..n /\ q[i + 1] = p[i]
    BY <1>1
  <2>3. ASSUME NEW j \in 1..n, q[j].id = d, j # i + 1 PROVE i + 1 < j /\ q[j].type # "publish"
    <3>1. j # 1
      BY <1>1, <1>3, <2>3
    <3>2. j - 1 \in 1..(n - 1) /\ (j - 1) + 1 = j
      BY <1>1, <3>1
    <3>3. p[j - 1] = q[j]
      BY <1>1, <3>2
    <3>4. j - 1 # i
      BY <2>3, <3>2
    <3>5. i < j - 1 /\ q[j].type # "publish"
      BY <2>1, <2>3, <3>2, <3>3, <3>4
    <3> QED
      BY <3>5
  <2> QED
    BY <2>1, <2>2, <2>3 DEF ComesFirst
<1>4. ASSUME Head(q).id = d, ComesFirst(q, d)
      PROVE  Head(q).type = "publish" /\ \A m \in About(p, d) : m.type # "publish"
  <2>1. PICK i \in 1..n :
           /\ q[i].id = d /\ q[i].type = "publish"
           /\ \A j \in 1..n : q[j].id = d /\ j # i => i < j /\ q[j].type # "publish"
    BY <1>4 DEF ComesFirst
  <2>2. i = 1
    <3>1. CASE 1 # i
      <4>1. i < 1
        BY <1>1, <1>4, <2>1, <3>1
      <4> QED
        BY <4>1
    <3> QED
      BY <3>1
  <2>3. ASSUME NEW m \in About(p, d) PROVE m.type # "publish"
    <3>1. PICK j \in 1..(n - 1) : p[j] = m /\ p[j].id = d
      BY <1>1 DEF About
    <3>2. q[j + 1] = m /\ j + 1 \in 1..n /\ j + 1 # i
      BY <1>1, <2>2, <3>1
    <3> QED
      BY <2>1, <3>1, <3>2
  <2> QED
    BY <1>1, <2>1, <2>2, <2>3
<1> QED
  BY <1>2, <1>3, <1>4

LEMMA AddedAlike ==
  ASSUME NEW S, NEW q \in Seq(S), NEW m \in S, NEW d, m.id # d
  PROVE  Alike(q, Append(q, m), d)
BY AddedAbout, AddedEnds, AddedFirst DEF Alike

LEMMA TakenAlike ==
  ASSUME NEW S, NEW q \in Seq(S), q # <<>>, NEW d, Head(q).id # d
  PROVE  Alike(q, Tail(q), d)
BY TakenAbout, TakenEnds, TakenFirst DEF Alike

LEMMA AddedTwice ==
  ASSUME NEW S, NEW q \in Seq(S), NEW m \in S
  PROVE  q \o <<m, m>> = Append(Append(q, m), m)
<1> PICK p \in Seq(S) : p = Append(q, m)
  BY AddedIs
<1>1. Append(p, m) \in Seq(S) /\ q \o <<m, m>> \in Seq(S)
  OBVIOUS
<1>2. Len(Append(p, m)) = Len(q) + 2 /\ Len(q \o <<m, m>>) = Len(q) + 2
  OBVIOUS
<1>3. ASSUME NEW j \in 1..(Len(q) + 2) PROVE Append(p, m)[j] = (q \o <<m, m>>)[j]
  OBVIOUS
<1> QED
  BY <1>1, <1>2, <1>3, SeqEqual

\* What a message m about d that is added, or taken off, changes for d
Added(q, p, m, d) ==
  /\ About(p, d) = About(q, d) \cup {m}
  /\ \A x : EndsIn(p, d, x) <=> x = m
  /\ m.type # "publish" /\ ComesFirst(q, d) => ComesFirst(p, d)
  /\ m.type = "publish" /\ About(q, d) = {} => ComesFirst(p, d)

Taken(q, p, m, d) ==
  /\ About(q, d) = About(p, d) \cup {m}
  /\ \A x : EndsIn(q, d, x) => EndsIn(p, d, x) \/ (About(p, d) = {} /\ x = m)
  /\ ComesFirst(q, d) => m.type = "publish" /\ \A x \in About(p, d) : x.type # "publish"

LEMMA AddedSo ==
  ASSUME NEW S, NEW q \in Seq(S), NEW m \in S, NEW d, m.id = d
  PROVE  Added(q, Append(q, m), m, d)
<1>1. About(Append(q, m), d) = About(q, d) \cup {m}
  BY AddedAbout
<1>2. \A x : EndsIn(Append(q, m), d, x) <=> x = m
  BY AddedEnds
<1>3. /\ m.type # "publish" /\ ComesFirst(q, d) => ComesFirst(Append(q, m), d)
      /\ m.type = "publish" /\ About(q, d) = {} => ComesFirst(Append(q, m), d)
  BY AddedFirst
<1> QED
  BY <1>1, <1>2, <1>3 DEF Added

LEMMA TakenSo ==
  ASSUME NEW S, NEW q \in Seq(S), q # <<>>, NEW d, Head(q).id = d
  PROVE  Taken(q, Tail(q), Head(q), d)
<1>1. About(q, d) = About(Tail(q), d) \cup {Head(q)}
  BY TakenAbout
<1>2. ASSUME NEW x, EndsIn(q, d, x)
      PROVE  EndsIn(Tail(q), d, x) \/ (About(Tail(q), d) = {} /\ x = Head(q))
  BY <1>2, TakenEnds
<1>3. ASSUME ComesFirst(q, d)
      PROVE  Head(q).type = "publish" /\ \A m \in About(Tail(q), d) : m.type # "publish"
  BY <1>3, TakenFirst
<1> QED
  BY <1>1, <1>2, <1>3 DEF Taken

-----------------------------------------------------------------------------
(* What a relay does to its surfaces and tabs, and to no others: a surface *)
(* keeps the tab that belongs to it.                                       *)
SurfaceState == [Surfs!Relays -> [SurfaceIds -> Surfs!Surfaces \cup {NoSurface}]]
TabState == [Surfs!Relays -> [Surfs!Nodes -> [SurfaceIds -> Titles \cup {NoSurface}]]]
LeafMessages(l) == {m \in Surfs!Messages : m.type = "publish" => m.label = l}

SurfTypes ==
  /\ surf \in SurfaceState /\ tabs \in TabState
  /\ up = [l \in Leaves |-> up[l]] /\ \A l \in Leaves : up[l] \in Seq(LeafMessages(l))
  /\ down \in [Leaves -> Seq(Surfs!Messages)]

TabsTrueAt(r, d) ==
  IF Surfs!Has(r, d) THEN tabs[r][surf[r][d].node][d] = surf[r][d].title
                     ELSE \A n \in Surfs!Nodes : tabs[r][n][d] = NoSurface

TabsTrue(d) == \A r \in Surfs!Relays : TabsTrueAt(r, d)

Untouched(d) ==
  \A r \in Surfs!Relays :
    surf'[r][d] = surf[r][d] /\ \A n \in Surfs!Nodes : tabs'[r][n][d] = tabs[r][n][d]

\* Surface d of relay r becomes v, its tabs follow, and nothing else happens.
Sets(r, d, v) ==
  /\ surf' \in SurfaceState /\ tabs' \in TabState
  /\ surf'[r][d] = v /\ \A q \in Surfs!Relays : q # r => surf'[q][d] = surf[q][d]
  /\ \A e \in SurfaceIds : e # d => Untouched(e)
  /\ TabsTrue(d)'

LEMMA RelaysApart ==
  /\ "hub" \notin Leaves /\ "__local__" \notin Leaves /\ "inst" \notin Leaves
  /\ "hub" \in Surfs!Relays /\ Leaves \subseteq Surfs!Relays /\ Leaves \subseteq Surfs!Nodes
  /\ \A r \in Surfs!Relays : r = "hub" \/ r \in Leaves
  /\ "__local__" \in Surfs!Nodes /\ "inst" \in Surfs!Nodes
BY RelayBounds DEF Surfs!Relays, Surfs!Nodes

LEMMA SurfaceIs ==
  /\ \A v \in Surfs!Surfaces : v # NoSurface /\ v.node \in Surfs!Nodes /\ v.title \in Titles
  /\ \A t \in Titles : t # NoSurface
BY RelayBounds DEF Surfs!Surfaces

LEMMA MessageIs ==
  ASSUME NEW m \in Surfs!Messages
  PROVE  /\ m.id \in SurfaceIds /\ m.type \in {"publish", "update", "close"}
         /\ m.type = "publish" => m.node \in Surfs!Nodes /\ m.label \in Surfs!Relays
         /\ m.type # "close" => m.title \in Titles
BY DEF Surfs!Messages

LEMMA SentIs ==
  ASSUME NEW d \in SurfaceIds, NEW t \in Titles, NEW n \in Surfs!Nodes, NEW l \in Surfs!Relays
  PROVE  /\ \E m \in Surfs!Messages : /\ m = Surfs!Publish(d, n, l, t) /\ m.type = "publish" /\ m.id = d
                                      /\ m.node = n /\ m.label = l /\ m.title = t
         /\ \E m \in Surfs!Messages : /\ m = Surfs!Update(d, t) /\ m.type = "update" /\ m.id = d
                                      /\ m.title = t
         /\ \E m \in Surfs!Messages : m = Surfs!Close(d) /\ m.type = "close" /\ m.id = d
<1>1. PICK m : m = Surfs!Publish(d, n, l, t)
  OBVIOUS
<1>2. /\ m.type = "publish" /\ m.id = d /\ m.node = n /\ m.label = l /\ m.title = t
      /\ m \in [type : {"publish"}, id : SurfaceIds, node : Surfs!Nodes, label : Surfs!Relays, title : Titles]
  BY <1>1 DEF Surfs!Publish
<1>3. PICK u : u = Surfs!Update(d, t)
  OBVIOUS
<1>4. u.type = "update" /\ u.id = d /\ u.title = t /\ u \in [type : {"update"}, id : SurfaceIds, title : Titles]
  BY <1>3 DEF Surfs!Update
<1>5. PICK c : c = Surfs!Close(d)
  OBVIOUS
<1>6. c.type = "close" /\ c.id = d /\ c \in [type : {"close"}, id : SurfaceIds]
  BY <1>5 DEF Surfs!Close
<1>7. m \in Surfs!Messages /\ u \in Surfs!Messages /\ c \in Surfs!Messages
  BY <1>2, <1>4, <1>6 DEF Surfs!Messages
<1> QED
  BY <1>1, <1>2, <1>3, <1>4, <1>5, <1>6, <1>7

\* The surface changes, with every other as it was; and its tabs do.
Becomes(r, d, v) == surf' = [surf EXCEPT ![r][d] = v]

SurfaceChanged(r, d, v) ==
  /\ surf' \in SurfaceState /\ surf'[r][d] = v
  /\ \A q \in Surfs!Relays, e \in SurfaceIds : q # r \/ e # d => surf'[q][e] = surf[q][e]

TabsChanged(r, ns, d, t) ==
  /\ tabs' \in TabState
  /\ \A n \in Surfs!Nodes : tabs'[r][n][d] = IF n \in ns THEN t ELSE tabs[r][n][d]
  /\ \A q \in Surfs!Relays, n \in Surfs!Nodes, e \in SurfaceIds :
       q # r \/ e # d => tabs'[q][n][e] = tabs[q][n][e]

LEMMA SurfaceSet ==
  ASSUME SurfTypes, NEW r \in Surfs!Relays, NEW d \in SurfaceIds,
         NEW v \in Surfs!Surfaces \cup {NoSurface}, Becomes(r, d, v)
  PROVE  SurfaceChanged(r, d, v)
<1>1. surf \in SurfaceState
  BY DEF SurfTypes
<1>2. PICK f : f = [surf[r] EXCEPT ![d] = v]
  OBVIOUS
<1>3. /\ f \in [SurfaceIds -> Surfs!Surfaces \cup {NoSurface}] /\ f[d] = v
      /\ \A e \in SurfaceIds : e # d => f[e] = surf[r][e]
  BY <1>1, <1>2 DEF SurfaceState
<1>4. surf' = [surf EXCEPT ![r] = f]
  BY <1>2 DEF Becomes
<1> QED
  BY <1>1, <1>3, <1>4 DEF SurfaceState, SurfaceChanged

LEMMA TabSet ==
  ASSUME SurfTypes, NEW r \in Surfs!Relays, NEW ns, NEW d \in SurfaceIds,
         NEW t \in Titles \cup {NoSurface}, Surfs!SetTab(r, ns, d, t)
  PROVE  TabsChanged(r, ns, d, t)
<1>1. tabs \in TabState
  BY DEF SurfTypes
<1>2. PICK f : f = [n \in Surfs!Nodes |-> IF n \in ns THEN [tabs[r][n] EXCEPT ![d] = t] ELSE tabs[r][n]]
  OBVIOUS
<1>3. tabs' = [tabs EXCEPT ![r] = f]
  BY <1>2 DEF Surfs!SetTab
<1>4. ASSUME NEW n \in Surfs!Nodes
      PROVE  /\ f[n] \in [SurfaceIds -> Titles \cup {NoSurface}]
             /\ f[n][d] = IF n \in ns THEN t ELSE tabs[r][n][d]
             /\ \A e \in SurfaceIds : e # d => f[n][e] = tabs[r][n][e]
  BY <1>1, <1>2 DEF TabState
<1>5. f \in [Surfs!Nodes -> [SurfaceIds -> Titles \cup {NoSurface}]]
  BY <1>2, <1>4
<1>6. /\ tabs' \in TabState /\ tabs'[r] = f /\ \A q \in Surfs!Relays : q # r => tabs'[q] = tabs[q]
  BY <1>1, <1>3, <1>5 DEF TabState
<1> QED
  BY <1>4, <1>6 DEF TabsChanged

LEMMA SetsIf ==
  ASSUME SurfTypes, NEW r \in Surfs!Relays, NEW d \in SurfaceIds, TabsTrue(d), NEW v, NEW ns, NEW t,
         SurfaceChanged(r, d, v), TabsChanged(r, ns, d, t), TabsTrueAt(r, d)'
  PROVE  Sets(r, d, v)
<1>1. ASSUME NEW q \in Surfs!Relays PROVE TabsTrueAt(q, d)'
  <2>1. CASE q # r
    <3>1. surf'[q][d] = surf[q][d] /\ \A n \in Surfs!Nodes : tabs'[q][n][d] = tabs[q][n][d]
      BY <2>1 DEF SurfaceChanged, TabsChanged
    <3>2. TabsTrueAt(q, d)
      BY DEF TabsTrue
    <3>3. Surfs!Has(q, d) => surf[q][d].node \in Surfs!Nodes
      BY SurfaceIs DEF Surfs!Has, SurfTypes, SurfaceState
    <3> QED
      BY <3>1, <3>2, <3>3 DEF TabsTrueAt, Surfs!Has
  <2> QED
    BY <2>1
<1> QED
  BY <1>1 DEF Sets, TabsTrue, Untouched, SurfaceChanged, TabsChanged

LEMMA CreateSets ==
  ASSUME SurfTypes, NEW r \in Surfs!Relays, NEW d \in SurfaceIds, TabsTrue(d),
         NEW n \in Surfs!Nodes, NEW t \in Titles, NEW by \in {"browser", "upstream"}, NEW ns, n \in ns,
         Surfs!Create(r, d, n, t, by), Surfs!SetTab(r, ns, d, t)
  PROVE  \E v \in Surfs!Surfaces : Sets(r, d, v) /\ v.node = n /\ v.title = t /\ v.by = by
<1>1. PICK v : v = [node |-> n, title |-> t, by |-> by]
  OBVIOUS
<1>2. v \in Surfs!Surfaces /\ v.node = n /\ v.title = t /\ v.by = by
  BY <1>1 DEF Surfs!Surfaces
<1>3. Becomes(r, d, v)
  BY <1>1 DEF Surfs!Create, Becomes
<1>4. SurfaceChanged(r, d, v)
  BY <1>2, <1>3, SurfaceSet
<1>5. TabsChanged(r, ns, d, t)
  BY TabSet
<1>6. TabsTrueAt(r, d)'
  BY <1>2, <1>4, <1>5, SurfaceIs DEF TabsTrueAt, Surfs!Has, SurfaceChanged, TabsChanged
<1>7. Sets(r, d, v)
  BY <1>4, <1>5, <1>6, SetsIf
<1> QED
  BY <1>2, <1>7

LEMMA DeleteSets ==
  ASSUME SurfTypes, NEW r \in Surfs!Relays, NEW d \in SurfaceIds, TabsTrue(d), Surfs!Delete(r, d)
  PROVE  Sets(r, d, NoSurface)
<1>1. Becomes(r, d, NoSurface) /\ Surfs!SetTab(r, Surfs!Nodes, d, NoSurface)
  BY DEF Surfs!Delete, Becomes
<1>2. SurfaceChanged(r, d, NoSurface)
  BY <1>1, SurfaceSet
<1>3. TabsChanged(r, Surfs!Nodes, d, NoSurface)
  BY <1>1, TabSet
<1>4. TabsTrueAt(r, d)'
  BY <1>2, <1>3 DEF TabsTrueAt, Surfs!Has, SurfaceChanged, TabsChanged
<1> QED
  BY <1>2, <1>3, <1>4, SetsIf

LEMMA RenameSets ==
  ASSUME SurfTypes, NEW r \in Surfs!Relays, NEW d \in SurfaceIds, TabsTrue(d), Surfs!Has(r, d),
         NEW t \in Titles, NEW ns, surf[r][d].node \in ns,
         Surfs!Rename(r, d, t), Surfs!SetTab(r, ns, d, t)
  PROVE  \E v \in Surfs!Surfaces :
           Sets(r, d, v) /\ v.node = surf[r][d].node /\ v.by = surf[r][d].by /\ v.title = t
<1>1. PICK w \in Surfs!Surfaces : w = surf[r][d]
  BY DEF Surfs!Has, SurfTypes, SurfaceState
<1>2. PICK v : v = [w EXCEPT !.title = t]
  OBVIOUS
<1>3. v \in Surfs!Surfaces /\ v.node = w.node /\ v.title = t /\ v.by = w.by
  BY <1>2 DEF Surfs!Surfaces
<1>4. Becomes(r, d, v)
  BY <1>1, <1>2 DEF Surfs!Rename, Becomes
<1>5. SurfaceChanged(r, d, v)
  BY <1>3, <1>4, SurfaceSet
<1>6. TabsChanged(r, ns, d, t) /\ v.node \in ns /\ v.node \in Surfs!Nodes
  BY <1>1, <1>3, TabSet, SurfaceIs
<1>7. TabsTrueAt(r, d)'
  BY <1>3, <1>5, <1>6, SurfaceIs DEF TabsTrueAt, Surfs!Has, SurfaceChanged, TabsChanged
<1>8. Sets(r, d, v)
  BY <1>5, <1>6, <1>7, SetsIf
<1> QED
  BY <1>1, <1>3, <1>8

LEMMA UpdateSets ==
  ASSUME SurfTypes, NEW r \in Surfs!Relays, NEW d \in SurfaceIds, TabsTrue(d), Surfs!Has(r, d),
         NEW t \in Titles, Surfs!ApplyUpdate(r, d, t)
  PROVE  \E v \in Surfs!Surfaces :
           Sets(r, d, v) /\ v.node = surf[r][d].node /\ v.by = surf[r][d].by /\ v.title = t
<1>1. PICK ns : ns = Surfs!TabsOf(r, d, {surf[r][d].node, "__local__"})
  OBVIOUS
<1>2. Surfs!Rename(r, d, t) /\ Surfs!SetTab(r, ns, d, t)
  BY <1>1 DEF Surfs!ApplyUpdate
<1>3. tabs[r][surf[r][d].node][d] = surf[r][d].title /\ surf[r][d] \in Surfs!Surfaces
  BY DEF TabsTrue, TabsTrueAt, Surfs!Has, SurfTypes, SurfaceState
<1>4. surf[r][d].node \in ns
  BY <1>1, <1>3, SurfaceIs DEF Surfs!TabsOf
<1> QED
  BY <1>2, <1>4, RenameSets

LEMMA ImportSets ==
  ASSUME SurfTypes, NEW r \in Surfs!Relays, NEW d \in SurfaceIds, TabsTrue(d),
         NEW n \in Surfs!Nodes, NEW t \in Titles, NEW ns, n \in ns,
         Surfs!Import(r, d, n, t), Surfs!SetTab(r, ns, d, Surfs!TitleAfter(r, d, t))
  PROVE  \E v \in Surfs!Surfaces :
           /\ Sets(r, d, v)
           /\ Surfs!Has(r, d) => v = surf[r][d]
           /\ ~Surfs!Has(r, d) => v.node = n /\ v.title = t /\ v.by = "upstream"
<1>1. CASE ~Surfs!Has(r, d)
  BY <1>1, CreateSets DEF Surfs!Import, Surfs!TitleAfter
<1>2. CASE Surfs!Has(r, d)
  <2>1. surf' = surf /\ Surfs!SetTab(r, ns, d, surf[r][d].title)
    BY <1>2 DEF Surfs!Import, Surfs!TitleAfter
  <2>2. surf[r][d] \in Surfs!Surfaces /\ surf \in SurfaceState
    BY <1>2 DEF Surfs!Has, SurfTypes, SurfaceState
  <2>3. surf[r][d].title \in Titles /\ surf[r][d].node \in Surfs!Nodes
    BY <2>2, SurfaceIs
  <2>4. tabs[r][surf[r][d].node][d] = surf[r][d].title
    BY <1>2 DEF TabsTrue, TabsTrueAt
  <2>5. TabsChanged(r, ns, d, surf[r][d].title)
    BY <2>1, <2>3, TabSet
  <2>6. TabsTrueAt(r, d)'
    BY <1>2, <2>1, <2>3, <2>4, <2>5 DEF TabsTrueAt, Surfs!Has, TabsChanged
  <2>7. SurfaceChanged(r, d, surf[r][d])
    BY <2>1, <2>2 DEF SurfaceChanged
  <2>8. Sets(r, d, surf[r][d])
    BY <2>5, <2>6, <2>7, SetsIf
  <2> QED
    BY <1>2, <2>2, <2>8
<1> QED
  BY <1>1, <1>2

LEMMA SameSets ==
  ASSUME SurfTypes, NEW r \in Surfs!Relays, NEW d \in SurfaceIds, TabsTrue(d), UNCHANGED <<surf, tabs>>
  PROVE  Sets(r, d, surf[r][d])
BY DEF Sets, SurfTypes, TabsTrue, TabsTrueAt, Untouched, Surfs!Has

-----------------------------------------------------------------------------
(* What a surface is: the hub has it no more, or not yet, or has it.       *)
Sends(l, d, type) == \E m \in About(up[l], d) : m.type = type

Gone(d) ==
  /\ ~Surfs!Has("hub", d)
  /\ \A l \in Leaves :
       /\ ~Sends(l, d, "publish")
       /\ \/ About(down[l], d) = {} /\ ~Surfs!Has(l, d)
          \/ \E m : EndsIn(down[l], d, m) /\ m.type = "close"

\* Leaf l has published it; it has closed it since, or the last it has sent has
\* its title.
Coming(l, d) ==
  /\ ~Surfs!Has("hub", d) /\ ComesFirst(up[l], d)
  /\ \A k \in Leaves : About(down[k], d) = {} /\ (k # l => ~Sends(k, d, "publish"))
  /\ \/ Sends(l, d, "close")
     \/ /\ Surfs!Has(l, d)
        /\ \/ Sends(l, d, "update")
           \/ \E m \in About(up[l], d) : m.type = "publish" /\ m.title = surf[l][d].title

Importable(l, m) == m.node = "__local__" \/ (m.label = l /\ l \in labelled)

\* It is on leaf l, or will be, unless l closes it.
There(l, d) ==
  \/ Sends(l, d, "close") \/ Surfs!Has(l, d)
  \/ \E m \in About(down[l], d) : m.type = "publish" /\ Importable(l, m)

\* Leaf l will have the title that the hub has, unless it sends another.
Agrees(l, d) ==
  \/ About(up[l], d) # {}
  \/ \E m : EndsIn(down[l], d, m) /\ m.type = "update" /\ m.title = surf["hub"][d].title
  \/ /\ \A m \in About(down[l], d) : m.title = surf["hub"][d].title
     /\ Surfs!Has(l, d) => surf[l][d].title = surf["hub"][d].title

Shared(d) ==
  /\ Surfs!Has("hub", d)
  /\ \A l \in Leaves : ~Sends(l, d, "publish") /\ \A m \in About(down[l], d) : m.type # "close"
  /\ Surfs!Sharers(d) \subseteq Leaves
  /\ \A l \in Surfs!Sharers(d) : There(l, d) /\ Agrees(l, d)

Phase(d) == Gone(d) \/ (\E l \in Leaves : Coming(l, d)) \/ Shared(d)

SurfInv == SurfTypes /\ \A d \in SurfaceIds : TabsTrue(d) /\ Phase(d)

QueueTypes ==
  /\ up = [l \in Leaves |-> up[l]] /\ \A l \in Leaves : up[l] \in Seq(LeafMessages(l))
  /\ down \in [Leaves -> Seq(Surfs!Messages)]

\* Only messages about d come or go.
Queues(d) ==
  /\ QueueTypes'
  /\ \A e \in SurfaceIds : e # d =>
       \A l \in Leaves : Alike(up[l], up'[l], e) /\ Alike(down[l], down'[l], e)

LEMMA SurfStarts == Surfs!SurfInit => SurfInv
<1> SUFFICES ASSUME Surfs!SurfInit
             PROVE  SurfInv
  OBVIOUS
<1>1. /\ surf = [r \in Surfs!Relays |-> [s \in SurfaceIds |-> NoSurface]]
      /\ tabs = [r \in Surfs!Relays |-> [n \in Surfs!Nodes |-> [s \in SurfaceIds |-> NoSurface]]]
      /\ up = [l \in Leaves |-> <<>>] /\ down = [l \in Leaves |-> <<>>]
  BY DEF Surfs!SurfInit
<1>2. \A l \in Leaves : <<>> \in Seq(LeafMessages(l)) /\ <<>> \in Seq(Surfs!Messages)
  OBVIOUS
<1>3. up = [l \in Leaves |-> up[l]] /\ down \in [Leaves -> Seq(Surfs!Messages)]
      /\ \A l \in Leaves : up[l] \in Seq(LeafMessages(l))
  BY <1>1, <1>2
<1>4. surf \in SurfaceState /\ tabs \in TabState
  BY <1>1 DEF SurfaceState, TabState
<1>5. \A r \in Surfs!Relays, d \in SurfaceIds : ~Surfs!Has(r, d) /\ \A n \in Surfs!Nodes : tabs[r][n][d] = NoSurface
  BY <1>1 DEF Surfs!Has
<1>6. ASSUME NEW d \in SurfaceIds PROVE TabsTrue(d) /\ Gone(d)
  <2>1. \A l \in Leaves : About(up[l], d) = {} /\ About(down[l], d) = {}
    BY <1>1, NothingAbout
  <2> QED
    BY <1>5, <2>1, RelaysApart DEF TabsTrue, TabsTrueAt, Gone, Sends
<1> QED
  BY <1>3, <1>4, <1>6 DEF SurfInv, SurfTypes, Phase

LEMMA AlikeIs ==
  /\ \A p, d : Alike(p, p, d)
  /\ \A p, q, s, d : Alike(p, q, d) /\ Alike(q, s, d) => Alike(p, s, d)
BY DEF Alike

\* A surface that a step is not about stays as it is.
LEMMA PhaseStays ==
  ASSUME NEW d \in SurfaceIds, Phase(d), Untouched(d), labelled' = labelled,
         \A l \in Leaves : Alike(up[l], up'[l], d) /\ Alike(down[l], down'[l], d)
  PROVE  Phase(d)'
<1>1. \A l \in Leaves : /\ About(up'[l], d) = About(up[l], d) /\ About(down'[l], d) = About(down[l], d)
                        /\ ComesFirst(up'[l], d) <=> ComesFirst(up[l], d)
                        /\ \A m : EndsIn(down'[l], d, m) <=> EndsIn(down[l], d, m)
  BY DEF Alike
<1>2. \A r \in Surfs!Relays : surf'[r][d] = surf[r][d]
  BY DEF Untouched
<1>3. surf'["hub"][d] = surf["hub"][d] /\ \A l \in Leaves : surf'[l][d] = surf[l][d]
  BY <1>2, RelaysApart
<1>4. \A l \in Leaves : \A type : Sends(l, d, type)' <=> Sends(l, d, type)
  BY <1>1 DEF Sends
<1>5. /\ Surfs!Has("hub", d)' <=> Surfs!Has("hub", d)
      /\ \A l \in Leaves : Surfs!Has(l, d)' <=> Surfs!Has(l, d)
  BY <1>3 DEF Surfs!Has
<1>6. CASE Gone(d)
  BY <1>1, <1>4, <1>5, <1>6 DEF Gone, Phase
<1>7. CASE \E l \in Leaves : Coming(l, d)
  BY <1>1, <1>3, <1>4, <1>5, <1>7 DEF Coming, Phase
<1>8. CASE Shared(d)
  <2>1. Surfs!Sharers(d)' = Surfs!Sharers(d)
    BY <1>3 DEF Surfs!Sharers
  <2>2. ASSUME NEW l \in Leaves PROVE (There(l, d)' <=> There(l, d)) /\ (Agrees(l, d)' <=> Agrees(l, d))
    <3>1. There(l, d)' <=> There(l, d)
      BY <1>1, <1>4, <1>5 DEF There, Importable
    <3>2. Agrees(l, d)' <=> Agrees(l, d)
      BY <1>1, <1>3, <1>5 DEF Agrees
    <3> QED
      BY <3>1, <3>2
  <2> QED
    BY <1>1, <1>4, <1>5, <1>8, <2>1, <2>2 DEF Shared, Phase
<1> QED
  BY <1>6, <1>7, <1>8 DEF Phase

LEMMA StepKeeps ==
  ASSUME SurfInv, NEW r \in Surfs!Relays, NEW d \in SurfaceIds, NEW v, Sets(r, d, v), Queues(d),
         labelled' = labelled, Phase(d)'
  PROVE  SurfInv'
<1>1. SurfTypes'
  BY DEF Sets, Queues, QueueTypes, SurfTypes
<1>2. ASSUME NEW e \in SurfaceIds, e # d PROVE TabsTrue(e)' /\ Phase(e)'
  <2>1. TabsTrue(e) /\ Phase(e) /\ Untouched(e)
    BY <1>2 DEF SurfInv, Sets
  <2>2. Phase(e)'
    BY <1>2, <2>1, PhaseStays DEF Queues
  <2>3. \A q \in Surfs!Relays : Surfs!Has(q, e) => surf[q][e].node \in Surfs!Nodes
    BY SurfaceIs DEF SurfInv, SurfTypes, SurfaceState, Surfs!Has
  <2>4. TabsTrue(e)'
    BY <2>1, <2>3 DEF TabsTrue, TabsTrueAt, Untouched, Surfs!Has
  <2> QED
    BY <2>2, <2>4
<1> QED
  BY <1>1, <1>2 DEF SurfInv, Sets

SentUp(l, d, m) ==
  /\ Queues(d) /\ down' = down
  /\ up'[l] = Append(up[l], m) /\ \A k \in Leaves : k # l => up'[k] = up[k]

LEMMA SendUpIs ==
  ASSUME QueueTypes, NEW l \in Leaves, NEW m \in LeafMessages(l), Surfs!SendUp(l, m), NEW d, m.id = d
  PROVE  SentUp(l, d, m)
<1>1. up' = [up EXCEPT ![l] = Append(up[l], m)] /\ down' = down
  BY DEF Surfs!SendUp
<1>2. up[l] \in Seq(LeafMessages(l)) /\ up = [k \in Leaves |-> up[k]]
  BY DEF QueueTypes
<1>3. PICK q : q = Append(up[l], m)
  OBVIOUS
<1>4. q \in Seq(LeafMessages(l))
  BY <1>2, <1>3, AddedIs
<1>5. up' = [up EXCEPT ![l] = q]
  BY <1>1, <1>3
<1>6. up' = [k \in Leaves |-> up'[k]] /\ up'[l] = q /\ \A k \in Leaves : k # l => up'[k] = up[k]
  BY <1>2, <1>5
<1>7. QueueTypes'
  BY <1>1, <1>4, <1>6 DEF QueueTypes
<1>8. ASSUME NEW e \in SurfaceIds, e # m.id PROVE Alike(up[l], q, e)
  BY <1>2, <1>3, <1>8, AddedAlike
<1> QED
  BY <1>1, <1>3, <1>6, <1>7, <1>8, AlikeIs DEF Queues, SentUp

SentDown(m) ==
  /\ down' \in [Leaves -> Seq(Surfs!Messages)]
  /\ \A l \in Leaves : down'[l] = Append(down[l], m)
  /\ \A e \in SurfaceIds : e # m.id => \A l \in Leaves : Alike(down[l], down'[l], e)

LEMMA BroadcastIs ==
  ASSUME QueueTypes, NEW m \in Surfs!Messages, Surfs!Broadcast(m)
  PROVE  SentDown(m)
<1>1. down' = [l \in Leaves |-> Append(down[l], m)]
  BY DEF Surfs!Broadcast
<1>2. \A l \in Leaves : down[l] \in Seq(Surfs!Messages)
  BY DEF QueueTypes
<1>3. \A l \in Leaves : Append(down[l], m) \in Seq(Surfs!Messages)
  BY <1>2, AddedIs
<1>4. ASSUME NEW e \in SurfaceIds, e # m.id, NEW l \in Leaves PROVE Alike(down[l], Append(down[l], m), e)
  BY <1>2, <1>4, AddedAlike
<1> QED
  BY <1>1, <1>3, <1>4 DEF SentDown

TakenUp(l, h) ==
  /\ h \in LeafMessages(l) /\ h \in Surfs!Messages /\ up'[l] = Tail(up[l])
  /\ \A k \in Leaves : k # l => up'[k] = up[k]
  /\ up' = [k \in Leaves |-> up'[k]] /\ \A k \in Leaves : up'[k] \in Seq(LeafMessages(k))
  /\ \A e \in SurfaceIds : e # h.id => \A k \in Leaves : Alike(up[k], up'[k], e)

LEMMA HubTakesIs ==
  ASSUME QueueTypes, NEW l \in Leaves, up[l] # <<>>, up' = [up EXCEPT ![l] = Tail(up[l])],
         NEW h, h = Head(up[l])
  PROVE  TakenUp(l, h)
<1>1. up[l] \in Seq(LeafMessages(l)) /\ up = [k \in Leaves |-> up[k]]
      /\ \A k \in Leaves : up[k] \in Seq(LeafMessages(k))
  BY DEF QueueTypes
<1>2. PICK q : q = Tail(up[l])
  OBVIOUS
<1>3. q \in Seq(LeafMessages(l)) /\ h \in LeafMessages(l)
  BY <1>1, <1>2, TakenIs
<1>4. up' = [up EXCEPT ![l] = q]
  BY <1>2
<1>5. up' = [k \in Leaves |-> up'[k]] /\ up'[l] = q /\ \A k \in Leaves : k # l => up'[k] = up[k]
  BY <1>1, <1>4
<1>6. ASSUME NEW e \in SurfaceIds, e # h.id PROVE Alike(up[l], q, e)
  BY <1>1, <1>2, <1>6, TakenAlike
<1>7. h \in Surfs!Messages
  BY <1>3 DEF LeafMessages
<1>8. \A k \in Leaves : up'[k] \in Seq(LeafMessages(k))
  BY <1>1, <1>3, <1>5
<1> QED
  BY <1>2, <1>3, <1>5, <1>6, <1>7, <1>8, AlikeIs DEF TakenUp

TakenDown(l, h) ==
  /\ h \in Surfs!Messages /\ Queues(h.id) /\ down'[l] = Tail(down[l])
  /\ \A k \in Leaves : k # l => down'[k] = down[k]

LEMMA LeafTakesIs ==
  ASSUME QueueTypes, NEW l \in Leaves, down[l] # <<>>, down' = [down EXCEPT ![l] = Tail(down[l])],
         up' = up, NEW h, h = Head(down[l])
  PROVE  TakenDown(l, h)
<1>1. down[l] \in Seq(Surfs!Messages) /\ down \in [Leaves -> Seq(Surfs!Messages)]
  BY DEF QueueTypes
<1>2. PICK q : q = Tail(down[l])
  OBVIOUS
<1>3. q \in Seq(Surfs!Messages) /\ h \in Surfs!Messages
  BY <1>1, <1>2, TakenIs
<1>4. down' = [down EXCEPT ![l] = q]
  BY <1>2
<1>5. down' \in [Leaves -> Seq(Surfs!Messages)] /\ down'[l] = q /\ \A k \in Leaves : k # l => down'[k] = down[k]
  BY <1>1, <1>3, <1>4
<1>6. ASSUME NEW e \in SurfaceIds, e # h.id PROVE Alike(down[l], q, e)
  BY <1>1, <1>2, <1>6, TakenAlike
<1>7. QueueTypes'
  BY <1>5 DEF QueueTypes
<1> QED
  BY <1>2, <1>3, <1>5, <1>6, <1>7, AlikeIs DEF Queues, TakenDown

-----------------------------------------------------------------------------
(* The browsers publish, rename and close.                                 *)
LEMMA NewIs ==
  ASSUME SurfTypes, NEW d \in SurfaceIds, Surfs!New(d)
  PROVE  /\ \A r \in Surfs!Relays : ~Surfs!Has(r, d)
         /\ \A l \in Leaves : About(up[l], d) = {} /\ About(down[l], d) = {}
<1>1. \A r \in Surfs!Relays : ~Surfs!Has(r, d)
  BY DEF Surfs!New
<1>2. ASSUME NEW l \in Leaves PROVE About(up[l], d) = {} /\ About(down[l], d) = {}
  <2>a. \A q \in {up[l], down[l]} : \A i \in DOMAIN q : q[i].id # d
    BY RelaysApart DEF Surfs!New
  <2>1. /\ \A i \in DOMAIN up[l] : up[l][i].id # d
        /\ \A i \in DOMAIN down[l] : down[l][i].id # d
    BY <2>a
  <2>2. DOMAIN up[l] = 1..Len(up[l]) /\ DOMAIN down[l] = 1..Len(down[l])
    BY DEF SurfTypes
  <2> QED
    BY <2>1, <2>2 DEF About
<1> QED
  BY <1>1, <1>2

LEMMA PublishHubKeeps ==
  ASSUME SurfInv, NEW d \in SurfaceIds, NEW n \in Surfs!Nodes, NEW t \in Titles,
         Surfs!PublishAtHub(d, n, t)
  PROVE  SurfInv'
<1>1. SurfTypes /\ QueueTypes /\ TabsTrue(d)
  BY DEF SurfInv, SurfTypes, QueueTypes
<1>2. Surfs!New(d) /\ n \in Leaves \cup {"__local__"} /\ labelled' = labelled /\ up' = up
  BY DEF Surfs!PublishAtHub, Surfs!Fresh
<1>3. /\ \A r \in Surfs!Relays : ~Surfs!Has(r, d)
      /\ \A l \in Leaves : About(up[l], d) = {} /\ About(down[l], d) = {}
  BY <1>1, <1>2, NewIs
<1>4. PICK v \in Surfs!Surfaces : Sets("hub", d, v) /\ v.node = n /\ v.title = t /\ v.by = "browser"
  <2>1. Surfs!Create("hub", d, n, t, "browser") /\ Surfs!SetTab("hub", {n}, d, t)
    BY DEF Surfs!PublishAtHub
  <2> QED
    BY <1>1, <2>1, CreateSets, RelaysApart
<1>5. PICK from \in Surfs!Relays : from = IF n = "__local__" THEN "hub" ELSE n
  BY <1>2, RelaysApart
<1>6. PICK m \in Surfs!Messages : /\ m = Surfs!Publish(d, n, from, t) /\ m.type = "publish" /\ m.id = d
                                  /\ m.node = n /\ m.label = from /\ m.title = t
  BY SentIs
<1>7. down' = [l \in Leaves |-> IF l = n THEN down[l] \o <<m, m>> ELSE Append(down[l], m)]
  BY <1>5, <1>6 DEF Surfs!PublishAtHub
<1>8. ASSUME NEW l \in Leaves
      PROVE  /\ down'[l] \in Seq(Surfs!Messages) /\ About(down'[l], d) = {m}
             /\ \A e \in SurfaceIds : e # d => Alike(down[l], down'[l], e)
  <2>1. down[l] \in Seq(Surfs!Messages)
    BY <1>1 DEF QueueTypes
  <2>2. PICK p \in Seq(Surfs!Messages) : p = Append(down[l], m)
    BY <2>1, AddedIs
  <2>3. PICK q \in Seq(Surfs!Messages) : q = Append(p, m)
    BY <2>2, AddedIs
  <2>a. Added(down[l], Append(down[l], m), m, d) /\ Added(p, Append(p, m), m, d)
    BY <1>6, <2>1, <2>2, AddedSo
  <2>b. Added(down[l], p, m, d) /\ Added(p, q, m, d)
    BY <2>2, <2>3, <2>a
  <2>4. About(p, d) = {m} /\ About(q, d) = {m}
    BY <1>3, <2>b DEF Added
  <2>5. ASSUME NEW e \in SurfaceIds, e # d PROVE Alike(down[l], p, e) /\ Alike(down[l], q, e)
    <3>1. Alike(down[l], Append(down[l], m), e) /\ Alike(p, Append(p, m), e)
      BY <1>6, <2>1, <2>2, <2>5, AddedAlike
    <3> QED
      BY <2>2, <2>3, <3>1, AlikeIs
  <2>6. down'[l] = p \/ down'[l] = q
    BY <1>7, <2>1, <2>2, <2>3, AddedTwice
  <2> QED
    BY <2>4, <2>5, <2>6
<1>9. Queues(d)
  <2>1. down' \in [Leaves -> Seq(Surfs!Messages)]
    BY <1>7, <1>8
  <2>2. QueueTypes'
    BY <1>1, <1>2, <2>1 DEF QueueTypes
  <2> QED
    BY <1>2, <1>8, <2>2, AlikeIs DEF Queues
<1>10. /\ surf'["hub"][d] = v /\ v # NoSurface
       /\ \A l \in Leaves : surf'[l][d] = surf[l][d] /\ ~Surfs!Has(l, d)'
  BY <1>3, <1>4, RelaysApart, SurfaceIs DEF Sets, Surfs!Has
<1>a. Surfs!Sharers(d)' \subseteq Leaves
  BY <1>2, <1>4, <1>10 DEF Surfs!Sharers
<1>11. ASSUME NEW l \in Leaves, l \in Surfs!Sharers(d)' PROVE There(l, d)' /\ Agrees(l, d)'
  <2>1. n = "__local__" \/ (n = l /\ l \in labelled)
    BY <1>4, <1>10, <1>11, <1>2 DEF Surfs!Sharers
  <2>2. Importable(l, m)'
    BY <1>2, <1>5, <1>6, <2>1, RelaysApart DEF Importable
  <2>3. m \in About(down'[l], d) /\ \A x \in About(down'[l], d) : x.title = v.title
    BY <1>4, <1>6, <1>8
  <2> QED
    BY <1>6, <1>10, <2>2, <2>3 DEF There, Agrees
<1>12. \A l \in Leaves : ~Sends(l, d, "publish")' /\ \A x \in About(down'[l], d) : x.type # "close"
  BY <1>2, <1>3, <1>6, <1>8 DEF Sends
<1>13. Phase(d)'
  BY <1>10, <1>11, <1>12, <1>a DEF Phase, Shared, Surfs!Has
<1> QED
  BY <1>2, <1>4, <1>9, <1>13, StepKeeps, RelaysApart

LEMMA PublishLeafKeeps ==
  ASSUME SurfInv, NEW l \in Leaves, NEW d \in SurfaceIds, NEW n \in Surfs!Nodes, NEW t \in Titles,
         Surfs!PublishAtLeaf(l, d, n, t)
  PROVE  SurfInv'
<1>1. SurfTypes /\ QueueTypes /\ TabsTrue(d)
  BY DEF SurfInv, SurfTypes, QueueTypes
<1>2. Surfs!New(d) /\ labelled' = labelled
  BY DEF Surfs!PublishAtLeaf, Surfs!Fresh
<1>3. /\ \A r \in Surfs!Relays : ~Surfs!Has(r, d)
      /\ \A k \in Leaves : About(up[k], d) = {} /\ About(down[k], d) = {}
  BY <1>1, <1>2, NewIs
<1>4. PICK v \in Surfs!Surfaces : Sets(l, d, v) /\ v.node = n /\ v.title = t /\ v.by = "browser"
  <2>1. Surfs!Create(l, d, n, t, "browser") /\ Surfs!SetTab(l, {n}, d, t)
    BY DEF Surfs!PublishAtLeaf
  <2> QED
    BY <1>1, <2>1, CreateSets, RelaysApart
<1>5. PICK m \in Surfs!Messages : /\ m = Surfs!Publish(d, n, l, t) /\ m.type = "publish" /\ m.id = d
                                  /\ m.node = n /\ m.label = l /\ m.title = t
  BY SentIs, RelaysApart
<1>6. m \in LeafMessages(l) /\ Surfs!SendUp(l, m)
  BY <1>5 DEF LeafMessages, Surfs!PublishAtLeaf
<1>a. SentUp(l, d, m)
  BY <1>1, <1>5, <1>6, SendUpIs
<1>7. /\ Queues(d) /\ down' = down /\ up'[l] = Append(up[l], m)
      /\ \A k \in Leaves : k # l => up'[k] = up[k]
  BY <1>a DEF SentUp
<1>8. up[l] \in Seq(LeafMessages(l))
  BY <1>1 DEF QueueTypes
<1>9. About(up'[l], d) = {m} /\ ComesFirst(up'[l], d)
  <2>1. Added(up[l], Append(up[l], m), m, d)
    BY <1>5, <1>6, <1>8, AddedSo
  <2>2. Added(up[l], up'[l], m, d)
    BY <1>7, <2>1
  <2> QED
    BY <1>3, <1>5, <2>2 DEF Added
<1>10. /\ ~Surfs!Has("hub", d)' /\ Surfs!Has(l, d)' /\ surf'[l][d] = v
  BY <1>3, <1>4, RelaysApart, SurfaceIs DEF Sets, Surfs!Has
<1>11. \A k \in Leaves : About(down'[k], d) = {} /\ (k # l => ~Sends(k, d, "publish")')
  BY <1>3, <1>7 DEF Sends
<1>12. Coming(l, d)'
  BY <1>4, <1>5, <1>9, <1>10, <1>11 DEF Coming
<1> QED
  BY <1>2, <1>4, <1>7, <1>12, StepKeeps, RelaysApart DEF Phase

\* A leaf renames or closes a surface it has, and says so.
LEMMA LeafSends ==
  ASSUME SurfInv, NEW l \in Leaves, NEW d \in SurfaceIds, Surfs!Has(l, d),
         NEW m, m.type \in {"update", "close"}, Added(up[l], up'[l], m, d), SentUp(l, d, m),
         NEW v, Sets(l, d, v), m.type = "update" => v # NoSurface, labelled' = labelled
  PROVE  Phase(d)'
<1>1. /\ down' = down /\ \A k \in Leaves : k # l => up'[k] = up[k]
      /\ About(up'[l], d) = About(up[l], d) \cup {m}
      /\ ComesFirst(up[l], d) => ComesFirst(up'[l], d)
  BY DEF SentUp, Added
<1>2. /\ surf'["hub"][d] = surf["hub"][d] /\ surf'[l][d] = v
      /\ \A k \in Leaves : k # l => surf'[k][d] = surf[k][d]
  BY RelaysApart DEF Sets
<1>3. \A k \in Leaves : Sends(k, d, "publish")' <=> Sends(k, d, "publish")
  BY <1>1 DEF Sends
<1>4. /\ m.type = "close" => Sends(l, d, "close")'
      /\ m.type = "update" => Sends(l, d, "update")' /\ Surfs!Has(l, d)'
  BY <1>1, <1>2 DEF Sends, Surfs!Has
<1>5. Surfs!Has("hub", d)' <=> Surfs!Has("hub", d)
  BY <1>2 DEF Surfs!Has
<1>6. CASE Gone(d)
  <2>1. ASSUME NEW k \in Leaves
        PROVE  \/ About(down'[k], d) = {} /\ ~Surfs!Has(k, d)'
               \/ \E x : EndsIn(down'[k], d, x) /\ x.type = "close"
    BY <1>1, <1>2, <1>6 DEF Gone, Surfs!Has
  <2> QED
    BY <1>3, <1>5, <1>6, <2>1 DEF Gone, Phase
<1>7. ASSUME NEW k \in Leaves, Coming(k, d) PROVE Coming(k, d)'
  <2>1. CASE k = l
    BY <1>1, <1>3, <1>4, <1>5, <1>7, <2>1 DEF Coming
  <2>2. CASE k # l
    <3>1. surf'[k][d] = surf[k][d] /\ up'[k] = up[k]
      BY <1>1, <1>2, <2>2
    <3> QED
      BY <1>1, <1>3, <1>5, <1>7, <3>1 DEF Coming, Sends, Surfs!Has
  <2> QED
    BY <2>1, <2>2
<1>8. CASE Shared(d)
  <2>1. Surfs!Sharers(d)' = Surfs!Sharers(d)
    BY <1>2 DEF Surfs!Sharers
  <2>2. There(l, d)' /\ Agrees(l, d)'
    BY <1>1, <1>4 DEF There, Agrees
  <2>3. ASSUME NEW k \in Leaves, k # l PROVE (There(k, d) => There(k, d)') /\ (Agrees(k, d) => Agrees(k, d)')
    <3>1. surf'[k][d] = surf[k][d] /\ up'[k] = up[k]
      BY <1>1, <1>2, <2>3
    <3>2. There(k, d) => There(k, d)'
      BY <1>1, <3>1 DEF There, Sends, Importable, Surfs!Has
    <3>3. Agrees(k, d) => Agrees(k, d)'
      BY <1>1, <1>2, <3>1 DEF Agrees, Surfs!Has
    <3> QED
      BY <3>2, <3>3
  <2> QED
    BY <1>1, <1>3, <1>5, <1>8, <2>1, <2>2, <2>3 DEF Shared, Phase
<1> QED
  BY <1>6, <1>7, <1>8 DEF SurfInv, Phase

\* The hub renames a surface it has, and says so.
LEMMA HubRenames ==
  ASSUME SurfInv, NEW d \in SurfaceIds, Surfs!Has("hub", d),
         NEW m, m.type = "update", NEW v \in Surfs!Surfaces, Sets("hub", d, v), v.title = m.title,
         v.node = surf["hub"][d].node, v.by = surf["hub"][d].by,
         \A l \in Leaves : Added(down[l], down'[l], m, d) /\ About(up'[l], d) \subseteq About(up[l], d),
         \A l \in Leaves : About(up[l], d) \subseteq About(up'[l], d) \cup {m},
         labelled' = labelled
  PROVE  Phase(d)'
<1>1. Shared(d)
  BY DEF SurfInv, Phase, Gone, Coming
<1>2. surf'["hub"][d] = v /\ \A k \in Leaves : surf'[k][d] = surf[k][d]
  BY RelaysApart DEF Sets
<1>3. Surfs!Has("hub", d)' /\ \A k \in Leaves : Surfs!Has(k, d)' <=> Surfs!Has(k, d)
  BY <1>2, SurfaceIs DEF Surfs!Has
<1>4. Surfs!Sharers(d)' = Surfs!Sharers(d)
  BY <1>2 DEF Surfs!Sharers
<1>5. ASSUME NEW l \in Leaves
      PROVE  /\ ~Sends(l, d, "publish")' /\ \A x \in About(down'[l], d) : x.type # "close"
             /\ Agrees(l, d)' /\ (There(l, d) => There(l, d)')
  <2>1. About(down'[l], d) = About(down[l], d) \cup {m} /\ EndsIn(down'[l], d, m)
    BY DEF Added
  <2>2. ~Sends(l, d, "publish")'
    BY <1>1 DEF Shared, Sends
  <2>3. \A x \in About(down'[l], d) : x.type # "close"
    BY <1>1, <2>1 DEF Shared
  <2>4. Agrees(l, d)'
    BY <1>2, <2>1 DEF Agrees
  <2>5. There(l, d) => There(l, d)'
    <3>1. Sends(l, d, "close") => Sends(l, d, "close")'
      BY DEF Sends
    <3> QED
      BY <1>3, <2>1, <3>1 DEF There, Importable
  <2> QED
    BY <2>2, <2>3, <2>4, <2>5
<1> QED
  BY <1>1, <1>3, <1>4, <1>5 DEF Phase, Shared

\* The hub closes a surface, and says so.
LEMMA HubCloses ==
  ASSUME SurfInv, NEW d \in SurfaceIds, Surfs!Has("hub", d),
         NEW m, m.type = "close", Sets("hub", d, NoSurface),
         \A l \in Leaves : Added(down[l], down'[l], m, d) /\ About(up'[l], d) \subseteq About(up[l], d)
  PROVE  Phase(d)'
<1>1. Shared(d)
  BY DEF SurfInv, Phase, Gone, Coming
<1>2. ~Surfs!Has("hub", d)'
  BY DEF Sets, Surfs!Has
<1>3. ASSUME NEW l \in Leaves PROVE ~Sends(l, d, "publish")' /\ EndsIn(down'[l], d, m)
  BY <1>1 DEF Shared, Sends, Added
<1> QED
  BY <1>2, <1>3 DEF Phase, Gone

LEMMA UpdateKeeps ==
  ASSUME SurfInv, NEW r \in Surfs!Relays, NEW d \in SurfaceIds, NEW t \in Titles,
         Surfs!UpdateAt(r, d, t)
  PROVE  SurfInv'
<1>1. SurfTypes /\ QueueTypes /\ TabsTrue(d)
  BY DEF SurfInv, SurfTypes, QueueTypes
<1>2. Surfs!Has(r, d) /\ labelled' = labelled /\ Surfs!ApplyUpdate(r, d, t)
  BY DEF Surfs!UpdateAt, Surfs!Edit
<1>3. PICK v \in Surfs!Surfaces :
         Sets(r, d, v) /\ v.node = surf[r][d].node /\ v.by = surf[r][d].by /\ v.title = t
  BY <1>1, <1>2, UpdateSets
<1>4. PICK m \in Surfs!Messages : m = Surfs!Update(d, t) /\ m.type = "update" /\ m.id = d /\ m.title = t
  BY SentIs, RelaysApart
<1>5. CASE r = "hub"
  <2>1. Surfs!Broadcast(m) /\ up' = up
    BY <1>4, <1>5 DEF Surfs!UpdateAt
  <2>2. SentDown(m)
    BY <1>1, <1>4, <2>1, BroadcastIs
  <2>3. ASSUME NEW l \in Leaves PROVE Added(down[l], down'[l], m, d)
    <3>1. Added(down[l], Append(down[l], m), m, d)
      BY <1>1, <1>4, AddedSo DEF QueueTypes
    <3> QED
      BY <2>2, <3>1 DEF SentDown
  <2>4. Queues(d)
    BY <1>1, <1>4, <2>1, <2>2, AlikeIs DEF Queues, QueueTypes, SentDown
  <2>5. Phase(d)'
    BY <1>2, <1>3, <1>4, <1>5, <2>1, <2>3, HubRenames
  <2> QED
    BY <1>2, <1>3, <2>4, <2>5, StepKeeps
<1>6. CASE r # "hub"
  <2>1. r \in Leaves
    BY <1>6, RelaysApart
  <2>2. m \in LeafMessages(r) /\ Surfs!SendUp(r, m)
    BY <1>4, <1>6 DEF LeafMessages, Surfs!UpdateAt
  <2>3. SentUp(r, d, m)
    BY <1>1, <1>4, <2>1, <2>2, SendUpIs
  <2>4. Added(up[r], up'[r], m, d)
    <3>1. Added(up[r], Append(up[r], m), m, d)
      BY <1>1, <1>4, <2>1, <2>2, AddedSo DEF QueueTypes
    <3> QED
      BY <2>3, <3>1 DEF SentUp
  <2>5. Phase(d)'
    BY <1>2, <1>3, <1>4, <2>1, <2>3, <2>4, LeafSends, SurfaceIs
  <2> QED
    BY <1>2, <1>3, <2>3, <2>5, StepKeeps DEF SentUp
<1> QED
  BY <1>5, <1>6

LEMMA CloseSurfaceKeeps ==
  ASSUME SurfInv, NEW r \in Surfs!Relays, NEW d \in SurfaceIds, Surfs!CloseAt(r, d)
  PROVE  SurfInv'
<1>1. SurfTypes /\ QueueTypes /\ TabsTrue(d)
  BY DEF SurfInv, SurfTypes, QueueTypes
<1>2. Surfs!Has(r, d) /\ labelled' = labelled /\ Surfs!Delete(r, d)
  BY DEF Surfs!CloseAt, Surfs!Edit
<1>3. Sets(r, d, NoSurface)
  BY <1>1, <1>2, DeleteSets
<1>4. PICK m \in Surfs!Messages : m = Surfs!Close(d) /\ m.type = "close" /\ m.id = d
  <2>1. PICK v \in Surfs!Surfaces : v = surf[r][d]
    BY <1>1, <1>2 DEF SurfTypes, SurfaceState, Surfs!Has
  <2>2. v.title \in Titles
    BY <2>1, SurfaceIs
  <2> QED
    BY <2>2, SentIs, RelaysApart
<1>5. CASE r = "hub"
  <2>1. Surfs!Broadcast(m) /\ up' = up
    BY <1>4, <1>5 DEF Surfs!CloseAt
  <2>2. SentDown(m)
    BY <1>1, <1>4, <2>1, BroadcastIs
  <2>3. ASSUME NEW l \in Leaves PROVE Added(down[l], down'[l], m, d)
    <3>1. Added(down[l], Append(down[l], m), m, d)
      BY <1>1, <1>4, AddedSo DEF QueueTypes
    <3> QED
      BY <2>2, <3>1 DEF SentDown
  <2>4. Queues(d)
    BY <1>1, <1>4, <2>1, <2>2, AlikeIs DEF Queues, QueueTypes, SentDown
  <2>5. Phase(d)'
    BY <1>2, <1>3, <1>4, <1>5, <2>1, <2>3, HubCloses
  <2> QED
    BY <1>2, <1>3, <2>4, <2>5, StepKeeps
<1>6. CASE r # "hub"
  <2>1. r \in Leaves
    BY <1>6, RelaysApart
  <2>2. m \in LeafMessages(r) /\ Surfs!SendUp(r, m)
    BY <1>4, <1>6 DEF LeafMessages, Surfs!CloseAt
  <2>3. SentUp(r, d, m)
    BY <1>1, <1>4, <2>1, <2>2, SendUpIs
  <2>4. Added(up[r], up'[r], m, d)
    <3>1. Added(up[r], Append(up[r], m), m, d)
      BY <1>1, <1>4, <2>1, <2>2, AddedSo DEF QueueTypes
    <3> QED
      BY <2>3, <3>1 DEF SentUp
  <2>5. Phase(d)'
    BY <1>2, <1>3, <1>4, <2>1, <2>3, <2>4, LeafSends
  <2> QED
    BY <1>2, <1>3, <2>3, <2>5, StepKeeps DEF SentUp
<1> QED
  BY <1>5, <1>6

-----------------------------------------------------------------------------
(* What a relay receives                                                   *)
LEMMA HubImportsKeeps ==
  ASSUME SurfInv, NEW l \in Leaves, NEW h, NEW d \in SurfaceIds, h.id = d, TakenUp(l, h),
         Taken(up[l], up'[l], h, d), h.type = "publish", Surfs!HubImports(h), labelled' = labelled
  PROVE  SurfInv'
<1>1. SurfTypes /\ QueueTypes /\ TabsTrue(d) /\ Phase(d)
  BY DEF SurfInv, SurfTypes, QueueTypes
<1>2. h.label = l /\ h.title \in Titles /\ down' = down
  BY MessageIs DEF TakenUp, LeafMessages, Surfs!HubImports
<1>3. About(up[l], d) = About(up'[l], d) \cup {h}
  BY DEF Taken
<1>4. Sends(l, d, "publish")
  BY <1>3 DEF Sends
<1>5. Coming(l, d)
  BY <1>1, <1>4 DEF Phase, Gone, Shared, Coming
<1>6. \A x \in About(up'[l], d) : x.type # "publish"
  BY <1>5 DEF Coming, Taken
<1>7. PICK v \in Surfs!Surfaces : Sets("hub", d, v) /\ v.node = l /\ v.title = h.title /\ v.by = "upstream"
  <2>1. /\ Surfs!Import("hub", d, l, h.title)
        /\ Surfs!SetTab("hub", {l, "__local__"}, d, Surfs!TitleAfter("hub", d, h.title))
    BY <1>2 DEF Surfs!HubImports
  <2>2. l \in Surfs!Nodes /\ "hub" \in Surfs!Relays /\ l \in {l, "__local__"}
    BY RelaysApart
  <2>3. ~Surfs!Has("hub", d)
    BY <1>5 DEF Coming
  <2>4. PICK ns : ns = {l, "__local__"}
    OBVIOUS
  <2>5. l \in ns /\ Surfs!SetTab("hub", ns, d, Surfs!TitleAfter("hub", d, h.title))
    BY <2>1, <2>4
  <2> QED
    BY <1>1, <1>2, <2>1, <2>2, <2>3, <2>5, ImportSets
<1>8. Queues(d)
  BY <1>1, <1>2, AlikeIs DEF TakenUp, Queues, QueueTypes
<1>9. /\ surf'["hub"][d] = v /\ v # NoSurface /\ surf'[l][d] = surf[l][d]
  BY <1>7, RelaysApart, SurfaceIs DEF Sets
<1>10. \A k \in Leaves : ~Sends(k, d, "publish")' /\ About(down'[k], d) = {}
  BY <1>2, <1>5, <1>6 DEF Coming, Sends, TakenUp
<1>11. Surfs!Sharers(d)' \subseteq {l}
  BY <1>7, <1>9, RelaysApart DEF Surfs!Sharers
<1>12. There(l, d)' /\ Agrees(l, d)'
  <2>1. Surfs!Has(l, d)' <=> Surfs!Has(l, d)
    BY <1>9 DEF Surfs!Has
  <2>2. CASE Sends(l, d, "close")
    <3>1. Sends(l, d, "close")'
      BY <1>3, <2>2 DEF Sends
    <3> QED
      BY <3>1 DEF There, Agrees, Sends
  <2>3. CASE Surfs!Has(l, d) /\ Sends(l, d, "update")
    <3>1. Sends(l, d, "update")'
      BY <1>3, <2>3 DEF Sends
    <3> QED
      BY <2>1, <2>3, <3>1 DEF There, Agrees, Sends
  <2>4. CASE Surfs!Has(l, d) /\ \E m \in About(up[l], d) : m.type = "publish" /\ m.title = surf[l][d].title
    <3>1. h.title = surf[l][d].title
      BY <1>3, <1>6, <2>4
    <3>2. surf'[l][d].title = surf'["hub"][d].title
      BY <1>7, <1>9, <3>1
    <3> QED
      BY <1>10, <2>1, <2>4, <3>2 DEF There, Agrees
  <2> QED
    BY <1>5, <2>2, <2>3, <2>4 DEF Coming
<1>13. Phase(d)'
  BY <1>9, <1>10, <1>11, <1>12 DEF Phase, Shared, Surfs!Has
<1> QED
  BY <1>7, <1>8, <1>13, StepKeeps, RelaysApart

LEMMA HubIgnoresKeeps ==
  ASSUME SurfInv, NEW l \in Leaves, NEW h, NEW d \in SurfaceIds, h.id = d, TakenUp(l, h),
         Taken(up[l], up'[l], h, d), h.type # "publish", ~Surfs!Has("hub", d),
         UNCHANGED <<surf, tabs, down>>, labelled' = labelled
  PROVE  SurfInv'
<1>1. SurfTypes /\ QueueTypes /\ TabsTrue(d) /\ Phase(d)
  BY DEF SurfInv, SurfTypes, QueueTypes
<1>2. Queues(d)
  BY <1>1, AlikeIs DEF TakenUp, Queues, QueueTypes
<1>3. Sets("hub", d, surf["hub"][d])
  BY <1>1, SameSets, RelaysApart
<1>4. ASSUME NEW k \in Leaves PROVE Sends(k, d, "publish")' => Sends(k, d, "publish")
  <2>1. About(up'[k], d) \subseteq About(up[k], d)
    BY DEF Taken, TakenUp
  <2> QED
    BY <2>1 DEF Sends
<1>5. ASSUME Gone(d) PROVE Gone(d)'
  BY <1>4, <1>5 DEF Gone, Surfs!Has
<1>6. ASSUME NEW k \in Leaves, Coming(k, d) PROVE Coming(k, d)'
  <2>1. k # l
    BY <1>6 DEF Coming, Taken
  <2>2. up'[k] = up[k]
    BY <2>1 DEF TakenUp
  <2>3. \A type : Sends(k, d, type)' <=> Sends(k, d, type)
    BY <2>2 DEF Sends
  <2>4. Surfs!Has(k, d)' <=> Surfs!Has(k, d)
    BY DEF Surfs!Has
  <2>5. ~Surfs!Has("hub", d)' /\ ComesFirst(up'[k], d)
    BY <1>6, <2>2 DEF Coming, Surfs!Has
  <2>6. \A j \in Leaves : About(down'[j], d) = {} /\ (j # k => ~Sends(j, d, "publish")')
    BY <1>4, <1>6 DEF Coming
  <2>7. \/ Sends(k, d, "close")'
        \/ /\ Surfs!Has(k, d)'
           /\ \/ Sends(k, d, "update")'
              \/ \E m \in About(up'[k], d) : m.type = "publish" /\ m.title = surf'[k][d].title
    BY <1>6, <2>2, <2>3, <2>4 DEF Coming
  <2> QED
    BY <2>5, <2>6, <2>7 DEF Coming
<1>7. Phase(d)'
  BY <1>1, <1>5, <1>6 DEF Phase, Shared
<1> QED
  BY <1>2, <1>3, <1>7, StepKeeps, RelaysApart

LEMMA HubReceivesKeeps ==
  ASSUME SurfInv, NEW l \in Leaves, Surfs!HubReceives(l)
  PROVE  SurfInv'
<1>1. SurfTypes /\ QueueTypes
  BY DEF SurfInv, SurfTypes, QueueTypes
<1>2. up[l] # <<>> /\ up' = [up EXCEPT ![l] = Tail(up[l])] /\ labelled' = labelled
  BY DEF Surfs!HubReceives
<1>3. PICK h : h = Head(up[l])
  OBVIOUS
<1>4. TakenUp(l, h)
  BY <1>1, <1>2, <1>3, HubTakesIs
<1>5. h \in Surfs!Messages /\ h.id \in SurfaceIds /\ h.type \in {"publish", "update", "close"}
  BY <1>4, MessageIs DEF TakenUp
<1>6. PICK d \in SurfaceIds : d = h.id
  BY <1>5
<1>7. Taken(up[l], up'[l], h, d)
  <2>1. Taken(up[l], Tail(up[l]), Head(up[l]), d)
    BY <1>1, <1>2, <1>3, <1>6, TakenSo DEF QueueTypes
  <2> QED
    BY <1>3, <1>4, <2>1 DEF TakenUp
<1>8. /\ TabsTrue(d) /\ "hub" \in Surfs!Relays
  BY RelaysApart DEF SurfInv
<1>9. CASE h.type = "publish"
  <2>1. Surfs!HubImports(h)
    BY <1>3, <1>9 DEF Surfs!HubReceives
  <2> QED
    BY <1>2, <1>4, <1>6, <1>7, <1>9, <2>1, HubImportsKeeps
<1>10. CASE h.type # "publish" /\ ~Surfs!Has("hub", d)
  <2>1. UNCHANGED <<surf, tabs, down>>
    BY <1>3, <1>6, <1>10 DEF Surfs!HubReceives
  <2> QED
    BY <1>2, <1>4, <1>6, <1>7, <1>10, <2>1, HubIgnoresKeeps
<1>11. ASSUME Surfs!Broadcast(h)
       PROVE  /\ Queues(d) /\ \A k \in Leaves : Added(down[k], down'[k], h, d)
              /\ \A k \in Leaves : /\ About(up'[k], d) \subseteq About(up[k], d)
                                   /\ About(up[k], d) \subseteq About(up'[k], d) \cup {h}
  <2>1. SentDown(h)
    BY <1>1, <1>5, <1>11, BroadcastIs
  <2>2. Queues(d)
    BY <1>4, <1>6, <2>1 DEF Queues, QueueTypes, SentDown, TakenUp
  <2>3. ASSUME NEW k \in Leaves PROVE Added(down[k], down'[k], h, d)
    <3>1. Added(down[k], Append(down[k], h), h, d)
      BY <1>1, <1>5, <1>6, AddedSo DEF QueueTypes
    <3> QED
      BY <2>1, <3>1 DEF SentDown
  <2>4. ASSUME NEW k \in Leaves
        PROVE  /\ About(up'[k], d) \subseteq About(up[k], d)
               /\ About(up[k], d) \subseteq About(up'[k], d) \cup {h}
    BY <1>4, <1>7 DEF Taken, TakenUp
  <2> QED
    BY <2>2, <2>3, <2>4
<1>12. CASE h.type = "update" /\ Surfs!Has("hub", d)
  <2>1. Surfs!ApplyUpdate("hub", d, h.title) /\ Surfs!Broadcast(h)
    BY <1>3, <1>6, <1>12 DEF Surfs!HubReceives, Surfs!Relay
  <2>2. h.title \in Titles
    BY <1>5, <1>12, MessageIs
  <2>3. PICK v \in Surfs!Surfaces :
           /\ Sets("hub", d, v) /\ v.node = surf["hub"][d].node /\ v.by = surf["hub"][d].by
           /\ v.title = h.title
    BY <1>1, <1>8, <1>12, <2>1, <2>2, UpdateSets
  <2>4. Phase(d)'
    BY <1>2, <1>11, <1>12, <2>1, <2>3, HubRenames
  <2> QED
    BY <1>2, <1>8, <1>11, <2>1, <2>3, <2>4, StepKeeps
<1>13. CASE h.type = "close" /\ Surfs!Has("hub", d)
  <2>1. Surfs!Delete("hub", d) /\ Surfs!Broadcast(h)
    BY <1>3, <1>6, <1>13 DEF Surfs!HubReceives, Surfs!Relay
  <2>2. Sets("hub", d, NoSurface)
    BY <1>1, <1>8, <2>1, DeleteSets
  <2>3. Phase(d)'
    BY <1>2, <1>11, <1>13, <2>1, <2>2, HubCloses
  <2> QED
    BY <1>2, <1>8, <1>11, <2>1, <2>2, <2>3, StepKeeps
<1> QED
  BY <1>5, <1>9, <1>10, <1>12, <1>13

\* A leaf does what the hub tells it.
LEMMA LeafActs ==
  ASSUME SurfInv, NEW l \in Leaves, NEW d \in SurfaceIds, NEW h, TakenDown(l, h),
         Taken(down[l], down'[l], h, d), NEW v, Sets(l, d, v), up' = up, labelled' = labelled,
         h.type = "close" => v = NoSurface,
         h.type # "close" /\ Surfs!Has(l, d) => v # NoSurface,
         h.type = "publish" /\ Importable(l, h) => v # NoSurface,
         h.type = "update" => v = NoSurface \/ v.title = h.title,
         h.type = "publish" => v = surf[l][d] \/ v.title = h.title,
         h.type \in {"publish", "update", "close"}
  PROVE  Phase(d)'
<1>1. /\ \A k \in Leaves : k # l => down'[k] = down[k]
      /\ About(down[l], d) = About(down'[l], d) \cup {h}
      /\ \A x : EndsIn(down[l], d, x) => EndsIn(down'[l], d, x) \/ (About(down'[l], d) = {} /\ x = h)
  BY DEF TakenDown, Taken
<1>2. /\ surf'["hub"][d] = surf["hub"][d] /\ surf'[l][d] = v
      /\ \A k \in Leaves : k # l => surf'[k][d] = surf[k][d]
  BY RelaysApart DEF Sets
<1>3. \A k \in Leaves : \A type : Sends(k, d, type)' <=> Sends(k, d, type)
  BY DEF Sends
<1>4. /\ Surfs!Has("hub", d)' <=> Surfs!Has("hub", d)
      /\ Surfs!Has(l, d)' <=> v # NoSurface
      /\ \A k \in Leaves : k # l => (Surfs!Has(k, d)' <=> Surfs!Has(k, d))
  BY <1>2 DEF Surfs!Has
<1>5. CASE Gone(d)
  <2>1. ASSUME NEW k \in Leaves
        PROVE  \/ About(down'[k], d) = {} /\ ~Surfs!Has(k, d)'
               \/ \E x : EndsIn(down'[k], d, x) /\ x.type = "close"
    <3>1. CASE k = l
      <4>1. PICK x : EndsIn(down[l], d, x) /\ x.type = "close"
        BY <1>1, <1>5 DEF Gone
      <4>2. EndsIn(down'[l], d, x) \/ (About(down'[l], d) = {} /\ x = h)
        BY <1>1, <4>1
      <4> QED
        BY <1>4, <3>1, <4>1, <4>2
    <3>2. CASE k # l
      BY <1>1, <1>4, <1>5, <3>2 DEF Gone
    <3> QED
      BY <3>1, <3>2
  <2> QED
    BY <1>3, <1>4, <1>5, <2>1 DEF Gone, Phase
<1>6. ~(\E k \in Leaves : Coming(k, d))
  BY <1>1 DEF Coming
<1>7. CASE Shared(d)
  <2>1. h.type # "close" /\ \A k \in Leaves : \A x \in About(down'[k], d) : x.type # "close"
    BY <1>1, <1>7 DEF Shared
  <2>2. Surfs!Sharers(d)' = Surfs!Sharers(d)
    BY <1>2 DEF Surfs!Sharers
  <2>3. ASSUME NEW k \in Leaves, k # l PROVE (There(k, d) => There(k, d)') /\ (Agrees(k, d) => Agrees(k, d)')
    <3>1. surf'[k][d] = surf[k][d] /\ down'[k] = down[k]
      BY <1>1, <1>2, <2>3
    <3>2. There(k, d) => There(k, d)'
      BY <1>3, <3>1 DEF There, Importable, Surfs!Has
    <3>3. Agrees(k, d) => Agrees(k, d)'
      BY <1>2, <3>1 DEF Agrees, Surfs!Has
    <3> QED
      BY <3>2, <3>3
  <2>4. ASSUME There(l, d) PROVE There(l, d)'
    BY <1>1, <1>3, <1>4, <2>1, <2>4 DEF There, Importable
  <2>5. ASSUME Agrees(l, d) PROVE Agrees(l, d)'
    <3>1. CASE About(up[l], d) # {}
      BY <3>1 DEF Agrees
    <3>2. ASSUME NEW x, EndsIn(down[l], d, x), x.type = "update", x.title = surf["hub"][d].title
          PROVE  Agrees(l, d)'
      <4>1. CASE EndsIn(down'[l], d, x)
        BY <1>2, <3>2, <4>1 DEF Agrees
      <4>2. CASE About(down'[l], d) = {} /\ x = h
        BY <1>2, <1>4, <3>2, <4>2 DEF Agrees
      <4> QED
        BY <1>1, <3>2, <4>1, <4>2
    <3>3. ASSUME \A x \in About(down[l], d) : x.title = surf["hub"][d].title,
                 Surfs!Has(l, d) => surf[l][d].title = surf["hub"][d].title
          PROVE  Agrees(l, d)'
      <4>1. h.title = surf["hub"][d].title
        BY <1>1, <3>3
      <4>2. v # NoSurface => v.title = surf["hub"][d].title
        BY <2>1, <3>3, <4>1 DEF Surfs!Has
      <4> QED
        BY <1>1, <1>2, <1>4, <3>3, <4>2 DEF Agrees
    <3> QED
      BY <2>5, <3>1, <3>2, <3>3 DEF Agrees
  <2> QED
    BY <1>3, <1>4, <1>7, <2>1, <2>2, <2>3, <2>4, <2>5 DEF Shared, Phase
<1> QED
  BY <1>5, <1>6, <1>7 DEF SurfInv, Phase

LEMMA LeafReceivesKeeps ==
  ASSUME SurfInv, NEW l \in Leaves, Surfs!LeafReceives(l)
  PROVE  SurfInv'
<1>1. SurfTypes /\ QueueTypes
  BY DEF SurfInv, SurfTypes, QueueTypes
<1>2. down[l] # <<>> /\ down' = [down EXCEPT ![l] = Tail(down[l])] /\ labelled' = labelled /\ up' = up
  BY DEF Surfs!LeafReceives
<1>3. PICK h : h = Head(down[l])
  OBVIOUS
<1>4. TakenDown(l, h)
  BY <1>1, <1>2, <1>3, LeafTakesIs
<1>5. h \in Surfs!Messages /\ h.id \in SurfaceIds /\ h.type \in {"publish", "update", "close"}
      /\ (h.type # "close" => h.title \in Titles)
  BY <1>4, MessageIs DEF TakenDown
<1>6. PICK d \in SurfaceIds : d = h.id
  BY <1>5
<1>7. Taken(down[l], down'[l], h, d) /\ Queues(d)
  <2>1. Taken(down[l], Tail(down[l]), Head(down[l]), d)
    BY <1>1, <1>2, <1>3, <1>6, TakenSo DEF QueueTypes
  <2> QED
    BY <1>3, <1>4, <1>6, <2>1 DEF TakenDown
<1>8. TabsTrue(d) /\ l \in Surfs!Relays
  BY RelaysApart DEF SurfInv
<1>9. ASSUME NEW v, Sets(l, d, v),
             h.type = "close" => v = NoSurface,
             h.type # "close" /\ Surfs!Has(l, d) => v # NoSurface,
             h.type = "publish" /\ Importable(l, h) => v # NoSurface,
             h.type = "update" => v = NoSurface \/ v.title = h.title,
             h.type = "publish" => v = surf[l][d] \/ v.title = h.title
      PROVE  SurfInv'
  <2>1. Phase(d)'
    BY <1>2, <1>4, <1>5, <1>7, <1>9, LeafActs
  <2> QED
    BY <1>2, <1>7, <1>8, <1>9, <2>1, StepKeeps
<1>10. ASSUME NEW n \in Surfs!Nodes, NEW ns, n \in ns, h.type = "publish", Surfs!Import(l, d, n, h.title),
              Surfs!SetTab(l, ns, d, Surfs!TitleAfter(l, d, h.title))
       PROVE  SurfInv'
  <2>1. PICK v \in Surfs!Surfaces :
           /\ Sets(l, d, v)
           /\ Surfs!Has(l, d) => v = surf[l][d]
           /\ ~Surfs!Has(l, d) => v.title = h.title
    BY <1>1, <1>5, <1>8, <1>10, ImportSets
  <2> QED
    BY <1>9, <1>10, <2>1, SurfaceIs
<1>11. CASE h.type = "publish"
  <2>1. Surfs!LeafImports(l, h)
    BY <1>3, <1>11 DEF Surfs!LeafReceives
  <2>2. CASE /\ Surfs!Import(l, d, "__local__", h.title)
             /\ Surfs!SetTab(l, {"__local__"}, d, Surfs!TitleAfter(l, d, h.title))
    <3>1. PICK ns : ns = {"__local__"}
      OBVIOUS
    <3> QED
      BY <1>10, <1>11, <2>2, <3>1, RelaysApart
  <2>3. CASE /\ Surfs!Import(l, d, "inst", h.title)
             /\ Surfs!SetTab(l, {"inst", "__local__"}, d, Surfs!TitleAfter(l, d, h.title))
    <3>1. PICK ns : ns = {"inst", "__local__"}
      OBVIOUS
    <3> QED
      BY <1>10, <1>11, <2>3, <3>1, RelaysApart
  <2>4. CASE ~Importable(l, h) /\ UNCHANGED <<surf, tabs>>
    <3>1. Sets(l, d, surf[l][d])
      BY <1>1, <1>8, <2>4, SameSets
    <3> QED
      BY <1>9, <1>11, <2>4, <3>1 DEF Surfs!Has
  <2> QED
    BY <1>6, <2>1, <2>2, <2>3, <2>4 DEF Surfs!LeafImports, Importable
<1>12. CASE h.type = "close"
  <2>1. Surfs!Delete(l, d)
    BY <1>3, <1>6, <1>12 DEF Surfs!LeafReceives
  <2>2. Sets(l, d, NoSurface)
    BY <1>1, <1>8, <2>1, DeleteSets
  <2> QED
    BY <1>9, <1>12, <2>2
<1>13. CASE h.type = "update" /\ ~Surfs!Has(l, d)
  <2>1. UNCHANGED <<surf, tabs>>
    BY <1>3, <1>6, <1>13 DEF Surfs!LeafReceives
  <2>2. Sets(l, d, surf[l][d])
    BY <1>1, <1>8, <2>1, SameSets
  <2> QED
    BY <1>9, <1>13, <2>2 DEF Surfs!Has
<1>14. CASE h.type = "update" /\ Surfs!Has(l, d)
  <2>1. Surfs!Rename(l, d, h.title) /\ Surfs!SetTab(l, {surf[l][d].node}, d, h.title)
    BY <1>3, <1>6, <1>14 DEF Surfs!LeafReceives
  <2>2. PICK ns : ns = {surf[l][d].node}
    OBVIOUS
  <2>3. PICK v \in Surfs!Surfaces : Sets(l, d, v) /\ v.title = h.title
    BY <1>1, <1>5, <1>8, <1>14, <2>1, <2>2, RenameSets
  <2> QED
    BY <1>9, <1>14, <2>3, SurfaceIs
<1> QED
  BY <1>5, <1>11, <1>12, <1>13, <1>14

LEMMA SurfStepKeeps == SurfInv /\ Surfs!SurfNext => SurfInv'
BY PublishHubKeeps, PublishLeafKeeps, UpdateKeeps, CloseSurfaceKeeps, HubReceivesKeeps, LeafReceivesKeeps
   DEF Surfs!SurfNext

LEMMA SurfInvAgrees == SurfInv => Surfs!RelaysAgree
<1> SUFFICES ASSUME SurfInv, Surfs!Quiet
             PROVE  Surfs!RelaysAgree
  BY DEF Surfs!RelaysAgree
<1>1. ASSUME NEW d \in SurfaceIds, NEW l \in Leaves
      PROVE  /\ About(up[l], d) = {} /\ About(down[l], d) = {} /\ ~ComesFirst(up[l], d)
             /\ \A m : ~EndsIn(down[l], d, m)
  BY NothingAbout DEF Surfs!Quiet
<1>2. ASSUME NEW d \in SurfaceIds PROVE \A l \in Leaves : ~Coming(l, d)
  BY <1>1 DEF Coming
<1>3. ASSUME NEW d \in SurfaceIds, NEW l \in Leaves, Surfs!Has(l, d) PROVE Surfs!Has("hub", d)
  BY <1>1, <1>2, <1>3 DEF SurfInv, Phase, Gone, Shared
<1>4. ASSUME NEW d \in SurfaceIds, Surfs!Has("hub", d), NEW l \in Surfs!Sharers(d)
      PROVE  Surfs!Has(l, d) /\ surf[l][d].title = surf["hub"][d].title
  <2>1. Shared(d)
    BY <1>2, <1>4 DEF SurfInv, Phase, Gone
  <2>2. l \in Leaves /\ There(l, d) /\ Agrees(l, d)
    BY <2>1 DEF Shared
  <2> QED
    BY <1>1, <2>2 DEF There, Agrees, Sends
<1>5. ASSUME NEW r \in Surfs!Relays, NEW d \in SurfaceIds
      PROVE  IF Surfs!Has(r, d) THEN tabs[r][surf[r][d].node][d] = surf[r][d].title
                                ELSE Surfs!TabsOf(r, d, Surfs!Nodes) = {}
  BY DEF SurfInv, TabsTrue, TabsTrueAt, Surfs!TabsOf
<1> QED
  BY <1>3, <1>4, <1>5 DEF Surfs!RelaysAgree

LEMMA SurfsStayAll ==
  ASSUME SurfInv, UNCHANGED surfVars
  PROVE  SurfInv'
<1>1. surf' = surf /\ tabs' = tabs /\ labelled' = labelled /\ up' = up /\ down' = down
  BY DEF surfVars
<1>2. ASSUME NEW d \in SurfaceIds PROVE TabsTrue(d)' /\ Phase(d)'
  <2>1. Untouched(d)
    BY <1>1 DEF Untouched
  <2>2. \A l \in Leaves : Alike(up[l], up'[l], d) /\ Alike(down[l], down'[l], d)
    BY <1>1, AlikeIs
  <2>3. Phase(d)'
    BY <1>1, <2>1, <2>2, PhaseStays DEF SurfInv
  <2> QED
    BY <1>1, <2>3 DEF SurfInv, TabsTrue, TabsTrueAt, Surfs!Has
<1> QED
  BY <1>1, <1>2 DEF SurfInv, SurfTypes

\* Once every message has arrived, the relays that share a surface agree on it
\* and its title, whoever renamed or closed it meanwhile, and everywhere a surface
\* has its tab: for any number of leaf relays, surfaces, titles and edits
\* (relay-server.ts:3484-4098).
THEOREM RelaysAgreeCorrect == Spec => [](subject = "surfaces" => RelaysAgree)
<1>1. Init => SurfInv
  BY SurfStarts DEF Init
<1>2. SurfInv /\ [Next]_allVars => SurfInv'
  <2> SUFFICES ASSUME SurfInv, [Next]_allVars PROVE SurfInv'
    OBVIOUS
  <2>1. CASE SurfacesStep
    BY <2>1, SurfStepKeeps DEF SurfacesStep
  <2>2. CASE UNCHANGED surfVars
    BY <2>2, SurfsStayAll
  <2>3. Next => SurfacesStep \/ UNCHANGED surfVars
    BY DEF Next, StateStep, ShellsStep, SessionsStep, ExtensionsStep, PagesStep, OutputStep, NodesStep
  <2> QED
    BY <2>1, <2>2, <2>3 DEF allVars
<1>3. SurfInv => (subject = "surfaces" => RelaysAgree)
  BY SurfInvAgrees DEF RelaysAgree
<1> QED
  BY <1>1, <1>2, <1>3, PTL DEF Spec
=============================================================================
