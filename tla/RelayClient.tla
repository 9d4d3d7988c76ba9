------------------------------ MODULE RelayClient ------------------------------
(***************************************************************************)
(* The browser's client of the archived relay (lib/ws-client.ts and        *)
(* lib/use-ws.ts): its socket, the hello with its key exchange, and the    *)
(* list of instances it keeps from what the relay sends.                   *)
(*                                                                         *)
(* Messages arrive in order.  With a key each is decrypted asynchronously, *)
(* and the one that is decrypted first is handled first; all that a socket *)
(* delivered is handled before the next socket opens, which is at least    *)
(* 500 ms later (ws-client.ts:366).  Which instance is active is left out. *)
(***************************************************************************)
EXTENDS Naturals, Sequences

CONSTANTS
  MaxIds,     \* bound: instances the relay ever has
  MaxLosses   \* bound: sockets that are lost

Ids == 1..MaxIds

VARIABLES
  insts, created,  \* at the relay: its instances, and how many there ever were
  sealed,          \* the relay encrypts what it sends to the socket
  crypto,          \* the browser can make a key
  sock,            \* "waiting" for the retry timer, "connecting" or "open"
  hello,           \* on this socket: "none", "sent" or "taken"
  keyed,           \* _crypto.isEstablished
  wire,            \* from the relay
  handling,        \* messages that wait for decrypt() or handshake()
  list,            \* instances
  status,          \* connStatus
  post, made,      \* POST in flight, and the instance it made
  delete, removing,  \* DELETE in flight, and what it is for
  losses,
  doubtful         \* the list may differ until the next welcome (history)

clientVars == <<sock, hello, keyed, handling, list, status>>
httpVars == <<post, made, delete, removing>>
relayClientVars == <<insts, created, sealed, wire, losses, doubtful, crypto, clientVars, httpVars>>

CallStates == {"none", "sent", "answered"}
NoId == 0

Message(type, ids) == [type |-> type, ids |-> ids, sealed |-> sealed]

\* broadcastToBrowsers: every socket that has connected is a browser's.
Sent(m) == IF sock = "open" THEN Append(wire, m) ELSE wire

ClientInit ==
  /\ insts = {1} /\ created = 1 /\ sealed = FALSE /\ crypto \in BOOLEAN
  /\ sock = "connecting" /\ hello = "none" /\ keyed = FALSE /\ wire = <<>> /\ handling = {}
  /\ list = {} /\ status = "connecting"
  /\ post = "none" /\ made = NoId /\ delete = "none" /\ removing = NoId
  /\ losses = 0 /\ doubtful = FALSE

-----------------------------------------------------------------------------
(* The relay *)

Creates == created < MaxIds /\ created' = created + 1 /\ insts' = insts \cup {created'}

\* An agent registers, or another browser creates an instance.
RelayAdds ==
  /\ Creates /\ wire' = Sent(Message("added", {created'}))
  /\ UNCHANGED <<sealed, losses, doubtful, crypto, clientVars, httpVars>>

\* An instance made for a shell is announced as a shell, to whom asked for it.
ShellSpawned ==
  /\ Creates /\ doubtful' = TRUE
  /\ UNCHANGED <<sealed, wire, losses, crypto, clientVars, httpVars>>

RelayRemoves(i) ==
  /\ i \in insts /\ insts' = insts \ {i} /\ wire' = Sent(Message("removed", {i}))
  /\ UNCHANGED <<created, sealed, losses, doubtful, crypto, clientVars, httpVars>>

\* The hello is taken: the welcome goes out in plain text, all else is
\* encrypted from then on.
TakesHello ==
  /\ sock = "open" /\ hello = "sent" /\ hello' = "taken"
  /\ wire' = Append(wire, Message("welcome", insts)) /\ sealed' = crypto /\ doubtful' = FALSE
  /\ UNCHANGED <<insts, created, losses, crypto, sock, keyed, handling, list, status, httpVars>>

TakesPost ==
  /\ post = "sent" /\ Creates /\ post' = "answered" /\ made' = created'
  /\ wire' = Sent(Message("added", {made'}))
  /\ UNCHANGED <<sealed, losses, doubtful, crypto, clientVars, delete, removing>>

\* An instance that is gone is answered with 404.
TakesDelete ==
  /\ delete = "sent" /\ delete' = "none" /\ removing' = NoId
  /\ insts' = insts \ {removing}
  /\ wire' = IF removing \in insts THEN Sent(Message("removed", {removing})) ELSE wire
  /\ UNCHANGED <<created, sealed, losses, doubtful, crypto, clientVars, post, made>>

-----------------------------------------------------------------------------
(* The client *)

Opens ==
  /\ sock = "connecting" /\ sock' = "open"
  /\ UNCHANGED <<insts, created, sealed, wire, losses, doubtful, crypto, hello, keyed, handling, list,
                 status, httpVars>>

\* onopen goes on after createCryptoSession.
Hello ==
  /\ sock = "open" /\ hello = "none" /\ handling = {} /\ hello' = "sent" /\ keyed' = FALSE
  /\ UNCHANGED <<insts, created, sealed, wire, losses, doubtful, crypto, sock, handling, list, status,
                 httpVars>>

\* Mutant: a welcome adds to the list.
ListedToo(ids) == list \cup ids

Listed(ids) == ids

Handle(m) ==
  /\ list' = CASE m.type = "welcome" -> Listed(m.ids)
               [] m.type = "added" -> list \cup m.ids
               [] m.type = "removed" -> list \ m.ids
  /\ status' = IF m.type = "welcome" THEN "connected" ELSE status

\* onmessage: what is encrypted cannot be read before the handshake is done.
Receive ==
  /\ wire # <<>> /\ wire' = Tail(wire)
  /\ LET m == Head(wire)
         waits == keyed \/ (m.type = "welcome" /\ crypto)
     IN /\ handling' = IF waits THEN handling \cup {m} ELSE handling
        /\ IF waits \/ m.sealed THEN UNCHANGED <<list, status>> ELSE Handle(m)
        /\ doubtful' = (doubtful \/ (~waits /\ m.sealed))
  /\ UNCHANGED <<insts, created, sealed, losses, crypto, sock, hello, keyed, httpVars>>

\* decrypt() or handshake() resolves.
Resolves(m) ==
  /\ handling' = handling \ {m} /\ Handle(m)
  /\ keyed' = (keyed \/ m.type = "welcome")
  /\ doubtful' = (doubtful \/ \E n \in handling \ {m} : n.type = "added" /\ n.ids = m.ids)
  /\ UNCHANGED <<insts, created, sealed, wire, losses, crypto, sock, hello, httpVars>>

\* onclose, also of a socket that never opened.
Closes ==
  /\ sock # "waiting" /\ losses < MaxLosses /\ losses' = losses + 1
  /\ sock' = "waiting" /\ hello' = "none" /\ status' = "disconnected" /\ wire' = <<>> /\ sealed' = FALSE
  /\ UNCHANGED <<insts, created, doubtful, crypto, keyed, handling, list, httpVars>>

Retry ==
  /\ sock = "waiting" /\ handling = {} /\ sock' = "connecting"
  /\ UNCHANGED <<insts, created, sealed, wire, losses, doubtful, crypto, hello, keyed, handling, list,
                 status, httpVars>>

CreateInstance ==
  /\ post = "none" /\ created < MaxIds /\ post' = "sent"
  /\ UNCHANGED <<insts, created, sealed, wire, losses, doubtful, crypto, clientVars, made, delete,
                 removing>>

\* The answer to POST: its instance may have been removed again.
PostAnswered ==
  /\ post = "answered" /\ post' = "none" /\ made' = NoId /\ list' = list \cup {made}
  /\ doubtful' = (doubtful \/ made \notin insts)
  /\ UNCHANGED <<insts, created, sealed, wire, losses, crypto, sock, hello, keyed, handling, status,
                 delete, removing>>

\* killInstance takes it off the list at once.
KillInstance(i) ==
  /\ delete = "none" /\ i \in list /\ delete' = "sent" /\ removing' = i /\ list' = list \ {i}
  /\ UNCHANGED <<insts, created, sealed, wire, losses, doubtful, crypto, sock, hello, keyed, handling,
                 status, post, made>>

\* POST or DELETE fails before the relay took it.
PostFails ==
  /\ post = "sent" /\ post' = "none"
  /\ UNCHANGED <<insts, created, sealed, wire, losses, doubtful, crypto, clientVars, made, delete,
                 removing>>

DeleteFails ==
  /\ delete = "sent" /\ delete' = "none" /\ removing' = NoId /\ doubtful' = TRUE
  /\ UNCHANGED <<insts, created, sealed, wire, losses, crypto, clientVars, post, made>>

ClientNext ==
  \/ RelayAdds \/ ShellSpawned \/ TakesHello \/ TakesPost \/ TakesDelete
  \/ Opens \/ Hello \/ Receive \/ Closes \/ Retry
  \/ CreateInstance \/ PostAnswered \/ PostFails \/ DeleteFails
  \/ \E i \in Ids : RelayRemoves(i) \/ KillInstance(i)
  \/ \E m \in handling : Resolves(m)

-----------------------------------------------------------------------------
\* A page that has handled what the relay sent lists the instances the relay
\* has, unless a message came during the handshake or overtook another, an
\* answer to POST came after the removal, or a DELETE failed, and then until
\* the next welcome (use-ws.ts:184, 263, 280).
InstancesAgree ==
  /\ sock = "open" /\ hello = "taken" /\ wire = <<>> /\ handling = {}
  /\ post = "none" /\ delete = "none" /\ ~doubtful
  => list = insts /\ status = "connected"

\* Once no more sockets are lost the page is connected (ws-client.ts:374).
ClientRecovers == <>[](sock = "open" /\ status = "connected")
=============================================================================
