--------------------------------- MODULE Peers ---------------------------------
(***************************************************************************)
(* The handlers that serve the messages of a socket by a ServerPeer of its  *)
(* own: server/src/adapters/websocket/handler.ts, which loads Blobs one by   *)
(* one, crossws/handler.ts and message-port/handler.ts, which get loaded     *)
(* messages.  The first message makes the peer, and the close of the socket  *)
(* closes it, which aborts the requests it serves.                          *)
(*                                                                         *)
(* `sequential` and ServerPeer are external: the one starts a call when the *)
(* one before it is over, the other is closed or serves what it gets.       *)
(***************************************************************************)
EXTENDS Integers, Sequences, SequencesExt

CONSTANTS MaxMessages   \* bound: messages of the socket

VARIABLES
  adapter,   \* "websocket", "crossws" or "message-port"
  isOpen,    \* the socket is open
  inbox,     \* messages that wait in sequential: [id, isBlob]
  arrived,   \* how many have arrived
  peers,     \* the peers that were made: whether open, and the messages each got
  current,   \* this.peers.get(ws), 0 without one
  closing,   \* the peers whose close is awaited
  late       \* history: a Blob was loading when the socket closed

peerVars == <<adapter, isOpen, inbox, arrived, peers, current, closing, late>>

PeersInit ==
  /\ adapter \in {"websocket", "crossws", "message-port"}
  /\ isOpen = TRUE
  /\ inbox = <<>> /\ arrived = 0
  /\ peers = <<>> /\ current = 0
  /\ closing = {} /\ late = FALSE

\* message(ws, data): the peer of the socket, or a new one, gets it.
Handle(id) ==
  IF current = 0
  THEN /\ peers' = Append(peers, [isOpen |-> TRUE, got |-> <<id>>])
       /\ current' = Len(peers')
  ELSE /\ peers' = [peers EXCEPT ![current].got = Append(@, id)]
       /\ UNCHANGED current

\* Mutant of MustWait: a message that is loaded overtakes.
MustWaitForItself(isBlob) == isBlob

\* sequential: a message waits for its Blob, and for those before it.
MustWait(isBlob) == isBlob \/ inbox # <<>>

\* A message event; only a browser's WebSocket gives Blobs.
Arrive(isBlob) ==
  /\ isOpen /\ arrived < MaxMessages
  /\ isBlob => adapter = "websocket"
  /\ arrived' = arrived + 1
  /\ IF MustWait(isBlob)
     THEN inbox' = Append(inbox, [id |-> arrived', isBlob |-> isBlob]) /\ UNCHANGED <<peers, current>>
     ELSE Handle(arrived') /\ UNCHANGED inbox
  /\ UNCHANGED <<adapter, isOpen, closing, late>>

\* The first of those that wait has its data: this.message, which is not awaited.
BlobLoads ==
  /\ inbox # <<>>
  /\ Handle(Head(inbox).id)
  /\ inbox' = Tail(inbox)
  /\ UNCHANGED <<adapter, isOpen, arrived, closing, late>>

\* Mutant of CloseCurrent: the entry of the socket is deleted, and that is all.
CloseNobody == UNCHANGED <<peers, closing>>

\* close of the peer of the socket, which aborts what it serves at once.
CloseCurrent ==
  /\ peers' = [peers EXCEPT ![current].isOpen = FALSE]
  /\ closing' = closing \cup {current}

\* The close event: close(ws), which deletes the entry before, or after.
SocketCloses ==
  /\ isOpen
  /\ isOpen' = FALSE
  /\ late' = (inbox # <<>>)
  /\ IF current = 0 THEN UNCHANGED <<peers, closing, current>>
     ELSE CloseCurrent /\ current' = IF adapter = "crossws" THEN current ELSE 0
  /\ UNCHANGED <<adapter, inbox, arrived>>

\* The promise of close resolves.
Closed(p) ==
  /\ p \in closing
  /\ closing' = closing \ {p}
  /\ current' = IF adapter = "crossws" THEN 0 ELSE current
  /\ UNCHANGED <<adapter, isOpen, inbox, arrived, peers, late>>

PeersNext ==
  \/ \E isBlob \in BOOLEAN : Arrive(isBlob)
  \/ BlobLoads
  \/ SocketCloses
  \/ \E p \in closing : Closed(p)

PeersSpec == PeersInit /\ [][PeersNext]_peerVars

-----------------------------------------------------------------------------
\* The peers of a socket get its messages in the order of their arrival, none
\* twice or too soon, whichever of them are Blobs that load late (upgrade).
MessagesInOrder ==
  FlattenSeq([p \in 1..Len(peers) |-> peers[p].got]) = [i \in 1..arrived - Len(inbox) |-> i]

\* When the socket has closed, nothing it asked for goes on being served, unless
\* a Blob was still loading: its message makes a peer that nobody closes
\* (close, upgrade).
ServedWhileOpen == \A p \in 1..Len(peers) : peers[p].isOpen => isOpen \/ (late /\ p = Len(peers))
=============================================================================
