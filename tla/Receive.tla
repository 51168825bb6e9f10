------------------------------- MODULE Receive -------------------------------
(***************************************************************************)
(* The receiving half of a slot: the callbacks of in_trans and the in_trans*)
(* half of peer_conn_trade.  One iteration runs at most one callback.  The *)
(* size and the type of a message are received together here, and so are   *)
(* the body of a have and of a bitfield: what arrives is chosen when the   *)
(* last of its bytes does, so nothing distinguishes the parts.  The 8      *)
(* bytes of index and offset and the data of a piece message are steps of  *)
(* their own, as decision_send may run between them.                       *)
(*                                                                         *)
(* A slot whose number stands for the connection of another slot, and that *)
(* other slot, read parts of one stream: either may take any of them for   *)
(* any message.                                                            *)
(***************************************************************************)
EXTENDS DecisionSend

\* Faulty variants of definitions below.
OutOfBoundsOffByOne(c, r) == r[2] + 1 >= BlockCount[receiving[c]]
MarkedNothing(c) == conn[c].blocks
IntendedAlways(c) == TRUE

-----------------------------------------------------------------------------

\* The callback of in_trans runs on slot c when the part `at' is complete.
Recv(c, at) ==
  /\ Turn(c, "slot")
  /\ running
  /\ c \in active
  /\ Open(c) /\ c \notin deaf
  /\ conn[c].in.at = at
  /\ UNCHANGED <<running, cur>>

\* The slot goes on with its out_trans.
ThenSend == phase' = "out"

\* handshake_receive_full, then receive_message.  The length it checks is the
\* one of our own handshake, so the check passes.
ReceiveHandshake(c) ==
  /\ Recv(c, "handshake")
  /\ ThenSend
  /\ conn' = [conn EXCEPT ![c].in = In("header")]
  /\ UNCHANGED <<torrentVars, linkVars, bits, receiving, remote>>

\* receive_choke.  The peer may drop the requests it has not answered.
ReceiveChoke(c) ==
  /\ MayOccur(c, "choke")
  /\ Recv(c, "header")
  /\ ThenSend
  /\ conn' = [conn EXCEPT ![c].choking = TRUE]
  /\ \/ UNCHANGED remote
     \/ remote' = [remote EXCEPT ![c].owed = [r \in Request |-> 0]]
  /\ UNCHANGED <<torrentVars, linkVars, bits, receiving>>

\* receive_unchoke, from a peer that knows our interest or is optimistic.
ReceiveUnchoke(c) ==
  /\ Recv(c, "header")
  /\ ThenSend
  /\ remote[c].told \/ MayOccur(c, "optimistic")
  /\ conn' = [conn EXCEPT ![c].choking = FALSE]
  /\ UNCHANGED <<torrentVars, linkVars, bits, receiving, remote>>

\* receive_interested and receive_not_interested write state_am, the field
\* update_interest compares with.
ReceiveInterested(c) ==
  /\ MayOccur(c, "interest")
  /\ Recv(c, "header")
  /\ ThenSend
  /\ \E interest \in BOOLEAN :
       conn' = [conn EXCEPT ![c].interested = interest]
  /\ UNCHANGED <<torrentVars, linkVars, bits, receiving, remote>>

\* receive_have: the peer announces one of its pieces.
ReceiveHave(c) ==
  /\ Recv(c, "header")
  /\ ThenSend
  /\ \E p \in IF Private(c) THEN Content[connPeer[c]] ELSE Piece :
       bits' = [bits EXCEPT ![connPeer[c]] = @ \cup {p}]
  /\ UNCHANGED <<torrentVars, linkVars, receiving, conn, remote>>

\* receive_bitset: the bytes land in peer->pieces.
ReceiveBitset(c) ==
  /\ Recv(c, "header")
  /\ ThenSend
  /\ \E has \in IF Private(c) THEN {Content[connPeer[c]]} ELSE SUBSET Piece :
       bits' = [bits EXCEPT ![connPeer[c]] = has]
  /\ UNCHANGED <<torrentVars, linkVars, receiving, conn, remote>>

-----------------------------------------------------------------------------

\* The peer owes us block r, or r is what anybody sends.
Sends(c, r) == Private(c) => remote[c].owed[r] > 0

\* receive_piece: the header of a block.
ReceivePiece(c) ==
  /\ Recv(c, "header")
  /\ ThenSend
  /\ \E r \in Request : Sends(c, r)
  /\ conn' = [conn EXCEPT ![c].in = In("piece")]
  /\ UNCHANGED <<torrentVars, linkVars, bits, receiving, remote>>

\* The bound receive_piece_conv checks: the one of the current piece.
OutOfBounds(c, r) == r[2] >= BlockCount[receiving[c]]

\* receive_piece_conv dereferences receiving.piece, and receive_piece_iter reads
\* torrent->pieces at an index that nothing has checked: a peer keeps to the
\* torrent, the bytes of somebody else's stream need not.
ConvCrash(c) ==
  /\ Recv(c, "piece")
  /\ receiving[c] = NULL \/ ~Private(c)
  /\ phase' = "crashed"
  /\ UNCHANGED <<torrentVars, linkVars, bits, receiving, conn, remote>>

ConvOutOfBounds(c) ==
  /\ Recv(c, "piece")
  /\ ThenSend
  /\ receiving[c] # NULL
  /\ \E r \in Request : Sends(c, r) /\ OutOfBounds(c, r)
  /\ Close(c)

\* receive_piece_conv, and the first receive_piece_iter.
ConvPiece(c) ==
  /\ Recv(c, "piece")
  /\ ThenSend
  /\ receiving[c] # NULL
  /\ \E r \in Request, good \in BOOLEAN :
       /\ Sends(c, r)
       /\ good \/ MayOccur(c, "corrupt")
       /\ ~OutOfBounds(c, r)
       /\ conn' = [conn EXCEPT ![c] = [@ EXCEPT !.block = r[2],
                     !.in = [at |-> "data", req |-> r, good |-> good,
                             into |-> r[1] = receiving[c]]]]
       /\ remote' = IF Private(c) THEN [remote EXCEPT ![c].owed[r] = @ - 1] ELSE remote
  /\ UNCHANGED <<torrentVars, linkVars, bits, receiving>>

\* The block is one of the piece this slot is fetching.
Intended(c) == conn[c].in.req[1] = receiving[c]

\* Whether the block is right with the bytes that came now.
StaysGood(c, good) ==
  IF Private(c) THEN good = conn[c].in.good ELSE good => conn[c].in.good

\* The mapped bytes of the block, once the rest of it has been written.
Written(c, good) ==
  LET r == conn[c].in.req IN
  IF ~conn[c].in.into THEN disk
  ELSE [disk EXCEPT ![r[1]] = IF good THEN @ \cup {r[2]} ELSE @ \ {r[2]}]

\* The block after a part of it: the destination of the rest is decided again.
Resumed(c, good) == [conn[c].in EXCEPT !.good = good, !.into = @ /\ Intended(c)]

\* receive_piece_iter between two files: a bad block has already spoilt what
\* was there.
ReceivePart(c) ==
  /\ Recv(c, "data")
  /\ ThenSend
  /\ \E good \in BOOLEAN :
       /\ StaysGood(c, good)
       /\ disk' = IF good THEN disk ELSE Written(c, FALSE)
       /\ conn' = [conn EXCEPT ![c].in = Resumed(c, good)]
  /\ UNCHANGED <<state, pieces, linkVars, bits, receiving, remote>>

\* conn->blocks with the block just received.
Marked(c) == conn[c].blocks \cup {conn[c].block}

\* The last receive_piece_iter, with receive_piece_cleanup.
ReceiveData(c) ==
  /\ Recv(c, "data")
  /\ ThenSend
  /\ \E good \in BOOLEAN : StaysGood(c, good) /\ disk' = Written(c, good)
  /\ conn' = [conn EXCEPT ![c] = [@ EXCEPT
                !.in = In("header"),
                !.ask_blocks = conn[c].ask_blocks \/ Intended(c),
                !.blocks = IF Intended(c) THEN Marked(c) ELSE conn[c].blocks]]
  /\ UNCHANGED <<state, pieces, linkVars, bits, receiving, remote>>

-----------------------------------------------------------------------------

\* There is nothing to read yet, or only a keep-alive or a message that has no
\* handler.  EAGAIN clears can_recv, for ever if the connection is not the slot's:
\* epoll reports its bytes to the slot that opened it.
RecvWaits(c) ==
  /\ Turn(c, "slot")
  /\ running
  /\ c \in active
  /\ Open(c) \/ c \in deaf
  /\ ThenSend
  /\ deaf' = deaf \/ (~Linked(c) /\ deaf' = deaf \cup {c})
  /\ UNCHANGED <<torrentVars, failed, peerConn, active, connPeer, fd, file, bits,
                 receiving, conn, remote, running, cur>>

\* recv reports an error or the end of the stream, or the handler of a message that
\* makes no sense does.
RecvFails(c) ==
  /\ Turn(c, "slot")
  /\ running
  /\ c \in active
  /\ c \notin deaf
  /\ MayOccur(c, "disconnect")
  /\ ThenSend
  /\ Close(c)
  /\ UNCHANGED <<running, cur>>

HandleIn(c) ==
  \/ ReceiveHandshake(c) \/ ReceiveChoke(c) \/ ReceiveUnchoke(c)
  \/ ReceiveInterested(c) \/ ReceiveHave(c) \/ ReceiveBitset(c)
  \/ ReceivePiece(c) \/ ConvCrash(c) \/ ConvOutOfBounds(c) \/ ConvPiece(c)
  \/ ReceivePart(c) \/ ReceiveData(c) \/ RecvWaits(c) \/ RecvFails(c)
=============================================================================
