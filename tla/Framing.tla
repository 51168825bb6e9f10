------------------------------- MODULE Framing -------------------------------
(***************************************************************************)
(* The handshake and the framing of messages on one slot, byte count by    *)
(* byte count: handshake.c, receive_message.c and the receive_*.c.  The    *)
(* callbacks of in_trans decide how many bytes to receive next and where   *)
(* to; nothing but their arithmetic keeps them in step with the stream.    *)
(*                                                                         *)
(* in_buf and out_buf are unions: what lands in one field changes others.  *)
(* The sending half only matters here for what it does to out_buf and to   *)
(* the piece being received, which may change between any two parts of a   *)
(* block; DecisionSend says when it does.                                  *)
(***************************************************************************)
EXTENDS Bitset, FiniteSets

CONSTANTS
  NbPeers,     \* length of the peer list
  NbPieces,    \* torrent->nbpieces
  PieceSize,   \* piece->size of every piece
  FileEnd,     \* the offset in each piece at which a file ends
  BlockSize,   \* MAX_BLOCK_SIZE
  Messages,    \* what the peers may send
  NULL

Peer  == 1 .. NbPeers
Piece == 0 .. NbPieces - 1

PLEN_SIZE == 1
HANDSHAKE_SIZE == 68

\* The messages with a body that is read by nobody.
NoHandler == {"request", "cancel", "port"}

\* Messages whose handler runs as soon as the type is known.
Plain == {"choke", "unchoke", "interested", "not_interested"}

\* A message: the size field, and what the handlers read of the body.
Message ==
  [size : Nat, type : Plain \cup NoHandler \cup {"keep_alive", "have", "bitfield",
                                                 "piece", "invalid"},
   id : Nat, begin : Nat, bytes : Seq(Byte)]

ASSUME CountsAssumption ==
  /\ NbPeers \in Nat
  /\ NbPieces \in Nat \ {0}
  /\ BlockSize \in Nat \ {0}
  /\ PieceSize \in [Piece -> Nat \ {0}]
  /\ FileEnd \in [Piece -> Nat]

\* Peers are free to get sizes wrong where the code checks them (have, bitfield
\* and piece).  The handlers of Plain messages do not, so these have no body.
ASSUME MessagesAssumption ==
  /\ Messages \subseteq Message
  /\ \A m \in Messages :
       /\ m.type = "keep_alive" <=> m.size = 0
       /\ m.type \in Plain => m.size = 1
       /\ m.type = "bitfield" => Len(m.bytes) = m.size - 1
       /\ m.type = "piece" => m.id \in Piece

ASSUME NullAssumption == NULL \notin Peer \cup Piece

VARIABLES
  peer,       \* conn->peer, NULL for an inactive slot
  failed,     \* the peers with fail_count # 0
  half,       \* "in" or "out", the halves of peer_conn_trade; or "crashed"
  at,         \* what in_trans receives, for its callback
  n,          \* in_trans.total
  size,       \* in_buf.header.size
  begin,      \* in_buf.piece.begin
  receiving,  \* conn->receiving.piece
  out,        \* what out_trans still has to send
  outBuf,     \* what the bytes in out_buf are
  bits,       \* peer->pieces
  msg, left,  \* the message the peer is sending, and its bytes not received yet
  announced   \* the pieces each peer has announced

inVars == <<at, n, size, begin, msg, left>>
outVars == <<out, outBuf, receiving>>
linkVars == <<peer, failed>>
vars == <<linkVars, half, inVars, outVars, bits, announced>>

At == {"none", "plen", "handshake", "size", "type", "have", "bitset",
       "ignored", "block", "data"}

Silence == [size |-> 0, type |-> "keep_alive", id |-> 0, begin |-> 0, bytes |-> << >>]

\* The receiver took more bytes than the message had.
Overrun == -1

Init ==
  /\ peer = NULL
  /\ failed = {}
  /\ half = "in"
  /\ at = "none"
  /\ n = 0
  /\ size = 0
  /\ begin = 0
  /\ receiving = NULL
  /\ out = "none"
  /\ outBuf = "none"
  /\ bits = [q \in Peer |-> Cleared(NbPieces)]
  /\ msg = Silence
  /\ left = 0
  /\ announced = [q \in Peer |-> {}]

\* Faulty variants of definitions below.
EligibleFailed == Peer
SizeUncounted == size
BitsetTooLongInBits == size - 1 > NbPieces
PieceTooShortWithType == size < 8

-----------------------------------------------------------------------------
(* Connections *)

Eligible == Peer \ failed

\* peer_conn_close and peer_conn_clear: the slot is zeroed, buffers included.
Close ==
  /\ failed' = failed \cup {peer}
  /\ peer' = NULL
  /\ at' = "none"
  /\ n' = 0
  /\ size' = 0
  /\ begin' = 0
  /\ msg' = Silence
  /\ left' = 0
  /\ receiving' = NULL
  /\ out' = "none"
  /\ outBuf' = "none"

\* peer_conn_init: handshake_send writes our handshake into out_buf, and
\* handshake_receive asks for the length of the peer's protocol name.
Connect ==
  /\ half = "in"
  /\ peer = NULL
  /\ \E q \in Eligible :
       /\ \A r \in Eligible : q <= r
       /\ peer' = q
  /\ out' = "handshake"
  /\ outBuf' = "handshake"
  /\ at' = "plen"
  /\ n' = PLEN_SIZE
  /\ UNCHANGED <<failed, half, size, begin, msg, left, receiving, bits, announced>>

\* peer_conn_init has no peer left to try.
NoPeer ==
  /\ half = "in"
  /\ peer = NULL
  /\ Eligible = {}
  /\ UNCHANGED vars

-----------------------------------------------------------------------------
(* The receiving half *)

\* The callback of in_trans runs, once all bytes of `part' are there.
Recv(part) ==
  /\ half = "in"
  /\ peer # NULL
  /\ at = part

ThenOut == half' = "out"

\* trans_setup.
Setup(part, count) == at' = part /\ n' = count

\* receive_message.  What in_buf holds is dead from here on: the handlers receive
\* it again before they read it.
ReceiveMessage ==
  /\ Setup("size", 4)
  /\ size' = 0
  /\ begin' = 0
  /\ msg' = Silence

\* The bytes of in_trans were taken from the message on the wire.
Take == left' = IF n <= left THEN left - n ELSE Overrun

\* handshake_receive_full: plen landed in in_buf, but the length it checks is in
\* out_buf and is ours, so any length passes; the rest goes into out_buf.
ReceivePlen ==
  /\ Recv("plen")
  /\ ThenOut
  /\ Setup("handshake", HANDSHAKE_SIZE - PLEN_SIZE)
  /\ UNCHANGED <<linkVars, size, begin, msg, left, outVars, bits, announced>>

\* Some bytes of the handshake arrive, not the last one.
HandshakePart ==
  /\ Recv("handshake")
  /\ ThenOut
  /\ outBuf' = "theirs"
  /\ UNCHANGED <<linkVars, inVars, out, receiving, bits, announced>>

HandshakeReceived ==
  /\ Recv("handshake")
  /\ ThenOut
  /\ outBuf' = "theirs"
  /\ ReceiveMessage
  /\ UNCHANGED <<linkVars, left, out, receiving, bits, announced>>

\* receive_type: the four bytes of the size, of the next message unless some of
\* the last one is left.  A keep-alive ends here.
ReceiveSize ==
  /\ Recv("size")
  /\ ThenOut
  /\ \E m \in Messages :
       /\ left' = IF left = 0 THEN m.size ELSE Overrun
       /\ IF m.size = 0 THEN ReceiveMessage
          ELSE Setup("type", 1) /\ size' = m.size /\ msg' = m /\ UNCHANGED begin
  /\ UNCHANGED <<linkVars, outVars, bits, announced>>

\* header.size, as receive_body leaves it to the handlers: the type is counted.
BodySize == size - 1

\* receive_body has a type, and what follows is up to its handler.
Body(types) ==
  /\ Recv("type")
  /\ ThenOut
  /\ msg.type \in types

\* The handlers of choke, unchoke, interested and not_interested; Receive has
\* what they write.
ReceivePlain ==
  /\ Body(Plain)
  /\ Take
  /\ ReceiveMessage
  /\ UNCHANGED <<linkVars, outVars, bits, announced>>

\* The checks of receive_bitset and receive_piece.
BitsetTooLong == BodySize > BITSET_BSIZE(NbPieces)
PieceTooShort == BodySize < 8

\* receive_have, receive_bitset, receive_piece, and a body without handler, which
\* goes into a buffer of its own.
ReceiveBody ==
  /\ Body({"have", "bitfield", "piece"} \cup NoHandler)
  /\ Take
  /\ \/ /\ msg.type = "have" /\ BodySize = 4
        /\ size' = BodySize
        /\ Setup("have", 4)
     \/ /\ msg.type = "bitfield" /\ ~BitsetTooLong
        /\ size' = BodySize
        /\ Setup("bitset", BodySize)
     \/ /\ msg.type = "piece" /\ ~PieceTooShort
        /\ size' = BodySize - 8
        /\ Setup("block", 8)
     \/ /\ msg.type \in NoHandler
        /\ size' = BodySize
        /\ Setup("ignored", BodySize)
  /\ UNCHANGED <<linkVars, begin, msg, outVars, bits, announced>>

\* A size the handler does not accept, or no valid type: TRANS_CLOSING.
RefuseBody ==
  /\ Body({"have", "bitfield", "piece", "invalid"})
  /\ \/ msg.type = "have" /\ BodySize # 4
     \/ msg.type = "bitfield" /\ BitsetTooLong
     \/ msg.type = "piece" /\ PieceTooShort
     \/ msg.type = "invalid"
  /\ Close
  /\ UNCHANGED <<bits, announced>>

\* receive_have_ack.
ReceiveHave ==
  /\ Recv("have")
  /\ ThenOut
  /\ IF msg.id < NbPieces
     THEN /\ Take
          /\ bits' = [bits EXCEPT ![peer] = Set(@, msg.id, TRUE)]
          /\ announced' = [announced EXCEPT ![peer] = @ \cup {msg.id}]
          /\ ReceiveMessage
          /\ UNCHANGED <<linkVars, outVars>>
     ELSE Close /\ UNCHANGED <<bits, announced>>

\* The pieces a bitfield announces: the high bit of its first byte is piece 0.
Announces(bytes) ==
  {p \in Piece : p < 8 * Len(bytes) /\ 7 - (p % 8) \in bytes[(p \div 8) + 1]}

Beyond(bytes) == {p \in Piece : p >= 8 * Len(bytes)}

\* receive_bitset_ack: the bytes went into peer->pieces as they came.
ReceiveBitset ==
  /\ Recv("bitset")
  /\ ThenOut
  /\ Take
  /\ bits' = [bits EXCEPT ![peer] = Update(@, msg.bytes)]
  /\ announced' = [announced EXCEPT ![peer] =
                     Announces(msg.bytes) \cup (@ \cap Beyond(msg.bytes))]
  /\ ReceiveMessage
  /\ UNCHANGED <<linkVars, outVars>>

\* body_cleanup.
ReceiveIgnored ==
  /\ Recv("ignored")
  /\ ThenOut
  /\ Take
  /\ ReceiveMessage
  /\ UNCHANGED <<linkVars, outVars, bits, announced>>

-----------------------------------------------------------------------------
(* Blocks *)

\* receive_piece_conv dereferences receiving.piece.
ConvCrash ==
  /\ Recv("block")
  /\ receiving = NULL
  /\ half' = "crashed"
  /\ UNCHANGED <<linkVars, inVars, outVars, bits, announced>>

\* The number of blocks of the piece being received, the bound of the check.
BlockCount(p) == (PieceSize[p] + BlockSize - 1) \div BlockSize

\* The block is of the piece this slot is receiving.
Intended == receiving = msg.id

\* A faulty variant of Contiguous: a file goes on at its end.
ContiguousAtEnd(p, from) ==
  (IF from <= FileEnd[p] /\ FileEnd[p] < PieceSize[p] THEN FileEnd[p] ELSE PieceSize[p]) - from

\* piece_get_buffer: to the end of the piece, or of the file if that is nearer.
Contiguous(p, from) ==
  (IF from < FileEnd[p] /\ FileEnd[p] < PieceSize[p] THEN FileEnd[p] ELSE PieceSize[p]) - from

\* MIN(size, readsize) in receive_piece_iter.
PartSize(p, from, rest) ==
  IF Intended /\ Contiguous(p, from) < rest THEN Contiguous(p, from) ELSE rest

\* receive_piece_iter with `rest' bytes of the block to come, from offset `from'.
Iterate(from, rest) ==
  /\ rest > 0
  /\ rest + from <= PieceSize[msg.id]
  /\ LET part == PartSize(msg.id, from, rest)
     IN /\ size' = rest - part
        /\ begin' = from + part
        /\ Setup("data", part)
  /\ UNCHANGED <<linkVars, msg, outVars>>

\* receive_piece_iter has come to the end of the block, and goes on with
\* receive_piece_cleanup.
Complete(rest) ==
  /\ rest = 0
  /\ ReceiveMessage
  /\ UNCHANGED <<linkVars, outVars>>

\* receive_piece_conv, with the first receive_piece_iter.
ReceiveConv ==
  /\ Recv("block")
  /\ ThenOut
  /\ receiving # NULL
  /\ msg.begin \div BlockSize < BlockCount(receiving)
  /\ Take
  /\ Iterate(msg.begin, size) \/ Complete(size)
  /\ UNCHANGED <<bits, announced>>

\* The block is past the end of the piece being received, or of its own.
RefuseBlock ==
  /\ Recv("block")
  /\ ThenOut
  /\ receiving # NULL
  /\ \/ msg.begin \div BlockSize >= BlockCount(receiving)
     \/ size > 0 /\ size + msg.begin > PieceSize[msg.id]
  /\ Close
  /\ UNCHANGED <<bits, announced>>

\* receive_piece_iter after a part of the block.
ReceivePart ==
  /\ Recv("data")
  /\ ThenOut
  /\ Take
  /\ Iterate(begin, size) \/ Complete(size)
  /\ UNCHANGED <<bits, announced>>

-----------------------------------------------------------------------------

\* The socket has nothing, or not all of it; a transmission of no bytes is done.
RecvWaits ==
  /\ half = "in"
  /\ peer # NULL
  /\ n > 0
  /\ ThenOut
  /\ UNCHANGED <<linkVars, inVars, outVars, bits, announced>>

\* recv fails or ends.  A bitfield has been received up to some byte.
RecvFails ==
  /\ half = "in"
  /\ peer # NULL
  /\ n > 0
  /\ ThenOut
  /\ Close
  /\ \E k \in 0 .. n :
       bits' = IF at = "bitset" /\ k < n
               THEN [bits EXCEPT ![peer] = Update(@, SubSeq(msg.bytes, 1, k))]
               ELSE bits
  /\ UNCHANGED announced

RecvHandled ==
  \/ ReceivePlen \/ HandshakePart \/ HandshakeReceived \/ ReceiveSize
  \/ ReceivePlain \/ ReceiveBody \/ RefuseBody
  \/ ReceiveHave \/ ReceiveBitset \/ ReceiveIgnored
  \/ ConvCrash \/ ReceiveConv \/ RefuseBlock \/ ReceivePart

-----------------------------------------------------------------------------
(* The sending half *)

\* decision_send keeps or changes the piece being received, to one the peer has,
\* and writes requests or its interest into out_buf, or nothing.
Decide ==
  /\ \/ UNCHANGED receiving
     \/ receiving # NULL /\ receiving' = NULL
     \/ receiving = NULL /\ \E p \in Piece : Get(bits[peer], p) /\ receiving' = p
  /\ \/ out' = "none" /\ UNCHANGED outBuf
     \/ receiving' # NULL /\ out' = "message" /\ outBuf' = "message"

\* All bytes are sent, or there were none: decision_send is called.  The send
\* buffer of a new connection is empty, so the handshake goes out at once.
SendDone ==
  /\ half = "out"
  /\ peer # NULL
  /\ half' = "in"
  /\ Decide
  /\ UNCHANGED <<linkVars, inVars, bits, announced>>

\* The socket takes no more bytes of a message now.
SendWaits ==
  /\ half = "out"
  /\ out = "message"
  /\ half' = "in"
  /\ UNCHANGED <<linkVars, inVars, outVars, bits, announced>>

SendFails ==
  /\ half = "out"
  /\ peer # NULL
  /\ out # "none"
  /\ half' = "in"
  /\ Close
  /\ UNCHANGED <<bits, announced>>

\* The receiving half has closed the slot.
SlotClosed ==
  /\ half = "out"
  /\ peer = NULL
  /\ half' = "in"
  /\ UNCHANGED <<linkVars, inVars, outVars, bits, announced>>

Terminated == half = "crashed" /\ UNCHANGED vars

TradeIn == RecvHandled \/ RecvWaits \/ RecvFails

TradeOut == SendDone \/ SendWaits \/ SendFails \/ SlotClosed

Next == Connect \/ NoPeer \/ TradeIn \/ TradeOut \/ Terminated

Spec == Init /\ [][Next]_vars /\ WF_vars(Next)

\* The peer goes on with what it began to send.
FairSpec == Spec /\ SF_vars(RecvHandled)

-----------------------------------------------------------------------------
(* Properties *)

\* The types: a size never passes zero, which would wrap around in the code.
TypeOK ==
  /\ peer \in Peer \cup {NULL}
  /\ failed \subseteq Peer
  /\ half \in {"in", "out", "crashed"}
  /\ at \in At
  /\ n \in Nat
  /\ size \in Nat
  /\ begin \in Nat
  /\ receiving \in Piece \cup {NULL}
  /\ out \in {"none", "handshake", "message"}
  /\ outBuf \in {"none", "handshake", "message", "theirs"}
  /\ bits \in [Peer -> Bitset(NbPieces)]
  /\ msg \in Messages \cup {Silence}
  /\ left \in Nat \cup {Overrun}
  /\ announced \in [Peer -> SUBSET Piece]

\* The stream stays in step: a size is read exactly where a message begins, and
\* no handler takes bytes of the next message, whichever message comes, with or
\* without a handler, and also when the piece being received changes between two
\* parts of a block (receive_message.c, receive_piece_iter).
StreamInStep == left # Overrun /\ (at = "size" => left = 0)

\* What a handler receives fits: a bitfield into the bitset of the peer, the rest
\* of a block into its piece (receive_bitset, receive_piece_iter).
WithinBuffers ==
  /\ at = "bitset" => n <= BITSET_BSIZE(NbPieces)
  /\ at = "data" => begin + size <= PieceSize[msg.id]

\* What bitset_get says of a piece is what the peer has announced, by haves and
\* bitfields in any order, longer or shorter than needed (receive_have_ack,
\* receive_bitset).
BitsAsAnnounced ==
  \A q \in Peer \ failed : \A p \in Piece : Get(bits[q], p) <=> p \in announced[q]

\* Nothing that is still to be sent is overwritten: the handshake of the peer,
\* which handshake_receive_full lets land in out_buf, comes when ours is out and
\* before decision_send has anything to say.
OutBufIntact == out # "none" => outBuf = out

\* A message that began is received to its end, or its connection closed: no part
\* of a block leaves receive_piece_iter where it was.
MessageEnds == (left > 0) ~> (left = 0 \/ half = "crashed")
=============================================================================
