--------------------------- MODULE Framing_proofs ---------------------------
(***************************************************************************)
(* What the operations of a bitset do to its bits, for bitsets of any      *)
(* size; then the safety properties of Framing, for any peers, pieces,     *)
(* files and blocks, and any messages of peers.                            *)
(***************************************************************************)
EXTENDS Framing, TLAPS

\* Division by the size of a byte (BYTE_OFF and BIT_OFF).
LEMMA Division ==
  ASSUME NEW i \in Nat
  PROVE  /\ i \div 8 \in Nat
         /\ i % 8 \in 0 .. 7
         /\ i = 8 * (i \div 8) + (i % 8)
  OBVIOUS

\* A bit of the bitset lies in one of its bytes.
LEMMA InRange ==
  ASSUME NEW nbits \in Nat, NEW i \in 0 .. nbits - 1
  PROVE  /\ BYTE_OFF(i) \in 1 .. BITSET_BSIZE(nbits)
         /\ BIT_OFF(i) \in 0 .. CHAR_BIT - 1
         /\ BITSET_BSIZE(nbits) \in Nat
<1>1. /\ i \div 8 \in Nat
      /\ i % 8 \in 0 .. 7
      /\ i = 8 * (i \div 8) + (i % 8)
  BY Division
<1>2. /\ (nbits + 7) \div 8 \in Nat
      /\ (nbits + 7) % 8 \in 0 .. 7
      /\ nbits + 7 = 8 * ((nbits + 7) \div 8) + ((nbits + 7) % 8)
  <2>1. nbits + 7 \in Nat
    OBVIOUS
  <2> QED
    BY <2>1, Division
<1>3. nbits + 8 - 1 = nbits + 7
  OBVIOUS
<1> QED
  BY <1>1, <1>2, <1>3 DEF BYTE_OFF, BIT_OFF, BITSET_BSIZE, CHAR_BIT

\* Two indexes have a bit each.
LEMMA OwnBit ==
  ASSUME NEW i \in Nat, NEW j \in Nat, BYTE_OFF(i) = BYTE_OFF(j), BIT_OFF(i) = BIT_OFF(j)
  PROVE  i = j
<1>1. /\ i \div 8 \in Nat
      /\ i % 8 \in 0 .. 7
      /\ i = 8 * (i \div 8) + (i % 8)
  BY Division
<1>2. /\ j \div 8 \in Nat
      /\ j % 8 \in 0 .. 7
      /\ j = 8 * (j \div 8) + (j % 8)
  BY Division
<1> QED
  BY <1>1, <1>2 DEF BYTE_OFF, BIT_OFF, CHAR_BIT

-----------------------------------------------------------------------------

\* bitset_create and bitset_clear leave a bitset without a bit.
THEOREM ClearedBits ==
  ASSUME NEW nbits \in Nat
  PROVE  /\ Cleared(nbits) \in Bitset(nbits)
         /\ \A i \in 0 .. nbits - 1 : ~Get(Cleared(nbits), i)
<1>1. ASSUME NEW i \in 0 .. nbits - 1
      PROVE  Cleared(nbits)[BYTE_OFF(i)] = {}
  BY InRange DEF Cleared
<1> QED
  BY <1>1 DEF Cleared, Bitset, Byte, Get

\* bitset_set changes the bit it names, and no other.
THEOREM SetBit ==
  ASSUME NEW nbits \in Nat, NEW bset \in Bitset(nbits),
         NEW i \in 0 .. nbits - 1, NEW val \in BOOLEAN
  PROVE  /\ Set(bset, i, val) \in Bitset(nbits)
         /\ Get(Set(bset, i, val), i) <=> val
         /\ \A j \in 0 .. nbits - 1 : j # i => (Get(Set(bset, i, val), j) <=> Get(bset, j))
<1> DEFINE byte == (bset[BYTE_OFF(i)] \ {BIT_OFF(i)}) \cup (IF val THEN {BIT_OFF(i)} ELSE {})
<1>1. BYTE_OFF(i) \in 1 .. BITSET_BSIZE(nbits) /\ BIT_OFF(i) \in 0 .. CHAR_BIT - 1
  BY InRange
<1>2. bset[BYTE_OFF(i)] \in Byte
  BY <1>1 DEF Bitset
<1>3. byte \in Byte
  BY <1>1, <1>2, Zenon DEF Byte
<1>4. Set(bset, i, val) = [bset EXCEPT ![BYTE_OFF(i)] = byte]
  BY DEF Set
<1> HIDE DEF byte
<1>5. Set(bset, i, val) \in Bitset(nbits)
  BY <1>1, <1>3, <1>4 DEF Bitset
<1>6. /\ Set(bset, i, val)[BYTE_OFF(i)] = byte
      /\ \A k \in 1 .. BITSET_BSIZE(nbits) :
           k # BYTE_OFF(i) => Set(bset, i, val)[k] = bset[k]
  BY <1>1, <1>3, <1>4 DEF Bitset
<1>7. Get(Set(bset, i, val), i) <=> val
  BY <1>6, Zenon DEF Get, byte
<1>8. ASSUME NEW j \in 0 .. nbits - 1, j # i
      PROVE  Get(Set(bset, i, val), j) <=> Get(bset, j)
  <2>1. BYTE_OFF(j) \in 1 .. BITSET_BSIZE(nbits)
    BY InRange
  <2>2. CASE BYTE_OFF(j) # BYTE_OFF(i)
    BY <1>6, <2>1, <2>2 DEF Get
  <2>3. CASE BYTE_OFF(j) = BYTE_OFF(i)
    <3>1. BIT_OFF(j) # BIT_OFF(i)
      <4>1. i \in Nat /\ j \in Nat
        OBVIOUS
      <4> QED
        BY <4>1, <1>8, <2>3, OwnBit
    <3> QED
      BY <3>1, <1>6, <2>3, Zenon DEF Get, byte
  <2> QED
    BY <2>2, <2>3
<1> QED
  BY <1>5, <1>7, <1>8

\* bitset_update with a bitfield that is not too long: its bits replace the first
\* ones of the bitset, and the others stay.
THEOREM UpdateBits ==
  ASSUME NEW nbits \in Nat, NEW bset \in Bitset(nbits), NEW bytes \in Seq(Byte)
  PROVE  /\ Update(bset, bytes) \in Bitset(nbits)
         /\ \A i \in 0 .. nbits - 1 :
              Get(Update(bset, bytes), i) <=>
                IF i < 8 * Len(bytes) THEN 7 - (i % 8) \in bytes[(i \div 8) + 1]
                                      ELSE Get(bset, i)
<1>1. Update(bset, bytes) =
        [k \in 1 .. BITSET_BSIZE(nbits) |-> IF k <= Len(bytes) THEN bytes[k] ELSE bset[k]]
  BY DEF Update, Bitset
<1>2. ASSUME NEW k \in 1 .. BITSET_BSIZE(nbits)
      PROVE  (IF k <= Len(bytes) THEN bytes[k] ELSE bset[k]) \in Byte
  <2>1. CASE k <= Len(bytes)
    <3>1. k \in Nat /\ k >= 1
      OBVIOUS
    <3>2. k \in 1 .. Len(bytes)
      BY <2>1, <3>1
    <3> QED
      BY <2>1, <3>2
  <2>2. CASE ~(k <= Len(bytes))
    BY <2>2 DEF Bitset
  <2> QED
    BY <2>1, <2>2
<1>3. Update(bset, bytes) \in Bitset(nbits)
  BY <1>1, <1>2 DEF Bitset
<1>4. ASSUME NEW i \in 0 .. nbits - 1
      PROVE  Get(Update(bset, bytes), i) <=>
               IF i < 8 * Len(bytes) THEN 7 - (i % 8) \in bytes[(i \div 8) + 1]
                                     ELSE Get(bset, i)
  <2>1. BYTE_OFF(i) \in 1 .. BITSET_BSIZE(nbits)
    BY InRange
  <2>2. /\ i \div 8 \in Nat
        /\ i % 8 \in 0 .. 7
        /\ i = 8 * (i \div 8) + (i % 8)
    BY Division
  <2>3. i < 8 * Len(bytes) <=> (i \div 8) + 1 <= Len(bytes)
    BY <2>2
  <2>4. BYTE_OFF(i) = (i \div 8) + 1 /\ BIT_OFF(i) = 7 - (i % 8)
    BY <2>2 DEF BYTE_OFF, BIT_OFF, CHAR_BIT
  <2>5. Update(bset, bytes)[BYTE_OFF(i)] =
          IF BYTE_OFF(i) <= Len(bytes) THEN bytes[BYTE_OFF(i)] ELSE bset[BYTE_OFF(i)]
    BY <1>1, <2>1
  <2> QED
    BY <2>3, <2>4, <2>5, Zenon DEF Get
<1> QED
  BY <1>3, <1>4

-----------------------------------------------------------------------------

\* How many bytes of the message are left, by what in_trans receives.
BytesLeft ==
  /\ at \in {"none", "plen", "handshake", "size"} => left = 0
  /\ at = "type" => left = size /\ msg.size = size /\ size >= 1 /\ n = 1
  /\ at \in {"have", "bitset", "ignored"} => left = n
  /\ at = "block" => left = size + n /\ n = 8
  /\ at = "data" => left = size + n

\* What the checks on the header have established.
BodyChecked ==
  /\ at = "bitset" => n <= BITSET_BSIZE(NbPieces) /\ n = Len(msg.bytes)
  /\ at \in {"block", "data"} => msg.type = "piece"
  /\ at = "data" => begin + size <= PieceSize[msg.id]

\* A slot without a peer is clear.
SlotClear == peer = NULL => at = "none" /\ out = "none" /\ receiving = NULL

\* The inductive invariant of the receiving half.
InStep == TypeOK /\ BytesLeft /\ BodyChecked /\ SlotClear

\* The peers that may be connected have announced nothing, but to this slot.
PeerFresh ==
  /\ peer \notin failed
  /\ \A q \in Peer \ failed : q # peer => announced[q] = {}

\* Up to the handshake of the peer there is nothing to decide, and when it comes
\* ours has gone.
HandshakeFirst ==
  /\ at \in {"plen", "handshake"} => announced[peer] = {} /\ receiving = NULL /\ out # "message"
  /\ at = "handshake" /\ half = "in" => out = "none"

\* The inductive invariant of the bitsets and of out_buf, given InStep.
Announced == BitsAsAnnounced /\ PeerFresh /\ HandshakeFirst /\ OutBufIntact

-----------------------------------------------------------------------------

LEMMA MessageFields ==
  ASSUME NEW m \in Message
  PROVE  /\ m.size \in Nat
         /\ m.id \in Nat
         /\ m.begin \in Nat
         /\ m.bytes \in Seq(Byte)
  BY DEF Message

LEMMA SilenceTyped == Silence \in Message
<1>1. << >> \in Seq(Byte)
  OBVIOUS
<1> QED
  BY <1>1 DEF Silence, Message

LEMMA MsgTyped ==
  ASSUME TypeOK
  PROVE  /\ msg \in Message
         /\ msg.type = "piece" => msg.id \in Piece
<1>1. msg \in Message
  BY SilenceTyped, MessagesAssumption DEF TypeOK
<1>2. Silence.type = "keep_alive"
  BY DEF Silence
<1> QED
  BY <1>1, <1>2, MessagesAssumption DEF TypeOK

\* A close leaves a clear slot (peer_conn_clear).
LEMMA CloseInStep ==
  ASSUME InStep, Close, half' \in {"in", "out", "crashed"}, peer \in Peer,
         bits' \in [Peer -> Bitset(NbPieces)], announced' \in [Peer -> SUBSET Piece]
  PROVE  InStep'
<1>1. TypeOK'
  BY DEF Close, InStep, TypeOK, At
<1>2. BytesLeft' /\ BodyChecked' /\ SlotClear'
  BY DEF Close, BytesLeft, BodyChecked, SlotClear
<1> QED
  BY <1>1, <1>2 DEF InStep

\* What stays typed when bits, peers and the sending half are left alone.
LEMMA OthersTyped ==
  ASSUME TypeOK, UNCHANGED <<linkVars, outVars, bits, announced>>,
         half' \in {"in", "out", "crashed"}, at' \in At, n' \in Nat, size' \in Nat,
         begin' \in Nat, msg' \in Messages \cup {Silence}, left' \in Nat \cup {Overrun}
  PROVE  TypeOK'
  BY DEF TypeOK, linkVars, outVars

\* receive_message begins where no byte of a message is left.
LEMMA MessageInStep ==
  ASSUME TypeOK, ReceiveMessage, left' = 0
  PROVE  /\ at' \in At /\ n' \in Nat /\ size' \in Nat /\ begin' \in Nat
         /\ msg' \in Messages \cup {Silence} /\ left' \in Nat \cup {Overrun}
         /\ BytesLeft' /\ BodyChecked'
  BY DEF ReceiveMessage, Setup, BytesLeft, BodyChecked, At

-----------------------------------------------------------------------------

LEMMA InitInStep == Init => InStep
<1> SUFFICES ASSUME Init PROVE InStep
  OBVIOUS
<1>1. Cleared(NbPieces) \in Bitset(NbPieces)
  BY ClearedBits, CountsAssumption
<1>2. TypeOK
  BY <1>1 DEF Init, TypeOK, At
<1> QED
  BY <1>2 DEF Init, InStep, BytesLeft, BodyChecked, SlotClear

LEMMA HeaderInStep ==
  ASSUME InStep,
         Connect \/ ReceivePlen \/ HandshakePart \/ HandshakeReceived \/ ReceiveSize
  PROVE  InStep'
<1> USE DEF ThenOut, Recv
<1>0. SlotClear'
  BY NullAssumption DEF Connect, ReceivePlen, HandshakePart, HandshakeReceived, ReceiveSize,
     Eligible, SlotClear, linkVars
<1>1. CASE Connect
  <2>1. TypeOK'
    BY <1>1 DEF Connect, Setup, InStep, TypeOK, At, Eligible, PLEN_SIZE
  <2>2. BytesLeft' /\ BodyChecked'
    <3>1. left = 0
      BY <1>1 DEF Connect, InStep, BytesLeft, SlotClear
    <3> QED
      BY <1>1, <3>1 DEF Connect, BytesLeft, BodyChecked
  <2> QED
    BY <1>0, <2>1, <2>2 DEF InStep
<1>2. CASE ReceivePlen
  <2>1. left' = 0 /\ at' = "handshake"
    BY <1>2 DEF ReceivePlen, Setup, InStep, BytesLeft
  <2>2. TypeOK'
    BY <1>2, OthersTyped DEF ReceivePlen, Setup, InStep, TypeOK, At, PLEN_SIZE, HANDSHAKE_SIZE
  <2> QED
    BY <1>0, <2>1, <2>2 DEF InStep, BytesLeft, BodyChecked
<1>3. CASE HandshakePart
  <2>1. TypeOK'
    BY <1>3 DEF HandshakePart, InStep, TypeOK, linkVars, inVars
  <2> QED
    BY <1>0, <1>3, <2>1 DEF HandshakePart, InStep, BytesLeft, BodyChecked, inVars
<1>4. CASE HandshakeReceived
  <2>1. left' = 0
    BY <1>4 DEF HandshakeReceived, InStep, BytesLeft
  <2>2. /\ at' \in At /\ n' \in Nat /\ size' \in Nat /\ begin' \in Nat
        /\ msg' \in Messages \cup {Silence} /\ left' \in Nat \cup {Overrun}
        /\ BytesLeft' /\ BodyChecked'
    BY <1>4, <2>1, MessageInStep DEF HandshakeReceived, InStep
  <2>3. TypeOK'
    BY <1>4, <2>2 DEF HandshakeReceived, InStep, TypeOK, linkVars
  <2> QED
    BY <1>0, <2>2, <2>3 DEF InStep
<1>5. CASE ReceiveSize
  <2>1. PICK m \in Messages :
          /\ left' = IF left = 0 THEN m.size ELSE Overrun
          /\ IF m.size = 0 THEN ReceiveMessage
             ELSE Setup("type", 1) /\ size' = m.size /\ msg' = m /\ UNCHANGED begin
    BY <1>5 DEF ReceiveSize
  <2>2. left' = m.size /\ m.size \in Nat
    BY <1>5, <2>1, MessageFields, MessagesAssumption DEF ReceiveSize, InStep, BytesLeft
  <2>3. UNCHANGED <<linkVars, outVars, bits, announced>> /\ half' = "out"
    BY <1>5 DEF ReceiveSize
  <2>4. CASE m.size = 0
    <3>1. /\ at' \in At /\ n' \in Nat /\ size' \in Nat /\ begin' \in Nat
          /\ msg' \in Messages \cup {Silence} /\ left' \in Nat \cup {Overrun}
          /\ BytesLeft' /\ BodyChecked'
      BY <2>1, <2>2, <2>4, MessageInStep DEF InStep
    <3> QED
      BY <1>0, <3>1, <2>3, OthersTyped DEF InStep
  <2>5. CASE m.size # 0
    <3>1. /\ at' = "type" /\ n' = 1 /\ size' = m.size /\ msg' = m /\ begin' = begin
          /\ m.size >= 1
      BY <2>1, <2>2, <2>5 DEF Setup
    <3>2. BytesLeft' /\ BodyChecked'
      BY <3>1, <2>2 DEF BytesLeft, BodyChecked
    <3>3. at' \in At /\ n' \in Nat /\ begin' \in Nat
      BY <3>1 DEF At, InStep, TypeOK
    <3> QED
      BY <1>0, <3>1, <3>2, <3>3, <2>2, <2>3, OthersTyped DEF InStep
  <2> QED
    BY <2>4, <2>5
<1> QED
  BY <1>1, <1>2, <1>3, <1>4, <1>5

\* The handlers that end with receive_message, once they have taken their bytes.
LEMMA EndInStep ==
  ASSUME InStep, Take, ReceiveMessage, half' \in {"in", "out", "crashed"}, left = n,
         UNCHANGED <<linkVars, outVars>>, peer # NULL,
         bits' \in [Peer -> Bitset(NbPieces)], announced' \in [Peer -> SUBSET Piece]
  PROVE  InStep'
<1>1. left' = 0
  BY DEF Take, InStep, TypeOK
<1>2. /\ at' \in At /\ n' \in Nat /\ size' \in Nat /\ begin' \in Nat
      /\ msg' \in Messages \cup {Silence} /\ left' \in Nat \cup {Overrun}
      /\ BytesLeft' /\ BodyChecked'
  BY <1>1, MessageInStep DEF InStep
<1>3. TypeOK'
  BY <1>2 DEF InStep, TypeOK, linkVars, outVars
<1>4. SlotClear'
  BY DEF SlotClear, linkVars
<1> QED
  BY <1>2, <1>3, <1>4 DEF InStep

LEMMA TypeInStep ==
  ASSUME InStep, ReceivePlain \/ ReceiveBody \/ RefuseBody
  PROVE  InStep'
<1> USE DEF Body, ThenOut, Recv
<1>1. at = "type" /\ peer # NULL /\ half' = "out"
  BY DEF ReceivePlain, ReceiveBody, RefuseBody
<1>2. /\ left = size /\ msg.size = size /\ size >= 1 /\ n = 1 /\ size \in Nat
      /\ bits \in [Peer -> Bitset(NbPieces)] /\ announced \in [Peer -> SUBSET Piece]
  BY <1>1 DEF InStep, BytesLeft, TypeOK
<1>3. msg \in Message /\ msg \in Messages
  <2>1. msg # Silence
    BY <1>2 DEF Silence
  <2> QED
    BY <2>1, MsgTyped DEF InStep, TypeOK
<1>4. CASE ReceivePlain
  <2>1. msg.size = 1
    BY <1>3, <1>4, MessagesAssumption DEF ReceivePlain
  <2> QED
    BY <1>1, <1>2, <1>4, <2>1, EndInStep DEF ReceivePlain
<1>5. CASE ReceiveBody
  <2>1. left' = size - 1 /\ BodySize = size - 1 /\ BodySize \in Nat
    BY <1>2, <1>5 DEF ReceiveBody, Take, BodySize
  <2>2. UNCHANGED <<linkVars, begin, msg, outVars, bits, announced>>
    BY <1>5 DEF ReceiveBody
  <2>3. SlotClear'
    BY <1>1, <2>2 DEF SlotClear, linkVars
  <2>4. /\ at' \in {"have", "bitset", "block", "ignored"}
        /\ n' \in Nat /\ size' \in Nat
        /\ at' \in {"have", "bitset", "ignored"} => n' = BodySize
        /\ at' = "bitset" => BodySize <= BITSET_BSIZE(NbPieces) /\ BodySize = Len(msg.bytes)
        /\ at' = "block" => size' = BodySize - 8 /\ n' = 8 /\ msg.type = "piece"
    <3>1. \/ BodySize = 4 /\ size' = BodySize /\ Setup("have", 4)
          \/ msg.type = "bitfield" /\ ~BitsetTooLong /\ size' = BodySize /\ Setup("bitset", BodySize)
          \/ msg.type = "piece" /\ ~PieceTooShort /\ size' = BodySize - 8 /\ Setup("block", 8)
          \/ size' = BodySize /\ Setup("ignored", BodySize)
      BY <1>5 DEF ReceiveBody
    <3>2. BITSET_BSIZE(NbPieces) \in Int
      <4>1. NbPieces + CHAR_BIT - 1 \in Int
        BY CountsAssumption DEF CHAR_BIT
      <4> QED
        BY <4>1 DEF BITSET_BSIZE, CHAR_BIT
    <3>3. CASE BodySize = 4 /\ size' = BodySize /\ Setup("have", 4)
      BY <2>1, <3>3 DEF Setup
    <3>4. CASE msg.type = "bitfield" /\ ~BitsetTooLong /\ size' = BodySize /\ Setup("bitset", BodySize)
      <4>1. BodySize <= BITSET_BSIZE(NbPieces)
        BY <2>1, <3>2, <3>4 DEF BitsetTooLong
      <4>2. Len(msg.bytes) = BodySize
        <5>1. Len(msg.bytes) = msg.size - 1
          BY <1>3, <3>4, MessagesAssumption
        <5> QED
          BY <1>2, <2>1, <5>1
      <4> HIDE DEF BodySize
      <4> QED
        BY <2>1, <3>4, <4>1, <4>2 DEF Setup
    <3>5. CASE msg.type = "piece" /\ ~PieceTooShort /\ size' = BodySize - 8 /\ Setup("block", 8)
      <4>1. BodySize - 8 \in Nat
        BY <2>1, <3>5 DEF PieceTooShort
      <4> QED
        BY <3>5, <4>1 DEF Setup
    <3>6. CASE size' = BodySize /\ Setup("ignored", BodySize)
      BY <2>1, <3>6 DEF Setup
    <3> QED
      BY <3>1, <3>3, <3>4, <3>5, <3>6
  <2>5. left' \in Nat /\ at' \in At /\ begin' \in Nat /\ msg' \in Messages \cup {Silence}
    BY <1>3, <2>1, <2>2, <2>4 DEF At, InStep, TypeOK
  <2>6. TypeOK'
    BY <1>1, <2>2, <2>4, <2>5, OthersTyped DEF InStep
  <2>7. BytesLeft'
    BY <2>1, <2>4 DEF BytesLeft
  <2>8. BodyChecked'
    BY <2>2, <2>4 DEF BodyChecked
  <2> QED
    BY <2>3, <2>6, <2>7, <2>8 DEF InStep
<1>6. CASE RefuseBody
  BY <1>1, <1>2, <1>6, CloseInStep DEF RefuseBody, InStep, TypeOK
<1> QED
  BY <1>4, <1>5, <1>6

LEMMA BodyInStep ==
  ASSUME InStep, ReceiveHave \/ ReceiveBitset \/ ReceiveIgnored
  PROVE  InStep'
<1> USE DEF ThenOut, Recv
<1>1. /\ at \in {"have", "bitset", "ignored"} /\ peer # NULL /\ half' = "out"
      /\ left = n /\ peer \in Peer
  BY DEF ReceiveHave, ReceiveBitset, ReceiveIgnored, InStep, BytesLeft, TypeOK
<1>2. /\ msg.id \in Nat /\ msg.bytes \in Seq(Byte)
      /\ bits \in [Peer -> Bitset(NbPieces)] /\ announced \in [Peer -> SUBSET Piece]
  BY MsgTyped, MessageFields DEF InStep, TypeOK
<1>3. CASE ReceiveHave
  <2>1. CASE msg.id < NbPieces
    <3>1. msg.id \in Piece /\ msg.id \in 0 .. NbPieces - 1
      BY <1>2, <2>1, CountsAssumption DEF Piece
    <3>2. Set(bits[peer], msg.id, TRUE) \in Bitset(NbPieces)
      <4>1. NbPieces \in Nat /\ bits[peer] \in Bitset(NbPieces)
        BY <1>1, <1>2, CountsAssumption
      <4> QED
        BY <3>1, <4>1, SetBit
    <3>3. /\ Take
          /\ bits' = [bits EXCEPT ![peer] = Set(bits[peer], msg.id, TRUE)]
          /\ announced' = [announced EXCEPT ![peer] = announced[peer] \cup {msg.id}]
          /\ ReceiveMessage
          /\ UNCHANGED <<linkVars, outVars>>
      BY <1>3, <2>1 DEF ReceiveHave
    <3>4. bits' \in [Peer -> Bitset(NbPieces)]
      BY <1>1, <1>2, <3>2, <3>3
    <3>5. announced' \in [Peer -> SUBSET Piece]
      BY <1>1, <1>2, <3>1, <3>3
    <3> QED
      BY <1>1, <3>3, <3>4, <3>5, EndInStep
  <2>2. CASE ~(msg.id < NbPieces)
    BY <1>1, <1>2, <1>3, <2>2, CloseInStep DEF ReceiveHave
  <2> QED
    BY <2>1, <2>2
<1>4. CASE ReceiveBitset
  <2>1. /\ Take /\ ReceiveMessage /\ UNCHANGED <<linkVars, outVars>>
        /\ bits' = [bits EXCEPT ![peer] = Update(bits[peer], msg.bytes)]
        /\ announced' = [announced EXCEPT ![peer] =
                            Announces(msg.bytes) \cup (announced[peer] \cap Beyond(msg.bytes))]
    BY <1>4 DEF ReceiveBitset
  <2>2. Update(bits[peer], msg.bytes) \in Bitset(NbPieces)
    <3>1. NbPieces \in Nat /\ bits[peer] \in Bitset(NbPieces)
      BY <1>1, <1>2, CountsAssumption
    <3> QED
      BY <1>2, <3>1, UpdateBits
  <2>3. bits' \in [Peer -> Bitset(NbPieces)]
    BY <1>1, <1>2, <2>1, <2>2
  <2>4. announced' \in [Peer -> SUBSET Piece]
    <3>1. Announces(msg.bytes) \in SUBSET Piece
      BY DEF Announces
    <3> QED
      BY <1>1, <1>2, <2>1, <3>1
  <2> QED
    BY <1>1, <2>1, <2>3, <2>4, EndInStep
<1>5. CASE ReceiveIgnored
  BY <1>1, <1>2, <1>5, EndInStep DEF ReceiveIgnored
<1> QED
  BY <1>3, <1>4, <1>5

-----------------------------------------------------------------------------

\* receive_piece_iter asks for a part that is neither empty nor too long.
LEMMA PartFits ==
  ASSUME NEW p \in Piece, NEW from \in Nat, NEW rest \in Nat,
         rest > 0, rest + from <= PieceSize[p]
  PROVE  PartSize(p, from, rest) \in 1 .. rest
<1>1. PieceSize[p] \in Nat /\ FileEnd[p] \in Nat
  BY CountsAssumption
<1>2. from < PieceSize[p]
  BY <1>1
<1>3. Contiguous(p, from) \in Nat /\ Contiguous(p, from) >= 1
  BY <1>1, <1>2 DEF Contiguous
<1> HIDE DEF Contiguous
<1> QED
  BY <1>3 DEF PartSize

\* One turn of receive_piece_iter, with `rest' bytes of the block to come.
LEMMA TurnInStep ==
  ASSUME InStep, NEW from \in Nat, NEW rest \in Nat, peer # NULL,
         Take, left = n + rest, msg.type = "piece", half' = "out",
         Iterate(from, rest) \/ Complete(rest), UNCHANGED <<bits, announced>>
  PROVE  InStep'
<1>1. left' = rest /\ n \in Nat
  BY DEF Take, InStep, TypeOK
<1>2. msg.id \in Piece
  BY MsgTyped DEF InStep
<1>3. CASE Iterate(from, rest)
  <2> DEFINE part == PartSize(msg.id, from, rest)
  <2>1. /\ rest > 0 /\ rest + from <= PieceSize[msg.id]
        /\ size' = rest - part /\ begin' = from + part /\ at' = "data" /\ n' = part
        /\ UNCHANGED <<linkVars, msg, outVars>>
    BY <1>3 DEF Iterate, Setup
  <2>2. part \in 1 .. rest
    BY <1>2, <2>1, PartFits
  <2> HIDE DEF part
  <2>3. PieceSize[msg.id] \in Nat
    BY <1>2, CountsAssumption
  <2>4. size' \in Nat /\ begin' \in Nat /\ n' \in Nat /\ left' = size' + n'
    BY <1>1, <2>1, <2>2
  <2>5. begin' + size' <= PieceSize[msg.id]
    BY <2>1, <2>2, <2>3
  <2>6. TypeOK'
    <3>1. at' \in At /\ msg' \in Messages \cup {Silence} /\ left' \in Nat
      BY <1>1, <2>1 DEF At, InStep, TypeOK
    <3> QED
      BY <2>1, <2>4, <3>1, OthersTyped DEF InStep
  <2>7. BytesLeft'
    BY <2>1, <2>4 DEF BytesLeft
  <2>8. BodyChecked'
    BY <2>1, <2>5 DEF BodyChecked
  <2>9. SlotClear'
    BY <2>1 DEF SlotClear, linkVars
  <2> QED
    BY <2>6, <2>7, <2>8, <2>9 DEF InStep
<1>4. CASE Complete(rest)
  <2>1. rest = 0 /\ ReceiveMessage /\ UNCHANGED <<linkVars, outVars>>
    BY <1>4 DEF Complete
  <2>2. left = n
    BY <1>1, <2>1
  <2>3. bits' \in [Peer -> Bitset(NbPieces)] /\ announced' \in [Peer -> SUBSET Piece]
    BY DEF InStep, TypeOK
  <2> QED
    BY <2>1, <2>2, <2>3, EndInStep
<1> QED
  BY <1>3, <1>4

LEMMA BlockInStep ==
  ASSUME InStep, ConvCrash \/ ReceiveConv \/ RefuseBlock \/ ReceivePart
  PROVE  InStep'
<1> USE DEF ThenOut, Recv
<1>1. /\ at \in {"block", "data"} /\ peer # NULL /\ peer \in Peer /\ size \in Nat /\ begin \in Nat
      /\ left = n + size /\ n \in Nat /\ msg.type = "piece" /\ msg.begin \in Nat
  BY MsgTyped, MessageFields
     DEF ConvCrash, ReceiveConv, RefuseBlock, ReceivePart, InStep, BytesLeft, BodyChecked, TypeOK
<1>2. CASE ConvCrash
  <2>1. UNCHANGED <<linkVars, inVars, outVars, bits, announced>> /\ half' = "crashed"
    BY <1>2 DEF ConvCrash
  <2>2. TypeOK'
    BY <2>1 DEF InStep, TypeOK, linkVars, inVars, outVars
  <2> QED
    BY <2>1, <2>2 DEF InStep, BytesLeft, BodyChecked, SlotClear, linkVars, inVars, outVars
<1>3. CASE ReceiveConv
  BY <1>1, <1>3, TurnInStep DEF ReceiveConv
<1>4. CASE RefuseBlock
  BY <1>1, <1>4, CloseInStep DEF RefuseBlock, InStep, TypeOK
<1>5. CASE ReceivePart
  BY <1>1, <1>5, TurnInStep DEF ReceivePart
<1> QED
  BY <1>2, <1>3, <1>4, <1>5

LEMMA FailInStep ==
  ASSUME InStep, RecvFails
  PROVE  InStep'
<1>1. peer \in Peer /\ half' = "out" /\ Close /\ announced' = announced
  BY DEF RecvFails, ThenOut, InStep, TypeOK
<1>2. PICK k \in 0 .. n :
        bits' = IF at = "bitset" /\ k < n
                THEN [bits EXCEPT ![peer] = Update(bits[peer], SubSeq(msg.bytes, 1, k))]
                ELSE bits
  BY DEF RecvFails
<1>3. bits \in [Peer -> Bitset(NbPieces)] /\ announced \in [Peer -> SUBSET Piece]
  BY DEF InStep, TypeOK
<1>4. CASE at = "bitset" /\ k < n /\ SubSeq(msg.bytes, 1, k) \in Seq(Byte)
  <2>1. NbPieces \in Nat /\ bits[peer] \in Bitset(NbPieces)
    BY <1>1, <1>3, CountsAssumption
  <2>2. Update(bits[peer], SubSeq(msg.bytes, 1, k)) \in Bitset(NbPieces)
    BY <1>4, <2>1, UpdateBits
  <2>3. bits' \in [Peer -> Bitset(NbPieces)]
    BY <1>1, <1>2, <1>3, <1>4, <2>2
  <2> QED
    BY <1>1, <1>3, <2>3, CloseInStep
<1>5. CASE ~(at = "bitset" /\ k < n)
  BY <1>1, <1>2, <1>3, <1>5, CloseInStep
<1>6. ASSUME at = "bitset"
      PROVE  SubSeq(msg.bytes, 1, k) \in Seq(Byte)
  <2>1. msg.bytes \in Seq(Byte) /\ k \in 0 .. Len(msg.bytes)
    BY <1>6, MsgTyped, MessageFields DEF InStep, BodyChecked
  <2>2. SubSeq(msg.bytes, 1, k) = [j \in 1 .. k |-> msg.bytes[j]]
    BY <2>1
  <2> QED
    BY <2>1, <2>2
<1> QED
  BY <1>4, <1>5, <1>6

\* The steps that leave the receiving half alone.
LEMMA SendInStep ==
  ASSUME InStep, RecvWaits \/ SendDone \/ SendWaits \/ SlotClosed
  PROVE  InStep'
<1>1. /\ UNCHANGED <<linkVars, inVars, bits, announced>>
      /\ half' \in {"in", "out", "crashed"}
      /\ peer # NULL \/ UNCHANGED outVars
  BY DEF RecvWaits, SendDone, SendWaits, SlotClosed, ThenOut
<1>2. /\ receiving' \in Piece \cup {NULL}
      /\ out' \in {"none", "handshake", "message"}
      /\ outBuf' \in {"none", "handshake", "message", "theirs"}
  BY DEF RecvWaits, SendDone, Decide, SendWaits, SlotClosed, outVars, InStep, TypeOK
<1>3. TypeOK'
  BY <1>1, <1>2 DEF InStep, TypeOK, linkVars, inVars
<1>4. BytesLeft' /\ BodyChecked'
  BY <1>1 DEF InStep, BytesLeft, BodyChecked, inVars
<1>5. SlotClear'
  BY <1>1 DEF InStep, SlotClear, linkVars, inVars, outVars
<1> QED
  BY <1>3, <1>4, <1>5 DEF InStep

LEMMA CloseSendInStep ==
  ASSUME InStep, SendFails
  PROVE  InStep'
  BY CloseInStep DEF SendFails, InStep, TypeOK

LEMMA StutterInStep ==
  ASSUME InStep, UNCHANGED vars
  PROVE  InStep'
<1>1. TypeOK'
  BY DEF InStep, TypeOK, vars, linkVars, inVars, outVars
<1> QED
  BY <1>1 DEF InStep, BytesLeft, BodyChecked, SlotClear, vars, linkVars, inVars, outVars

LEMMA StepInStep == InStep /\ [Next]_vars => InStep'
<1> SUFFICES ASSUME InStep, [Next]_vars PROVE InStep'
  OBVIOUS
<1>1. CASE Connect
  BY <1>1, HeaderInStep
<1>2. CASE RecvHandled
  BY <1>2, HeaderInStep, TypeInStep, BodyInStep, BlockInStep DEF RecvHandled
<1>3. CASE RecvFails
  BY <1>3, FailInStep
<1>4. CASE RecvWaits
  BY <1>4, SendInStep
<1>5. CASE TradeOut
  BY <1>5, SendInStep, CloseSendInStep DEF TradeOut
<1>6. CASE UNCHANGED vars
  BY <1>6, StutterInStep
<1> QED
  BY <1>1, <1>2, <1>3, <1>4, <1>5, <1>6 DEF Next, TradeIn, NoPeer, Terminated

LEMMA InStepAlways == Spec => []InStep
  BY InitInStep, StepInStep, PTL DEF Spec

\* Sizes, counts and bitsets keep their types: no size goes below zero, which the
\* code would wrap around (receive_message.c, receive_piece_iter).
THEOREM TypeCorrect == Spec => []TypeOK
<1>1. InStep => TypeOK
  BY DEF InStep
<1> QED
  BY <1>1, InStepAlways, PTL

\* A size is only ever read where a message begins, and no handler takes bytes of
\* the next message, whatever sizes the messages have that are checked.
THEOREM StreamAlwaysInStep == Spec => []StreamInStep
<1>1. InStep => StreamInStep
  <2> SUFFICES ASSUME InStep PROVE StreamInStep
    OBVIOUS
  <2>1. left # -1
    BY DEF InStep, BytesLeft, TypeOK, At
  <2> QED
    BY <2>1 DEF InStep, BytesLeft, StreamInStep, Overrun
<1> QED
  BY <1>1, InStepAlways, PTL

\* Bitfields fit the bitset of their peer and blocks fit their piece
\* (receive_bitset, receive_piece_iter).
THEOREM BuffersHold == Spec => []WithinBuffers
<1>1. InStep => WithinBuffers
  BY DEF InStep, BodyChecked, WithinBuffers
<1> QED
  BY <1>1, InStepAlways, PTL

-----------------------------------------------------------------------------
(* The bitsets of the peers, and out_buf *)

LEMMA InitAnnounced == Init => Announced
<1> SUFFICES ASSUME Init PROVE Announced
  OBVIOUS
<1>1. BitsAsAnnounced
  <2>1. \A p \in Piece : ~Get(Cleared(NbPieces), p)
    BY ClearedBits, CountsAssumption DEF Piece
  <2> QED
    BY <2>1 DEF Init, BitsAsAnnounced
<1>2. PeerFresh /\ HandshakeFirst /\ OutBufIntact
  BY DEF Init, PeerFresh, HandshakeFirst, OutBufIntact
<1> QED
  BY <1>1, <1>2 DEF Announced

\* Steps that change neither bitsets nor announcements, nor what is connected.
LEMMA AnnouncedSame ==
  ASSUME Announced, UNCHANGED <<bits, announced, linkVars>>
  PROVE  BitsAsAnnounced' /\ PeerFresh'
  BY DEF Announced, BitsAsAnnounced, PeerFresh, linkVars

\* A close charges the peer with a failure: nobody asks for its bitset again.
LEMMA CloseAnnounced ==
  ASSUME InStep, Announced, Close, peer # NULL,
         \A q \in Peer : q # peer => bits'[q] = bits[q], announced' = announced
  PROVE  Announced'
<1>1. peer \in Peer /\ failed \subseteq Peer
  BY DEF InStep, TypeOK
<1>2. /\ peer' = NULL /\ failed' = failed \cup {peer}
      /\ at' = "none" /\ out' = "none"
  BY DEF Close
<1>3. BitsAsAnnounced'
  BY <1>2 DEF Announced, BitsAsAnnounced
<1>4. PeerFresh'
  BY <1>1, <1>2, NullAssumption DEF Announced, PeerFresh
<1> QED
  BY <1>2, <1>3, <1>4 DEF Announced, HandshakeFirst, OutBufIntact

LEMMA HeaderAnnounced ==
  ASSUME InStep, Announced,
         Connect \/ ReceivePlen \/ HandshakePart \/ HandshakeReceived \/ ReceiveSize
  PROVE  Announced'
<1> USE DEF ThenOut, Recv, Setup
<1>1. CASE Connect
  <2>1. PICK q \in Eligible : peer' = q
    BY <1>1 DEF Connect
  <2>2. /\ peer = NULL /\ q # NULL /\ q \in Peer \ failed
        /\ at' = "plen" /\ out' = "handshake" /\ outBuf' = "handshake"
        /\ UNCHANGED <<failed, receiving, bits, announced>>
    BY <1>1, <2>1, NullAssumption DEF Connect, Eligible
  <2>3. announced[q] = {} /\ receiving = NULL
    BY <2>2 DEF Announced, PeerFresh, InStep, SlotClear
  <2>4. BitsAsAnnounced'
    BY <2>2 DEF Announced, BitsAsAnnounced
  <2>5. PeerFresh'
    BY <2>1, <2>2, NullAssumption DEF Announced, PeerFresh
  <2>6. HandshakeFirst' /\ OutBufIntact'
    BY <2>1, <2>2, <2>3 DEF HandshakeFirst, OutBufIntact
  <2> QED
    BY <2>4, <2>5, <2>6 DEF Announced
<1>2. CASE ReceivePlen
  <2>1. BitsAsAnnounced' /\ PeerFresh'
    BY <1>2, AnnouncedSame DEF ReceivePlen
  <2> QED
    BY <1>2, <2>1 DEF ReceivePlen, Announced, HandshakeFirst, OutBufIntact, linkVars, outVars
<1>3. CASE HandshakePart \/ HandshakeReceived
  <2>1. BitsAsAnnounced' /\ PeerFresh'
    BY <1>3, AnnouncedSame DEF HandshakePart, HandshakeReceived
  <2>2. out' = "none"
    BY <1>3 DEF HandshakePart, HandshakeReceived, Announced, HandshakeFirst
  <2> QED
    BY <1>3, <2>1, <2>2 DEF HandshakePart, HandshakeReceived, ReceiveMessage, Announced,
       HandshakeFirst, OutBufIntact, linkVars, inVars
<1>4. CASE ReceiveSize
  <2>1. BitsAsAnnounced' /\ PeerFresh'
    BY <1>4, AnnouncedSame DEF ReceiveSize
  <2>2. at' \in {"size", "type"}
    BY <1>4 DEF ReceiveSize, ReceiveMessage
  <2> QED
    BY <1>4, <2>1, <2>2 DEF ReceiveSize, Announced, HandshakeFirst, OutBufIntact, outVars
<1> QED
  BY <1>1, <1>2, <1>3, <1>4

\* The rest of a message leaves the sending half alone.
LEMMA RestAnnounced ==
  ASSUME Announced, UNCHANGED outVars, at' \notin {"plen", "handshake"}
  PROVE  HandshakeFirst' /\ OutBufIntact'
  BY DEF Announced, HandshakeFirst, OutBufIntact, outVars

LEMMA BodyAnnounced ==
  ASSUME InStep, Announced, ReceivePlain \/ ReceiveBody \/ RefuseBody \/ ReceiveIgnored
  PROVE  Announced'
<1> USE DEF Body, ThenOut, Recv, Setup
<1>1. CASE ReceivePlain \/ ReceiveBody \/ ReceiveIgnored
  <2>1. UNCHANGED <<bits, announced, linkVars, outVars>>
    BY <1>1 DEF ReceivePlain, ReceiveBody, ReceiveIgnored, linkVars, outVars
  <2>2. at' \notin {"plen", "handshake"}
    BY <1>1 DEF ReceivePlain, ReceiveBody, ReceiveIgnored, ReceiveMessage
  <2> QED
    BY <2>1, <2>2, AnnouncedSame, RestAnnounced DEF Announced
<1>2. CASE RefuseBody
  BY <1>2, CloseAnnounced DEF RefuseBody
<1> QED
  BY <1>1, <1>2

LEMMA BlockAnnounced ==
  ASSUME InStep, Announced, ConvCrash \/ ReceiveConv \/ RefuseBlock \/ ReceivePart
  PROVE  Announced'
<1> USE DEF ThenOut, Recv, Setup
<1>1. CASE ConvCrash \/ ReceiveConv \/ ReceivePart
  <2>1. UNCHANGED <<bits, announced, linkVars, outVars>>
    BY <1>1 DEF ConvCrash, ReceiveConv, ReceivePart, Iterate, Complete, linkVars, outVars
  <2>2. at' \notin {"plen", "handshake"}
    BY <1>1 DEF ConvCrash, ReceiveConv, ReceivePart, Iterate, Complete, ReceiveMessage, inVars
  <2> QED
    BY <2>1, <2>2, AnnouncedSame, RestAnnounced DEF Announced
<1>2. CASE RefuseBlock
  BY <1>2, CloseAnnounced DEF RefuseBlock
<1> QED
  BY <1>1, <1>2

LEMMA HaveAnnounced ==
  ASSUME InStep, InStep', Announced, ReceiveHave
  PROVE  Announced'
<1> USE DEF ThenOut, Recv, Setup
<1>1. /\ peer \in Peer /\ peer # NULL /\ peer \notin failed
      /\ bits \in [Peer -> Bitset(NbPieces)] /\ announced \in [Peer -> SUBSET Piece]
      /\ msg.id \in Nat /\ NbPieces \in Nat
  BY MsgTyped, MessageFields, CountsAssumption
     DEF ReceiveHave, InStep, TypeOK, Announced, PeerFresh
<1>2. CASE msg.id < NbPieces
  <2>1. /\ bits' = [bits EXCEPT ![peer] = Set(bits[peer], msg.id, TRUE)]
        /\ announced' = [announced EXCEPT ![peer] = announced[peer] \cup {msg.id}]
        /\ at' = "size" /\ UNCHANGED <<linkVars, outVars>>
    BY <1>2 DEF ReceiveHave, ReceiveMessage
  <2>2. msg.id \in 0 .. NbPieces - 1 /\ bits[peer] \in Bitset(NbPieces)
    BY <1>1, <1>2
  <2>3. /\ Get(bits'[peer], msg.id)
        /\ \A p \in Piece : p # msg.id => (Get(bits'[peer], p) <=> Get(bits[peer], p))
    <3>1. bits'[peer] = Set(bits[peer], msg.id, TRUE)
      BY <1>1, <2>1
    <3>2. /\ Get(Set(bits[peer], msg.id, TRUE), msg.id) <=> TRUE
          /\ \A p \in 0 .. NbPieces - 1 : p # msg.id =>
               (Get(Set(bits[peer], msg.id, TRUE), p) <=> Get(bits[peer], p))
      BY <1>1, <2>2, SetBit, Zenon
    <3> QED
      BY <3>1, <3>2, Zenon DEF Piece
  <2>4. \A q \in Peer : q # peer => bits'[q] = bits[q] /\ announced'[q] = announced[q]
    BY <1>1, <2>1
  <2>5. announced'[peer] = announced[peer] \cup {msg.id}
    BY <1>1, <2>1
  <2>6. UNCHANGED <<peer, failed>>
    BY <2>1 DEF linkVars
  <2>7. BitsAsAnnounced'
    <3>1. ASSUME NEW p \in Piece
          PROVE  Get(bits'[peer], p) <=> p \in announced'[peer]
      <4>1. Get(bits[peer], p) <=> p \in announced[peer]
        BY <1>1 DEF Announced, BitsAsAnnounced
      <4> QED
        BY <2>3, <2>5, <4>1
    <3> QED
      BY <2>4, <2>6, <3>1 DEF Announced, BitsAsAnnounced
  <2>8. PeerFresh'
    BY <2>4, <2>6 DEF Announced, PeerFresh
  <2> QED
    BY <2>1, <2>7, <2>8, RestAnnounced DEF Announced
<1>3. CASE ~(msg.id < NbPieces)
  BY <1>1, <1>3, CloseAnnounced DEF ReceiveHave
<1> QED
  BY <1>2, <1>3

LEMMA BitsetAnnounced ==
  ASSUME InStep, Announced, ReceiveBitset
  PROVE  Announced'
<1> USE DEF ThenOut, Recv, Setup
<1>1. /\ peer \in Peer /\ peer # NULL /\ peer \notin failed
      /\ bits \in [Peer -> Bitset(NbPieces)] /\ announced \in [Peer -> SUBSET Piece]
      /\ msg.bytes \in Seq(Byte) /\ NbPieces \in Nat /\ bits[peer] \in Bitset(NbPieces)
  BY MsgTyped, MessageFields, CountsAssumption
     DEF ReceiveBitset, InStep, TypeOK, Announced, PeerFresh
<1>2. /\ bits' = [bits EXCEPT ![peer] = Update(bits[peer], msg.bytes)]
      /\ announced' = [announced EXCEPT ![peer] =
                          Announces(msg.bytes) \cup (announced[peer] \cap Beyond(msg.bytes))]
      /\ at' = "size" /\ UNCHANGED <<linkVars, outVars>>
  BY DEF ReceiveBitset, ReceiveMessage
<1>3. /\ bits'[peer] = Update(bits[peer], msg.bytes)
      /\ announced'[peer] = Announces(msg.bytes) \cup (announced[peer] \cap Beyond(msg.bytes))
      /\ \A q \in Peer : q # peer => bits'[q] = bits[q] /\ announced'[q] = announced[q]
      /\ UNCHANGED <<peer, failed>>
  BY <1>1, <1>2 DEF linkVars
<1>4. ASSUME NEW p \in Piece
      PROVE  Get(bits'[peer], p) <=> p \in announced'[peer]
  <2>1. Get(bits'[peer], p) <=>
          IF p < 8 * Len(msg.bytes) THEN 7 - (p % 8) \in msg.bytes[(p \div 8) + 1]
                                    ELSE Get(bits[peer], p)
    BY <1>1, <1>3, UpdateBits DEF Piece
  <2>2. Get(bits[peer], p) <=> p \in announced[peer]
    BY <1>1 DEF Announced, BitsAsAnnounced
  <2>3. p \in Announces(msg.bytes) <=>
          p < 8 * Len(msg.bytes) /\ 7 - (p % 8) \in msg.bytes[(p \div 8) + 1]
    BY DEF Announces
  <2>4. p \in Beyond(msg.bytes) <=> ~(p < 8 * Len(msg.bytes))
    BY <1>1 DEF Beyond, Piece
  <2> QED
    BY <1>3, <2>1, <2>2, <2>3, <2>4
<1>5. BitsAsAnnounced'
  BY <1>3, <1>4 DEF Announced, BitsAsAnnounced
<1>6. PeerFresh'
  BY <1>3 DEF Announced, PeerFresh
<1> QED
  BY <1>2, <1>5, <1>6, RestAnnounced DEF Announced

LEMMA FailAnnounced ==
  ASSUME InStep, Announced, RecvFails
  PROVE  Announced'
<1>1. \A q \in Peer : q # peer => bits'[q] = bits[q]
  BY DEF RecvFails, InStep, TypeOK
<1> QED
  BY <1>1, CloseAnnounced DEF RecvFails

LEMMA SendAnnounced ==
  ASSUME InStep, Announced, RecvWaits \/ SendDone \/ SendWaits \/ SlotClosed
  PROVE  Announced'
<1>1. BitsAsAnnounced' /\ PeerFresh'
  BY AnnouncedSame DEF RecvWaits, SendDone, SendWaits, SlotClosed
<1>2. at' = at /\ peer' = peer /\ announced' = announced
  BY DEF RecvWaits, SendDone, SendWaits, SlotClosed, inVars, linkVars
<1>3. CASE RecvWaits
  BY <1>1, <1>2, <1>3 DEF RecvWaits, ThenOut, Announced, HandshakeFirst, OutBufIntact, outVars
<1>4. CASE SendDone
  <2>1. Decide /\ peer \in Peer \ failed
    BY <1>4 DEF SendDone, InStep, TypeOK, Announced, PeerFresh
  <2>2. OutBufIntact'
    BY <2>1 DEF Decide, OutBufIntact
  <2>3. ASSUME at \in {"plen", "handshake"}
        PROVE  receiving' = NULL /\ out' = "none"
    <3>1. receiving = NULL /\ \A p \in Piece : ~Get(bits[peer], p)
      BY <2>1, <2>3 DEF Announced, HandshakeFirst, BitsAsAnnounced
    <3> QED
      BY <2>1, <3>1 DEF Decide
  <2> QED
    BY <1>1, <1>2, <2>2, <2>3 DEF Announced, HandshakeFirst
<1>5. CASE SendWaits \/ SlotClosed
  <2>1. at \notin {"plen", "handshake"}
    BY <1>5 DEF SendWaits, SlotClosed, Announced, HandshakeFirst, InStep, SlotClear
  <2>2. UNCHANGED outVars
    BY <1>5 DEF SendWaits, SlotClosed
  <2> QED
    BY <1>1, <1>2, <2>1, <2>2, RestAnnounced DEF Announced
<1> QED
  BY <1>3, <1>4, <1>5

LEMMA StepAnnounced == InStep /\ InStep' /\ Announced /\ [Next]_vars => Announced'
<1> SUFFICES ASSUME InStep, InStep', Announced, [Next]_vars PROVE Announced'
  OBVIOUS
<1>1. CASE Connect
  BY <1>1, HeaderAnnounced
<1>2. CASE RecvHandled
  BY <1>2, HeaderAnnounced, BodyAnnounced, HaveAnnounced, BitsetAnnounced, BlockAnnounced
     DEF RecvHandled
<1>3. CASE RecvFails
  BY <1>3, FailAnnounced
<1>4. CASE RecvWaits
  BY <1>4, SendAnnounced
<1>5. CASE TradeOut
  <2>1. ASSUME SendFails PROVE Announced'
    BY <2>1, CloseAnnounced DEF SendFails
  <2> QED
    BY <1>5, <2>1, SendAnnounced DEF TradeOut
<1>6. CASE UNCHANGED vars
  BY <1>6, AnnouncedSame DEF vars, linkVars, inVars, outVars, Announced, HandshakeFirst, OutBufIntact
<1> QED
  BY <1>1, <1>2, <1>3, <1>4, <1>5, <1>6 DEF Next, TradeIn, NoPeer, Terminated

LEMMA AnnouncedAlways == Spec => []Announced
<1>1. Init => Announced
  BY InitAnnounced
<1>2. InStep /\ InStep' /\ Announced /\ [Next]_vars => Announced'
  BY StepAnnounced
<1> QED
  BY <1>1, <1>2, InStepAlways, PTL DEF Spec

\* bitset_get tells what a peer announced, whatever haves and bitfields it sent
\* (receive_have_ack, receive_bitset).
THEOREM BitsKeptAsAnnounced == Spec => []BitsAsAnnounced
<1>1. Announced => BitsAsAnnounced
  BY DEF Announced
<1> QED
  BY <1>1, AnnouncedAlways, PTL

\* The handshake that lands in out_buf never overwrites what is still to be sent
\* (handshake_receive_full).
THEOREM OutBufKept == Spec => []OutBufIntact
<1>1. Announced => OutBufIntact
  BY DEF Announced
<1> QED
  BY <1>1, AnnouncedAlways, PTL
=============================================================================
