--------------------------- MODULE EventLoop_proofs ---------------------------
(***************************************************************************)
(* Theorems about EventLoop, for any number of slots, peers and pieces.    *)
(***************************************************************************)
EXTENDS EventLoop, TLAPS

-----------------------------------------------------------------------------
(* Data *)

LEMMA RequestParts ==
  ASSUME NEW r \in Request
  PROVE  r[1] \in Piece /\ r[2] \in Nat /\ r[2] \in Block(r[1])
BY BlockCountAssumption DEF Request, Block, Piece

LEMMA RequestMade ==
  ASSUME NEW p \in Piece, NEW B \in SUBSET Block(p)
  PROVE  {p} \X B \in SUBSET Request
BY DEF Request

LEMMA InTyped ==
  ASSUME NEW at \in {"none", "handshake", "header", "piece"}
  PROVE  In(at) \in InTrans
BY DEF In, InTrans

LEMMA OutTyped ==
  ASSUME NEW type \in {"none", "handshake", "interested", "request"}
  PROVE  Out(type) \in OutTrans
BY DEF Out, OutTrans

LEMMA ClearedTyped == ClearedConn \in ConnType
BY InTyped, OutTyped, CountsAssumption DEF ClearedConn, ConnType

LEMMA FreshTyped == FreshRemote \in RemoteType
BY CountsAssumption DEF FreshRemote, RemoteType

LEMMA NextSlotTyped ==
  ASSUME TypeOK, NextSlot
  PROVE  phase' \in {"slot", "tick"} /\ cur' \in Slot
BY CountsAssumption DEF TypeOK, NextSlot, Slot

LEMMA CloseSlotsTyped ==
  ASSUME TypeOK, NEW S \in SUBSET Slot, CloseSlots(S)
  PROVE  /\ pieces' \in [Piece -> {"MISSING", "FETCHING", "AVAILABLE"}]
         /\ failed' \subseteq Peer
         /\ peerConn' \in [Peer -> Slot \cup {NULL}]
         /\ active' \subseteq Slot
         /\ connPeer' \in [Slot -> Peer \cup {NULL}]
         /\ fd' \in [Slot -> Fd \cup {NULL}]
         /\ file' \in [Fd -> Slot \cup {NULL}]
         /\ deaf' \subseteq Slot
         /\ receiving' \in [Slot -> Piece \cup {NULL}]
         /\ conn' \in [Slot -> ConnType]
         /\ remote' \in [Slot -> RemoteType]
<1>1. /\ pieces' \in [Piece -> {"MISSING", "FETCHING", "AVAILABLE"}]
      /\ failed' \subseteq Peer
      /\ peerConn' \in [Peer -> Slot \cup {NULL}]
      /\ active' \subseteq Slot
      /\ connPeer' \in [Slot -> Peer \cup {NULL}]
  BY DEF TypeOK, CloseSlots, Released
<1>2. /\ fd' \in [Slot -> Fd \cup {NULL}]
      /\ file' \in [Fd -> Slot \cup {NULL}]
      /\ deaf' \subseteq Slot
  BY DEF TypeOK, CloseSlots, Closed
<1>3. /\ receiving' \in [Slot -> Piece \cup {NULL}]
      /\ conn' \in [Slot -> ConnType]
      /\ remote' \in [Slot -> RemoteType]
  BY ClearedTyped, FreshTyped DEF TypeOK, CloseSlots, Gone
<1>. QED  BY <1>1, <1>2, <1>3

-----------------------------------------------------------------------------
(* Type correctness *)

LEMMA InitTyped == Init => TypeOK
BY ClearedTyped, FreshTyped, CountsAssumption DEF Init, TypeOK, Slot, Block

LEMMA CloseTyped ==
  ASSUME TypeOK, NEW c \in Slot, Close(c)
  PROVE  /\ pieces' \in [Piece -> {"MISSING", "FETCHING", "AVAILABLE"}]
         /\ failed' \subseteq Peer
         /\ peerConn' \in [Peer -> Slot \cup {NULL}]
         /\ active' \subseteq Slot
         /\ connPeer' \in [Slot -> Peer \cup {NULL}]
         /\ fd' \in [Slot -> Fd \cup {NULL}]
         /\ file' \in [Fd -> Slot \cup {NULL}]
         /\ deaf' \subseteq Slot
         /\ receiving' \in [Slot -> Piece \cup {NULL}]
         /\ conn' \in [Slot -> ConnType]
         /\ remote' \in [Slot -> RemoteType]
         /\ UNCHANGED <<state, disk, bits>>
BY CloseSlotsTyped, {c} \in SUBSET Slot DEF Close

LEMMA PeerConnInitTyped ==
  ASSUME TypeOK, NEW c \in Slot, PeerConnInit(c)
  PROVE  TypeOK'
<1> USE DEF PeerConnInit, torrentVars, linkVars, fdVars
<1>1. CASE UNCHANGED <<linkVars, conn, remote>>
  BY <1>1, NextSlotTyped DEF TypeOK
<1>2. ASSUME NEW q \in Peer, Connect(c, q)
      PROVE  TypeOK'
  <2>1. conn' \in [Slot -> ConnType]
    <3>1. [ClearedConn EXCEPT !.in = In("handshake"), !.out = Out("handshake")]
            \in ConnType
      BY ClearedTyped, InTyped, OutTyped DEF ConnType
    <3>. QED  BY <1>2, <3>1 DEF TypeOK, Connect
  <2>2. remote' \in [Slot -> RemoteType]
    BY <1>2, FreshTyped DEF TypeOK, Connect
  <2>. QED  BY <1>2, <2>1, <2>2, NextSlotTyped DEF TypeOK, Connect
<1>3. ASSUME NEW q \in Peer, Refuse(q)
      PROVE  TypeOK'
  BY <1>3, NextSlotTyped DEF TypeOK, Refuse
<1>. QED  BY <1>1, <1>2, <1>3 DEF Eligible

\* The fields of a slot the sending half assigns.
LEMMA SendFieldsTyped ==
  ASSUME NEW r \in ConnType, NEW out \in OutTrans, NEW req \in SUBSET Nat
  PROVE  /\ [r EXCEPT !.out = out] \in ConnType
         /\ [r EXCEPT !.block = 0, !.out = out] \in ConnType
         /\ [r EXCEPT !.req_blocks = req, !.block = 0, !.out = out] \in ConnType
         /\ [r EXCEPT !.req_blocks = req, !.ask_blocks = FALSE, !.age = 0,
                      !.out = out] \in ConnType
         /\ [r EXCEPT !.block = 0, !.blocks = {}, !.req_blocks = {},
                      !.ask_blocks = TRUE, !.interested = TRUE,
                      !.out = out] \in ConnType
<1>1. [r EXCEPT !.out = out] \in ConnType
  BY DEF ConnType
<1>2. [r EXCEPT !.block = 0, !.out = out] \in ConnType
  BY DEF ConnType
<1>3. [r EXCEPT !.req_blocks = req, !.block = 0, !.out = out] \in ConnType
  BY DEF ConnType
<1>4. [r EXCEPT !.req_blocks = req, !.ask_blocks = FALSE, !.age = 0,
                !.out = out] \in ConnType
  <2>1. 0 \in 0 .. RequestTimeout
    BY CountsAssumption
  <2>. QED  BY <2>1 DEF ConnType
<1>5. [r EXCEPT !.block = 0, !.blocks = {}, !.req_blocks = {},
                !.ask_blocks = TRUE, !.interested = TRUE, !.out = out] \in ConnType
  BY DEF ConnType
<1>. QED  BY <1>1, <1>2, <1>3, <1>4, <1>5, Zenon

LEMMA DecideTyped ==
  ASSUME TypeOK, NEW c \in Slot, Decide(c)
  PROVE  /\ state' \in {"T_RUNNING", "T_COMPLETE"}
         /\ pieces' \in [Piece -> {"MISSING", "FETCHING", "AVAILABLE"}]
         /\ receiving' \in [Slot -> Piece \cup {NULL}]
         /\ conn' \in [Slot -> ConnType]
<1>1. conn \in [Slot -> ConnType] /\ conn[c] \in ConnType
  BY DEF TypeOK
<1>2. Out("none") \in OutTrans /\ UpdateInterest(c) \in OutTrans
  BY OutTyped DEF UpdateInterest
<1>3. Requested(c) \in SUBSET Nat
  BY <1>1 DEF Requested, ConnType
<1>4. ASSUME NEW p \in Piece, SetupPiece(c, p)
      PROVE  conn' \in [Slot -> ConnType]
  BY <1>1, <1>2, <1>4, SendFieldsTyped DEF SetupPiece
<1>5. CASE NothingToFetch(c)
  <2>1. conn' \in [Slot -> ConnType]
    BY <1>1, <1>2, <1>5, SendFieldsTyped DEF NothingToFetch
  <2>. QED  BY <1>5, <2>1 DEF NothingToFetch, TypeOK
<1>6. CASE SendBlockRequests(c)
  <2>1. receiving[c] \in Piece
    BY <1>6 DEF SendBlockRequests, AsksBlocks, TypeOK
  <2>2. Batch(c) \in SUBSET Block(receiving[c])
    BY DEF Batch, FreshBlocks, MissingBlocks
  <2>3. [type |-> "request", reqs |-> {receiving[c]} \X Batch(c)] \in OutTrans
    BY <2>1, <2>2, RequestMade DEF OutTrans
  <2>4. Requested(c) \cup Batch(c) \in SUBSET Nat
    BY <1>3, <2>1, <2>2, BlockCountAssumption DEF Block
  <2>5. conn' \in [Slot -> ConnType]
    BY <1>1, <1>6, <2>3, <2>4, SendFieldsTyped DEF SendBlockRequests
  <2>. QED  BY <1>6, <2>5 DEF SendBlockRequests, TypeOK
<1>7. CASE AwaitBlocks(c)
  <2>1. conn' \in [Slot -> ConnType]
    BY <1>1, <1>2, <1>7, SendFieldsTyped DEF AwaitBlocks
  <2>. QED  BY <1>7, <2>1 DEF AwaitBlocks, TypeOK
<1>8. CASE FinishPiece(c)
  <2>1. conn' \in [Slot -> ConnType]
    BY <1>1, <1>2, <1>3, <1>8, SendFieldsTyped DEF FinishPiece
  <2>. QED  BY <1>8, <2>1 DEF FinishPiece, TypeOK
<1>9. CASE Idle(c)
  <2>1. conn' \in [Slot -> ConnType]
    BY <1>1, <1>2, <1>9, SendFieldsTyped DEF Idle
  <2>. QED  BY <1>9, <2>1 DEF Idle, TypeOK
<1>. QED  BY <1>4, <1>5, <1>6, <1>7, <1>8, <1>9 DEF Decide, SetupPiece, TypeOK

LEMMA DeliveredTyped ==
  ASSUME TypeOK, NEW c \in Slot, NEW heeded
  PROVE  Delivered(c, heeded) \in RemoteType
<1>1. \A r \in Request : remote[c].owed[r] \in 0 .. MaxOwed
  BY DEF TypeOK, RemoteType
<1>. DEFINE asked(r) == IF remote[c].owed[r] < MaxOwed THEN remote[c].owed[r] + 1
                                                      ELSE MaxOwed
            owed == [r \in Request |-> IF r \in heeded
                                       THEN asked(r) ELSE remote[c].owed[r]]
<1>2. owed \in [Request -> 0 .. MaxOwed]
  BY <1>1, CountsAssumption
<1>3. remote[c].told \in BOOLEAN
  BY DEF TypeOK, RemoteType
<1>4. (remote[c].told \/ conn[c].out.type = "interested") \in BOOLEAN
  OBVIOUS
<1>5. Delivered(c, heeded) = [owed |-> owed,
                      told |-> remote[c].told \/ conn[c].out.type = "interested"]
  BY DEF Delivered
<1>. QED  BY <1>2, <1>4, <1>5 DEF RemoteType

LEMMA HandleOutTyped ==
  ASSUME TypeOK, NEW c \in Slot, HandleOut(c)
  PROVE  TypeOK'
<1> USE DEF SendTurn, torrentVars, linkVars, fdVars
<1>1. CASE SkipSend(c)
  BY <1>1, NextSlotTyped DEF SkipSend, TypeOK
<1>2. CASE SendFails(c)
  BY <1>2, NextSlotTyped, CloseTyped DEF SendFails, TypeOK
<1>3. CASE Send(c)
  <2>1. remote' \in [Slot -> RemoteType]
    BY <1>3, DeliveredTyped DEF Send, Reaches, TypeOK
  <2>. QED  BY <1>3, <2>1, NextSlotTyped, DecideTyped DEF Send, TypeOK
<1>. QED  BY <1>1, <1>2, <1>3 DEF HandleOut

\* The fields of a slot the receiving half assigns.
LEMMA ReceiveFieldsTyped ==
  ASSUME NEW r \in ConnType, NEW in \in InTrans, NEW flag \in BOOLEAN,
         NEW block \in Nat, NEW blocks \in SUBSET Nat
  PROVE  /\ [r EXCEPT !.in = in] \in ConnType
         /\ [r EXCEPT !.choking = flag] \in ConnType
         /\ [r EXCEPT !.interested = flag] \in ConnType
         /\ [r EXCEPT !.block = block, !.in = in] \in ConnType
         /\ [r EXCEPT !.in = in, !.ask_blocks = flag, !.blocks = blocks] \in ConnType
<1>1. [r EXCEPT !.in = in] \in ConnType
  BY DEF ConnType
<1>2. [r EXCEPT !.choking = flag] \in ConnType
  BY DEF ConnType
<1>3. [r EXCEPT !.interested = flag] \in ConnType
  BY DEF ConnType
<1>4. [r EXCEPT !.block = block, !.in = in] \in ConnType
  BY DEF ConnType
<1>5. [r EXCEPT !.in = in, !.ask_blocks = flag, !.blocks = blocks] \in ConnType
  BY DEF ConnType
<1>. QED  BY <1>1, <1>2, <1>3, <1>4, <1>5, Zenon

\* The block a piece message carries, while one is received.
LEMMA RequestUnderWay ==
  ASSUME TypeOK, NEW c \in Slot, conn[c].in.at = "data"
  PROVE  /\ conn[c].in \in [at : {"data"}, req : Request,
                            good : BOOLEAN, into : BOOLEAN]
         /\ conn[c].in.req \in Request
         /\ conn[c].in.req[1] \in Piece
         /\ conn[c].in.req[2] \in Nat
         /\ conn[c].in.into \in BOOLEAN
<1>1. conn[c].in \in InTrans
  BY DEF TypeOK, ConnType
<1>2. conn[c].in \in [at : {"data"}, req : Request, good : BOOLEAN, into : BOOLEAN]
  BY <1>1 DEF InTrans
<1>3. conn[c].in.req \in Request /\ conn[c].in.into \in BOOLEAN
  BY <1>2
<1>. QED  BY <1>2, <1>3, RequestParts

LEMMA WrittenTyped ==
  ASSUME TypeOK, NEW c \in Slot, conn[c].in.at = "data", NEW good \in BOOLEAN
  PROVE  Written(c, good) \in [Piece -> SUBSET Nat]
BY RequestUnderWay DEF Written, TypeOK

LEMMA OwedTyped ==
  ASSUME TypeOK, NEW c \in Slot, NEW r \in Request, remote[c].owed[r] > 0
  PROVE  [remote EXCEPT ![c].owed[r] = @ - 1] \in [Slot -> RemoteType]
<1>1. remote[c].owed \in [Request -> 0 .. MaxOwed] /\ remote[c] \in RemoteType
  BY DEF TypeOK, RemoteType
<1>. DEFINE owed == [remote[c].owed EXCEPT ![r] = @ - 1]
<1>2. owed \in [Request -> 0 .. MaxOwed]
  BY <1>1, CountsAssumption
<1>3. [remote[c] EXCEPT !.owed = owed] \in RemoteType
  <2>. HIDE DEF owed
  <2>. QED  BY <1>1, <1>2 DEF RemoteType
<1>4. [remote EXCEPT ![c] = [remote[c] EXCEPT !.owed = owed]] \in [Slot -> RemoteType]
  <2>. HIDE DEF owed
  <2>. QED  BY <1>3 DEF TypeOK
<1>. QED  BY <1>4

LEMMA HandleInTyped ==
  ASSUME TypeOK, NEW c \in Slot, HandleIn(c)
  PROVE  TypeOK'
<1>1. conn \in [Slot -> ConnType] /\ conn[c] \in ConnType
  BY DEF TypeOK
<1>. USE DEF Recv, ThenSend, torrentVars, linkVars, fdVars
<1>2. CASE ReceiveHandshake(c)
  <2>1. conn' \in [Slot -> ConnType]
    BY <1>1, <1>2, InTyped, ReceiveFieldsTyped DEF ReceiveHandshake
  <2>. QED  BY <1>2, <2>1 DEF ReceiveHandshake, TypeOK
<1>3. CASE ReceiveChoke(c)
  <2>1. conn' \in [Slot -> ConnType]
    BY <1>1, <1>3, InTyped, ReceiveFieldsTyped DEF ReceiveChoke
  <2>2. remote' \in [Slot -> RemoteType]
    <3>1. [r \in Request |-> 0] \in [Request -> 0 .. MaxOwed]
      BY CountsAssumption
    <3>2. [remote[c] EXCEPT !.owed = [r \in Request |-> 0]] \in RemoteType
      BY <3>1 DEF TypeOK, RemoteType
    <3>. QED  BY <1>3, <3>2 DEF ReceiveChoke, TypeOK
  <2>. QED  BY <1>3, <2>1, <2>2 DEF ReceiveChoke, TypeOK
<1>4. CASE ReceiveUnchoke(c)
  <2>1. conn' \in [Slot -> ConnType]
    BY <1>1, <1>4, InTyped, ReceiveFieldsTyped DEF ReceiveUnchoke
  <2>. QED  BY <1>4, <2>1 DEF ReceiveUnchoke, TypeOK
<1>5. CASE ReceiveInterested(c)
  <2>1. conn' \in [Slot -> ConnType]
    BY <1>1, <1>5, InTyped, ReceiveFieldsTyped DEF ReceiveInterested
  <2>. QED  BY <1>5, <2>1 DEF ReceiveInterested, TypeOK
<1>6. CASE ReceiveHave(c) \/ ReceiveBitset(c)
  <2>1. bits' \in [Peer -> SUBSET Piece]
    BY <1>6, ContentAssumption DEF ReceiveHave, ReceiveBitset, TypeOK
  <2>. QED  BY <1>6, <2>1 DEF ReceiveHave, ReceiveBitset, TypeOK
<1>7. CASE ReceivePiece(c)
  <2>1. conn' \in [Slot -> ConnType]
    BY <1>1, <1>7, InTyped, ReceiveFieldsTyped DEF ReceivePiece
  <2>. QED  BY <1>7, <2>1 DEF ReceivePiece, TypeOK
<1>8. CASE ConvCrash(c)
  BY <1>8 DEF ConvCrash, TypeOK
<1>9. CASE ConvOutOfBounds(c)
  BY <1>9, CloseTyped DEF ConvOutOfBounds, TypeOK
<1>10. CASE ConvPiece(c)
  <2>1. PICK r \in Request, good \in BOOLEAN :
          /\ Sends(c, r)
          /\ conn' = [conn EXCEPT ![c] = [@ EXCEPT !.block = r[2],
                        !.in = [at |-> "data", req |-> r, good |-> good,
                                into |-> r[1] = receiving[c]]]]
          /\ remote' = IF Private(c) THEN [remote EXCEPT ![c].owed[r] = @ - 1]
                                     ELSE remote
    BY <1>10 DEF ConvPiece
  <2>2. [at |-> "data", req |-> r, good |-> good, into |-> r[1] = receiving[c]]
          \in InTrans
    BY DEF InTrans
  <2>3. conn' \in [Slot -> ConnType]
    BY <1>1, <2>1, <2>2, RequestParts, ReceiveFieldsTyped
  <2>4. remote' \in [Slot -> RemoteType]
    BY <2>1, OwedTyped DEF Sends, TypeOK
  <2>. QED  BY <1>10, <2>3, <2>4 DEF ConvPiece, TypeOK
<1>11. CASE ReceivePart(c)
  <2>1. PICK good \in BOOLEAN :
          /\ disk' = IF good THEN disk ELSE Written(c, FALSE)
          /\ conn' = [conn EXCEPT ![c].in = Resumed(c, good)]
    BY <1>11 DEF ReceivePart
  <2>2. Resumed(c, good) \in InTrans
    BY <1>11, RequestUnderWay DEF ReceivePart, Resumed, InTrans, Intended
  <2>3. conn' \in [Slot -> ConnType]
    BY <1>1, <2>1, <2>2, ReceiveFieldsTyped
  <2>4. disk' \in [Piece -> SUBSET Nat]
    BY <1>11, <2>1, WrittenTyped DEF ReceivePart, TypeOK
  <2>. QED  BY <1>11, <2>3, <2>4 DEF ReceivePart, TypeOK
<1>12. CASE ReceiveData(c)
  <2>1. (conn[c].ask_blocks \/ Intended(c)) \in BOOLEAN
    BY DEF Intended
  <2>2. Marked(c) \in SUBSET Nat /\ conn[c].blocks \in SUBSET Nat
    BY <1>1 DEF Marked, ConnType
  <2>3. conn' \in [Slot -> ConnType]
    <3>. DEFINE blocks == IF Intended(c) THEN Marked(c) ELSE conn[c].blocks
                flag == conn[c].ask_blocks \/ Intended(c)
    <3>1. blocks \in SUBSET Nat /\ flag \in BOOLEAN
      BY <2>1, <2>2
    <3>2. conn' = [conn EXCEPT ![c] = [conn[c] EXCEPT !.in = In("header"),
                                 !.ask_blocks = flag, !.blocks = blocks]]
      BY <1>12 DEF ReceiveData
    <3>. HIDE DEF blocks, flag
    <3>. QED  BY <1>1, <3>1, <3>2, InTyped, ReceiveFieldsTyped
  <2>4. disk' \in [Piece -> SUBSET Nat]
    BY <1>12, WrittenTyped DEF ReceiveData
  <2>. QED  BY <1>12, <2>3, <2>4 DEF ReceiveData, TypeOK
<1>13. CASE RecvWaits(c)
  BY <1>13 DEF RecvWaits, TypeOK
<1>14. CASE RecvFails(c)
  BY <1>14, CloseTyped DEF RecvFails, TypeOK
<1>. QED  BY <1>2, <1>3, <1>4, <1>5, <1>6, <1>7, <1>8, <1>9, <1>10, <1>11, <1>12,
             <1>13, <1>14 DEF HandleIn

LEMMA PollerUpdateTyped ==
  ASSUME TypeOK, PollerUpdate
  PROVE  TypeOK'
<1>1. ASSUME NEW c \in Slot
      PROVE  [conn[c] EXCEPT !.age = Aged(c)] \in ConnType
  <2>. DEFINE age == Aged(c)
  <2>1. conn[c] \in ConnType
    BY DEF TypeOK
  <2>2. age \in 0 .. RequestTimeout
    BY <2>1, CountsAssumption DEF Aged, ConnType
  <2>3. [conn[c] EXCEPT !.age = age] \in ConnType
    <3>. HIDE DEF age
    <3>. QED  BY <2>1, <2>2 DEF ConnType
  <2>. QED  BY <2>3
<1>2. conn' \in [Slot -> ConnType]
  BY <1>1 DEF PollerUpdate
<1>3. /\ file' \in [Fd -> Slot \cup {NULL}]
      /\ deaf' \subseteq Slot
      /\ remote' \in [Slot -> RemoteType]
  BY FreshTyped DEF PollerUpdate, Closed, Gone, TypeOK
<1>. QED  BY <1>2, <1>3 DEF PollerUpdate, TypeOK, torrentVars

\* Every step keeps the variables in their types.
LEMMA NextTyped == TypeOK /\ [Next]_vars => TypeOK'
<1>. SUFFICES ASSUME TypeOK, [Next]_vars
              PROVE  TypeOK'
  OBVIOUS
<1>. USE DEF torrentVars, linkVars, fdVars
<1>1. ASSUME NEW c \in Slot, Step(c)
      PROVE  TypeOK'
  BY <1>1, PeerConnInitTyped, HandleInTyped, HandleOutTyped DEF Step
<1>2. CASE Break
  BY <1>2, CountsAssumption DEF Break, TypeOK, Slot
<1>3. CASE PollerUpdate
  BY <1>3, PollerUpdateTyped
<1>4. CASE LoopExit
  BY <1>4, CloseSlotsTyped DEF LoopExit, TypeOK
<1>5. CASE Sigint
  BY <1>5 DEF Sigint, TypeOK
<1>6. CASE UNCHANGED vars
  BY <1>6 DEF vars, TypeOK
<1>. QED  BY <1>1, <1>2, <1>3, <1>4, <1>5, <1>6 DEF Next, Loop, Terminated

\* The variables of the leech keep their types, whatever peers do and in
\* whatever order the slots are served.
THEOREM TypeCorrect == Spec => []TypeOK
BY InitTyped, NextTyped, PTL DEF Spec

-----------------------------------------------------------------------------
(* Descriptors *)

\* An active slot holds a number, and the connection behind a number is that of a
\* slot which holds it.
Numbered ==
  /\ \A c \in Slot : c \in active <=> fd[c] # NULL
  /\ \A f \in Fd, c \in Slot : file[f] = c => fd[c] = f

\* What a step does to the numbers: four kinds of it.
FdStep ==
  \/ \E S \in SUBSET Slot : CloseSlots(S)
  \/ \E c \in Slot, q \in Peer : c \notin active /\ Connect(c, q)
  \/ PollerUpdate
  \/ /\ UNCHANGED <<active, fd, file>>
     /\ deaf' = deaf \/ \E c \in active : ~Linked(c)

LEMMA FdSteps ==
  ASSUME TypeOK, [Next]_vars
  PROVE  FdStep
<1>. USE DEF linkVars, fdVars
<1>1. ASSUME NEW c \in Slot, Close(c)
      PROVE  FdStep
  BY <1>1, {c} \in SUBSET Slot DEF Close, FdStep
<1>2. ASSUME NEW c \in Slot, PeerConnInit(c)
      PROVE  FdStep
  <2>1. CASE UNCHANGED linkVars
    BY <2>1 DEF FdStep
  <2>2. ASSUME NEW q \in Peer, Connect(c, q) PROVE FdStep
    BY <1>2, <2>2 DEF PeerConnInit, FdStep
  <2>3. ASSUME NEW q \in Peer, Refuse(q) PROVE FdStep
    BY <2>3 DEF Refuse, FdStep
  <2>. QED  BY <1>2, <2>1, <2>2, <2>3 DEF PeerConnInit, Eligible
<1>3. ASSUME NEW c \in Slot, HandleIn(c)
      PROVE  FdStep
  <2>1. CASE ConvOutOfBounds(c) \/ RecvFails(c)
    BY <1>1, <2>1 DEF ConvOutOfBounds, RecvFails
  <2>2. CASE RecvWaits(c)
    BY <2>2 DEF RecvWaits, FdStep
  <2>3. CASE \/ ReceiveHandshake(c) \/ ReceiveChoke(c) \/ ReceiveUnchoke(c)
             \/ ReceiveInterested(c) \/ ReceiveHave(c) \/ ReceiveBitset(c)
             \/ ReceivePiece(c) \/ ConvCrash(c) \/ ConvPiece(c)
             \/ ReceivePart(c) \/ ReceiveData(c)
    <3>1. UNCHANGED linkVars
      BY <2>3 DEF ReceiveHandshake, ReceiveChoke, ReceiveUnchoke, ReceiveInterested,
         ReceiveHave, ReceiveBitset, ReceivePiece, ConvCrash, ConvPiece,
         ReceivePart, ReceiveData
    <3>. QED  BY <3>1 DEF FdStep
  <2>. QED  BY <1>3, <2>1, <2>2, <2>3 DEF HandleIn
<1>4. ASSUME NEW c \in Slot, HandleOut(c)
      PROVE  FdStep
  BY <1>1, <1>4 DEF HandleOut, SkipSend, SendFails, Send, FdStep
<1>5. CASE Break \/ Sigint \/ UNCHANGED vars
  BY <1>5 DEF Break, Sigint, vars, FdStep
<1>6. CASE LoopExit
  BY <1>6, Slot \in SUBSET Slot DEF LoopExit, FdStep
<1>. QED  BY <1>2, <1>3, <1>4, <1>5, <1>6 DEF Next, Loop, Step, Terminated, FdStep

LEMMA InitNumbered == Init => Numbered
BY NullAssumption DEF Init, Numbered, Fd, Slot

LEMMA NextNumbered ==
  ASSUME TypeOK, Numbered, [Next]_vars
  PROVE  Numbered'
<1>. USE NullAssumption DEF Numbered, TypeOK
<1>1. ASSUME NEW S \in SUBSET Slot, CloseSlots(S)
      PROVE  Numbered'
  <2>1. \A c \in Slot : c \in active' <=> fd'[c] # NULL
    BY <1>1 DEF CloseSlots
  <2>2. ASSUME NEW f \in Fd, NEW c \in Slot, file'[f] = c
        PROVE  fd'[c] = f
    <3>1. file[f] = c /\ f \notin {fd[d] : d \in S}
      BY <1>1, <2>2 DEF CloseSlots, Closed
    <3>2. c \notin S
      BY <3>1
    <3>. QED  BY <1>1, <3>1, <3>2 DEF CloseSlots
  <2>. QED  BY <2>1, <2>2
<1>2. ASSUME NEW c \in Slot, NEW q \in Peer, c \notin active, Connect(c, q)
      PROVE  Numbered'
  <2>1. PICK f \in Fd : /\ fd' = [fd EXCEPT ![c] = f]
                       /\ file' = [file EXCEPT ![f] = c]
                       /\ active' = active \cup {c}
    BY <1>2 DEF Connect
  <2>2. f # NULL
    BY DEF Fd, Slot
  <2>3. \A d \in Slot : d \in active' <=> fd'[d] # NULL
    BY <2>1, <2>2
  <2>4. \A g \in Fd, d \in Slot : file'[g] = d => fd'[d] = g
    BY <1>2, <2>1 DEF Fd, Slot
  <2>. QED  BY <2>3, <2>4
<1>3. CASE PollerUpdate
  BY <1>3 DEF PollerUpdate, Closed
<1>4. CASE UNCHANGED <<active, fd, file>>
  BY <1>4
<1>. HIDE DEF Numbered, TypeOK
<1>. QED  BY <1>1, <1>2, <1>3, <1>4, FdSteps DEF FdStep

\* A slot that keeps its connection for itself through a close is left as it is.
LEMMA CloseLeaves ==
  ASSUME TypeOK, NEW S \in SUBSET Slot, CloseSlots(S), NEW d \in Slot, Private(d)'
  PROVE  /\ Private(d) /\ d \notin S
         /\ conn'[d] = conn[d] /\ remote'[d] = remote[d] /\ receiving'[d] = receiving[d]
<1>. DEFINE nums == {fd[c] : c \in S}
            robbed == {c \in Slot \ S : Linked(c) /\ fd[c] \in nums}
<1>1. d \notin S /\ fd'[d] = fd[d] /\ fd[d] \in Fd
  BY DEF CloseSlots, Private, Linked, TypeOK
<1>2. fd[d] \notin nums /\ file[fd[d]] = d
  BY <1>1, NullAssumption DEF CloseSlots, Closed, Private, Linked
<1>3. \A e \in Slot : fd[e] = fd[d] => e = d
  BY <1>1, <1>2 DEF CloseSlots, Private
<1>4. Private(d)
  BY <1>1, <1>2, <1>3, NullAssumption DEF Private, Linked, Fd, Slot
<1>5. remote' = Gone(S \cup robbed)
  BY DEF CloseSlots
<1>6. remote'[d] = remote[d]
  BY <1>1, <1>2, <1>5 DEF Gone
<1>. QED  BY <1>1, <1>4, <1>6 DEF CloseSlots

\* So it is through poller_update.
LEMMA PollerKeeps ==
  ASSUME TypeOK, PollerUpdate, NEW d \in Slot, Private(d)'
  PROVE  Private(d) /\ remote'[d] = remote[d] /\ receiving'[d] = receiving[d]
<1>1. PICK S \in SUBSET {c \in Slot : Linked(c)} :
        file' = Closed({fd[c] : c \in S}) /\ remote' = Gone(S)
  BY DEF PollerUpdate
<1>2. fd' = fd /\ receiving' = receiving
  BY DEF PollerUpdate
<1>3. fd[d] \in Fd /\ fd[d] \notin {fd[c] : c \in S} /\ file[fd[d]] = d
  BY <1>1, <1>2, NullAssumption DEF Private, Linked, Closed, TypeOK
<1>4. Private(d)
  BY <1>2, <1>3, NullAssumption DEF Private, Linked, Fd, Slot
<1>. QED  BY <1>1, <1>2, <1>3, <1>4 DEF Gone

\* A connection that is shared stays so until it is closed: a slot has one for
\* itself only from the connect on.
LEMMA PrivateKept ==
  ASSUME TypeOK, Numbered, [Next]_vars, NEW d \in Slot, Private(d)'
  PROVE  Private(d) \/ (d \notin active /\ \E q \in Peer : Connect(d, q))
<1>1. ASSUME NEW c \in Slot, NEW q \in Peer, c \notin active, Connect(c, q), c # d
      PROVE  Private(d)
  <2>1. PICK f \in Fd : /\ file[f] = NULL
                       /\ fd' = [fd EXCEPT ![c] = f]
                       /\ file' = [file EXCEPT ![f] = c]
    BY <1>1 DEF Connect, Lowest
  <2>2. fd'[d] = fd[d] /\ fd[d] \in Fd
    BY <1>1, <2>1 DEF TypeOK, Private, Linked
  <2>3. file[fd[d]] = d
    BY <1>1, <2>1, <2>2 DEF TypeOK, Private, Linked
  <2>4. fd[c] = NULL
    BY <1>1 DEF Numbered
  <2>5. \A e \in Slot : fd[e] = fd[d] => e = d
    BY <1>1, <2>1, <2>2, <2>4, NullAssumption DEF TypeOK, Private, Fd, Slot
  <2>. QED  BY <2>2, <2>3, <2>5, NullAssumption DEF Private, Linked, Fd, Slot
<1>2. CASE UNCHANGED <<active, fd, file>>
  BY <1>2 DEF Private, Linked
<1>. QED  BY <1>1, <1>2, FdSteps, CloseLeaves, PollerKeeps DEF FdStep

\* As long as no two slots hold one number, what is open behind a number is the
\* connection of the slot that holds it.
LEMMA OpenIsPrivate ==
  ASSUME TypeOK, Numbered, NoneShared, NEW c \in Slot, Open(c)
  PROVE  Private(c)
<1>1. fd[c] \in Fd /\ file[fd[c]] \in Slot
  BY DEF TypeOK, Open
<1>2. fd[file[fd[c]]] = fd[c]
  BY <1>1 DEF Numbered
<1>3. file[fd[c]] = c
  BY <1>1, <1>2 DEF NoneShared, Open
<1>. QED  BY <1>1, <1>3 DEF Private, Linked, NoneShared, Open

-----------------------------------------------------------------------------
(* Ownership of pieces and peers *)

ownVars == <<state, pieces, receiving, failed, peerConn, active, connPeer>>

\* What a step does to the marks, the slots and the peers: seven kinds of it.
StepKind ==
  \/ \E S \in SUBSET Slot : CloseSlots(S) /\ UNCHANGED state
  \/ \E c \in Slot, q \in Eligible :
       c \notin active /\ Connect(c, q) /\ UNCHANGED <<state, pieces, receiving>>
  \/ \E q \in Eligible : Refuse(q) /\ UNCHANGED <<state, pieces, receiving>>
  \/ \E c \in active, p \in Piece : SetupPiece(c, p) /\ UNCHANGED linkVars
  \/ \E c \in active : NothingToFetch(c) /\ UNCHANGED linkVars
  \/ \E c \in active : FinishPiece(c) /\ UNCHANGED linkVars
  \/ UNCHANGED ownVars

LEMMA StepKinds ==
  ASSUME TypeOK, [Next]_vars
  PROVE  StepKind
<1>. USE DEF torrentVars, linkVars, fdVars, ownVars
<1>1. ASSUME NEW c \in Slot, Close(c)
      PROVE  StepKind
  BY <1>1, {c} \in SUBSET Slot DEF Close, StepKind
<1>2. ASSUME NEW c \in Slot, PeerConnInit(c)
      PROVE  StepKind
  BY <1>2 DEF PeerConnInit, StepKind
<1>3. ASSUME NEW c \in Slot, HandleIn(c)
      PROVE  StepKind
  <2>1. CASE ConvOutOfBounds(c) \/ RecvFails(c)
    BY <1>1, <2>1 DEF ConvOutOfBounds, RecvFails
  <2>2. CASE \/ ReceiveHandshake(c) \/ ReceiveChoke(c) \/ ReceiveUnchoke(c)
             \/ ReceiveInterested(c) \/ ReceiveHave(c) \/ ReceiveBitset(c)
             \/ ReceivePiece(c) \/ ConvCrash(c) \/ ConvPiece(c)
             \/ ReceivePart(c) \/ ReceiveData(c) \/ RecvWaits(c)
    <3>1. UNCHANGED ownVars
      BY <2>2 DEF ReceiveHandshake, ReceiveChoke, ReceiveUnchoke, ReceiveInterested,
         ReceiveHave, ReceiveBitset, ReceivePiece, ConvCrash, ConvPiece,
         ReceivePart, ReceiveData, RecvWaits
    <3>. QED  BY <3>1 DEF StepKind
  <2>. QED  BY <1>3, <2>1, <2>2 DEF HandleIn
<1>4. ASSUME NEW c \in Slot, HandleOut(c)
      PROVE  StepKind
  <2>1. CASE SkipSend(c)
    BY <2>1 DEF SkipSend, StepKind
  <2>2. CASE SendFails(c)
    BY <1>1, <2>2 DEF SendFails
  <2>3. CASE Send(c)
    <3>1. c \in active /\ UNCHANGED linkVars /\ Decide(c)
      BY <2>3 DEF Send
    <3>2. CASE SendBlockRequests(c) \/ AwaitBlocks(c) \/ Idle(c)
      BY <3>1, <3>2 DEF SendBlockRequests, AwaitBlocks, Idle, StepKind
    <3>. QED  BY <3>1, <3>2 DEF Decide, StepKind
  <2>. QED  BY <1>4, <2>1, <2>2, <2>3 DEF HandleOut
<1>5. CASE Break \/ PollerUpdate \/ Sigint \/ UNCHANGED vars
  <2>1. UNCHANGED ownVars
    BY <1>5 DEF Break, PollerUpdate, Sigint, vars
  <2>. QED  BY <2>1 DEF StepKind
<1>6. CASE LoopExit
  BY <1>6, Slot \in SUBSET Slot DEF LoopExit, StepKind
<1>. QED  BY <1>2, <1>3, <1>4, <1>5, <1>6 DEF Next, Loop, Step, Terminated

\* The inductive invariant: a slot that holds a piece must be active, and an
\* active slot have a peer, for a close to give both back.
Inv == TypeOK /\ Numbered /\ SlotOwnsPiece /\ PeerLink /\ CompleteSound

LEMMA InitInv == Init => Inv
<1>. SUFFICES ASSUME Init PROVE Inv
  OBVIOUS
<1>1. TypeOK /\ Numbered
  BY InitTyped, InitNumbered
<1>2. SlotOwnsPiece
  BY DEF Init, SlotOwnsPiece, FetchersHold, FetchersDistinct, FetchingHeld
<1>3. PeerLink
  BY NullAssumption DEF Init, PeerLink
<1>4. CompleteSound
  BY DEF Init, CompleteSound
<1>. QED  BY <1>1, <1>2, <1>3, <1>4 DEF Inv

\* Closing any set of slots keeps the rest consistent.
LEMMA CloseInv ==
  ASSUME Inv, NEW S \in SUBSET Slot, CloseSlots(S), UNCHANGED state
  PROVE  SlotOwnsPiece' /\ PeerLink' /\ CompleteSound'
<1>. USE DEF Inv, TypeOK, CloseSlots
<1>1. SlotOwnsPiece'
  BY NullAssumption DEF SlotOwnsPiece, FetchersHold, FetchersDistinct, FetchingHeld, Released
<1>2. PeerLink'
  <2>1. \A c \in Slot : c \in active' <=> connPeer'[c] # NULL
    BY DEF PeerLink
  <2>2. \A c \in Slot, q \in Peer : connPeer'[c] = q <=> peerConn'[q] = c
    BY NullAssumption DEF PeerLink
  <2>3. \A q \in failed' : peerConn'[q] = NULL
    BY DEF PeerLink
  <2>. QED  BY <2>1, <2>2, <2>3 DEF PeerLink
<1>3. CompleteSound'
  BY NullAssumption DEF CompleteSound, Released, SlotOwnsPiece, FetchersHold
<1>. QED  BY <1>1, <1>2, <1>3

LEMMA SetupInv ==
  ASSUME Inv, NEW c \in active, NEW p \in Piece, SetupPiece(c, p), UNCHANGED linkVars
  PROVE  SlotOwnsPiece' /\ PeerLink' /\ CompleteSound'
<1>. USE DEF Inv, TypeOK, SetupPiece, Selects, Candidates, linkVars
<1>1. SlotOwnsPiece'
  BY NullAssumption DEF SlotOwnsPiece, FetchersHold, FetchersDistinct, FetchingHeld
<1>2. CompleteSound'
  BY DEF CompleteSound
<1>. QED  BY <1>1, <1>2 DEF PeerLink

LEMMA FinishInv ==
  ASSUME Inv, NEW c \in active, FinishPiece(c), UNCHANGED linkVars
  PROVE  SlotOwnsPiece' /\ PeerLink' /\ CompleteSound'
<1>. USE DEF Inv, TypeOK, FinishPiece, AsksBlocks, linkVars
<1>1. SlotOwnsPiece'
  BY NullAssumption DEF SlotOwnsPiece, FetchersHold, FetchersDistinct, FetchingHeld
<1>2. CompleteSound'
  BY DEF CompleteSound
<1>. QED  BY <1>1, <1>2 DEF PeerLink

LEMMA ConnectInv ==
  ASSUME Inv, NEW c \in Slot, NEW q \in Eligible, c \notin active, Connect(c, q),
         UNCHANGED <<state, pieces, receiving>>
  PROVE  SlotOwnsPiece' /\ PeerLink' /\ CompleteSound'
<1>. USE DEF Inv, TypeOK, Connect, Eligible
<1>1. SlotOwnsPiece'
  BY DEF SlotOwnsPiece, FetchersHold, FetchersDistinct, FetchingHeld
<1>2. PeerLink'
  BY NullAssumption DEF PeerLink
<1>. QED  BY <1>1, <1>2 DEF CompleteSound

LEMMA NextInv == Inv /\ [Next]_vars => Inv'
<1>. SUFFICES ASSUME Inv, [Next]_vars
              PROVE  Inv'
  OBVIOUS
<1>1. TypeOK' /\ Numbered'
  BY NextTyped, NextNumbered DEF Inv
<1>2. SlotOwnsPiece' /\ PeerLink' /\ CompleteSound'
  <2>1. ASSUME NEW q \in Eligible, Refuse(q), UNCHANGED <<state, pieces, receiving>>
        PROVE  SlotOwnsPiece' /\ PeerLink' /\ CompleteSound'
    BY <2>1 DEF Inv, Refuse, Eligible, SlotOwnsPiece, FetchersHold, FetchersDistinct,
                FetchingHeld, PeerLink, CompleteSound
  <2>2. ASSUME NEW c \in active, NothingToFetch(c), UNCHANGED linkVars
        PROVE  SlotOwnsPiece' /\ PeerLink' /\ CompleteSound'
    BY <2>2 DEF Inv, NothingToFetch, HasNoMissing, linkVars, SlotOwnsPiece, FetchersHold,
                FetchersDistinct, FetchingHeld, PeerLink, CompleteSound
  <2>3. CASE UNCHANGED ownVars
    BY <2>3 DEF Inv, ownVars, linkVars, SlotOwnsPiece, FetchersHold,
                FetchersDistinct, FetchingHeld, PeerLink, CompleteSound
  <2>. QED  BY <2>1, <2>2, <2>3, StepKinds, CloseInv, ConnectInv, SetupInv, FinishInv
            DEF Inv, StepKind
<1>. QED  BY <1>1, <1>2 DEF Inv

LEMMA InvHolds == Spec => []Inv
BY InitInv, NextInv, PTL DEF Spec

\* Every slot has its connection for itself, and hears of what arrives on it.
Alone == deaf = {} /\ \A c \in active : Private(c)

LEMMA NextAlone ==
  ASSUME "hangup" \notin Faults, Inv, Alone, [Next]_vars
  PROVE  Alone'
<1>. TypeOK /\ Numbered
  BY DEF Inv
<1>. USE NullAssumption DEF TypeOK, Numbered, Alone, Private, Linked
<1>1. ASSUME NEW S \in SUBSET Slot, CloseSlots(S)
      PROVE  Alone'
  <2>. DEFINE nums == {fd[c] : c \in S}
              robbed == {c \in Slot \ S : Linked(c) /\ fd[c] \in nums}
  <2>1. robbed = {}
    <3>1. ASSUME NEW d \in robbed PROVE FALSE
      <4>1. PICK c \in S : fd[d] = fd[c]
        OBVIOUS
      <4>2. d \in active /\ c # d
        OBVIOUS
      <4>. QED  BY <4>1, <4>2
    <3>. QED  BY <3>1
  <2>2. PICK D \in SUBSET robbed : deaf' = (deaf \ S) \cup D
    BY <1>1 DEF CloseSlots
  <2>3. deaf' = {}
    BY <2>1, <2>2
  <2>4. ASSUME NEW d \in active' PROVE Private(d)'
    <3>1. d \in active \ S /\ d \in Slot
      BY <1>1, <2>4 DEF CloseSlots
    <3>2. fd'[d] = fd[d] /\ fd[d] \in Fd /\ file[fd[d]] = d
      BY <1>1, <3>1 DEF CloseSlots
    <3>3. fd[d] \notin nums
      BY <3>1, <3>2
    <3>4. file'[fd[d]] = d
      BY <1>1, <3>2, <3>3 DEF CloseSlots, Closed
    <3>5. \A e \in Slot : fd'[e] = fd'[d] => e = d
      BY <1>1, <3>1, <3>2 DEF CloseSlots
    <3>. QED  BY <3>2, <3>4, <3>5 DEF Fd, Slot
  <2>. QED  BY <2>3, <2>4
<1>2. ASSUME NEW c \in Slot, NEW q \in Peer, c \notin active, Connect(c, q)
      PROVE  Alone'
  <2>1. PICK f \in Fd : /\ file[f] = NULL
                       /\ fd' = [fd EXCEPT ![c] = f]
                       /\ file' = [file EXCEPT ![f] = c]
                       /\ active' = active \cup {c}
                       /\ deaf' = deaf
    BY <1>2 DEF Connect, Lowest
  <2>2. \A d \in active : fd[d] \in Fd /\ fd[d] # f
    BY <2>1
  <2>3. ASSUME NEW d \in active' PROVE Private(d)'
    <3>1. CASE d = c
      <4>1. fd'[c] = f /\ file'[f] = c /\ f # NULL
        BY <2>1 DEF Fd, Slot
      <4>2. ASSUME NEW e \in Slot, fd'[e] = f, e # c PROVE FALSE
        <5>1. fd[e] = f /\ e \in active
          BY <2>1, <4>1, <4>2
        <5>. QED  BY <2>2, <5>1
      <4>. QED  BY <3>1, <4>1, <4>2
    <3>2. CASE d # c
      <4>1. d \in active /\ fd'[d] = fd[d] /\ file'[fd[d]] = d
        BY <2>1, <2>2, <2>3, <3>2
      <4>2. fd[c] = NULL
        BY <1>2
      <4>. QED  BY <2>1, <2>2, <3>2, <4>1, <4>2
    <3>. QED  BY <3>1, <3>2
  <2>. QED  BY <2>1, <2>3
<1>3. CASE PollerUpdate
  <2>0. PICK S \in SUBSET {c \in Slot : Linked(c)} :
          /\ S # {} => "hangup" \in Faults
          /\ file' = Closed({fd[c] : c \in S})
          /\ \E D \in SUBSET S : deaf' = deaf \cup D
    BY <1>3 DEF PollerUpdate
  <2>1. S = {}
    BY <2>0
  <2>2. file' = file /\ deaf' = deaf
    BY <2>0, <2>1 DEF Closed
  <2>. QED  BY <1>3, <2>2 DEF PollerUpdate
<1>4. CASE UNCHANGED <<active, fd, file>> /\ (deaf' = deaf \/ \E c \in active : ~Linked(c))
  BY <1>4
<1>. HIDE DEF TypeOK, Numbered, Alone, Private, Linked
<1>. QED  BY <1>1, <1>2, <1>3, <1>4, FdSteps DEF FdStep

\* Only poller_update makes numbers that are still held free: where no connection
\* ends in an error event, no two slots ever hold one.
THEOREM NumbersKept == ("hangup" \notin Faults /\ Spec) => []NoneShared
<1>. SUFFICES ASSUME "hangup" \notin Faults
              PROVE  Spec => []NoneShared
  OBVIOUS
<1>1. Init => Alone
  BY DEF Init, Alone
<1>2. Inv /\ Alone /\ [Next]_vars => Alone'
  BY NextAlone
<1>3. Inv /\ Alone => NoneShared
  BY DEF Inv, Numbered, Alone, Private, NoneShared
<1>. QED  BY <1>1, <1>2, <1>3, InvHolds, PTL DEF Spec

\* The marks of the pieces and the slots that hold them agree in every state.
THEOREM OwnershipHolds == Spec => []SlotOwnsPiece
BY InvHolds, PTL DEF Inv

\* Slots and peers point at each other, and no failed peer is connected.
THEOREM PeerLinkHolds == Spec => []PeerLink
BY InvHolds, PTL DEF Inv

\* T_COMPLETE is never reported early nor becomes false.
THEOREM CompleteHolds == Spec => []CompleteSound
BY InvHolds, PTL DEF Inv

-----------------------------------------------------------------------------
(* Available pieces, and the refinement *)

Available == {p \in Piece : pieces[p] = "AVAILABLE"}

\* What a close does to the pieces: the available ones are not touched.
LEMMA CloseKeeps ==
  ASSUME Inv, NEW S \in SUBSET Slot, CloseSlots(S)
  PROVE  Available' = Available
BY NullAssumption DEF Inv, CloseSlots, Released, SlotOwnsPiece, FetchersHold, Available

LEMMA SetupKeeps ==
  ASSUME Inv, NEW c \in active, NEW p \in Piece, SetupPiece(c, p)
  PROVE  Available' = Available
BY DEF Inv, TypeOK, SetupPiece, Selects, Candidates, Available

LEMMA FinishAdds ==
  ASSUME Inv, NEW c \in active, FinishPiece(c)
  PROVE  /\ receiving[c] \in Piece
         /\ Available' = Available \cup {receiving[c]}
BY DEF Inv, TypeOK, FinishPiece, AsksBlocks, Available

LEMMA AvailableGrows == Inv /\ [Next]_vars => Available \subseteq Available'
<1>. SUFFICES ASSUME Inv, [Next]_vars
              PROVE  Available \subseteq Available'
  OBVIOUS
<1>1. StepKind
  BY StepKinds DEF Inv
<1>2. CASE \/ \E c \in Slot, q \in Eligible :
                c \notin active /\ Connect(c, q) /\ UNCHANGED <<state, pieces, receiving>>
           \/ \E q \in Eligible : Refuse(q) /\ UNCHANGED <<state, pieces, receiving>>
           \/ \E c \in active : NothingToFetch(c) /\ UNCHANGED linkVars
           \/ UNCHANGED ownVars
  BY <1>2 DEF Available, NothingToFetch, ownVars
<1>. QED  BY <1>1, <1>2, CloseKeeps, SetupKeeps, FinishAdds DEF StepKind

\* No step of any slot takes an available piece back.
THEOREM AvailableKept == Spec => AvailableForever
<1>1. Inv /\ [Next]_vars =>
        [\A p \in Piece : pieces[p] = "AVAILABLE" => pieces'[p] = "AVAILABLE"]_vars
  BY AvailableGrows DEF Available
<1>. QED  BY <1>1, InvHolds, PTL DEF Spec, AvailableForever

LEMMA AbstractInit == Init => Abstract!Init
BY DEF Init, Abstract!Init

\* Every step of the event loop is one of the abstract download, or changes
\* nothing of it.
LEMMA AbstractStep == Inv /\ [Next]_vars => [Abstract!Next]_(Abstract!vars)
<1>. SUFFICES ASSUME Inv, [Next]_vars
              PROVE  [Abstract!Next]_(Abstract!vars)
  OBVIOUS
<1>. USE DEF Available
<1>1. ASSUME NEW S \in SUBSET Slot, CloseSlots(S), UNCHANGED state
      PROVE  Abstract!Next
  <2>1. Abstract!Abandon(S)
    BY <1>1, CloseKeeps DEF Abstract!Abandon, CloseSlots
  <2>. QED  BY <2>1 DEF Abstract!Next
<1>2. ASSUME NEW c \in active, NEW p \in Piece, SetupPiece(c, p), UNCHANGED linkVars
      PROVE  Abstract!Next
  <2>1. p \in Abstract!Open
    BY <1>2, NullAssumption DEF Abstract!Open, Abstract!Claimed, SetupPiece, Selects,
       Candidates, Inv, SlotOwnsPiece, FetchersHold
  <2>2. Abstract!Claim(c, p)
    BY <1>2, <2>1, SetupKeeps DEF Abstract!Claim, SetupPiece
  <2>3. c \in Slot
    BY DEF Inv, TypeOK
  <2>. QED  BY <2>2, <2>3 DEF Abstract!Next
<1>3. ASSUME NEW c \in active, FinishPiece(c), UNCHANGED linkVars
      PROVE  Abstract!Next
  <2>1. Abstract!Acquire(c)
    BY <1>3, FinishAdds DEF Abstract!Acquire, FinishPiece, AsksBlocks
  <2>2. c \in Slot
    BY DEF Inv, TypeOK
  <2>. QED  BY <2>1, <2>2 DEF Abstract!Next
<1>4. ASSUME NEW c \in active, NothingToFetch(c), UNCHANGED linkVars
      PROVE  [Abstract!Next]_(Abstract!vars)
  <2>1. CASE HasNoMissing
    <3>1. Abstract!Finish
      BY <1>4, <2>1 DEF Abstract!Finish, NothingToFetch, HasNoMissing
    <3>. QED  BY <3>1 DEF Abstract!Next
  <2>2. CASE ~HasNoMissing
    BY <1>4, <2>2 DEF Abstract!vars, NothingToFetch
  <2>. QED  BY <2>1, <2>2
<1>5. ASSUME UNCHANGED <<state, pieces, receiving>>
      PROVE  UNCHANGED Abstract!vars
  BY <1>5 DEF Abstract!vars
<1>. QED  BY <1>1, <1>2, <1>3, <1>4, <1>5, StepKinds DEF StepKind, ownVars, Inv

\* The event loop implements the abstract download: whatever fails, pieces are
\* claimed by one slot at a time, and acquired or abandoned.
THEOREM Refinement == Spec => ImplementsDownload
BY AbstractInit, AbstractStep, InvHolds, PTL DEF Spec, ImplementsDownload, Abstract!Spec
=============================================================================
