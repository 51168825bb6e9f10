----------------------------- MODULE Blocks_proofs -----------------------------
(***************************************************************************)
(* Theorems about the blocks of EventLoop: two slots never write into one  *)
(* piece, whatever arrives on any connection, and as long as no number is  *)
(* shared and nothing corrupt comes, every mark is backed by bytes.        *)
(***************************************************************************)
EXTENDS EventLoop_proofs

-----------------------------------------------------------------------------
(* What each callback does to its slot *)

LEMMA ClearedIdle ==
  /\ ClearedConn.out.reqs = {}
  /\ ClearedConn.in.at = "none"
  /\ \A r \in Request : FreshRemote.owed[r] = 0
BY DEF ClearedConn, FreshRemote, In, Out

LEMMA ConvEffect ==
  ASSUME TypeOK, NEW c \in Slot, ConvPiece(c)
  PROVE  \E r \in Request, good \in BOOLEAN :
         /\ Sends(c, r) /\ (good \/ MayOccur(c, "corrupt"))
         /\ remote' = IF Private(c) THEN [remote EXCEPT ![c].owed[r] = @ - 1] ELSE remote
         /\ conn'[c].in.at = "data"
         /\ conn'[c].in.req = r
         /\ conn'[c].in.into = (r[1] = receiving[c])
         /\ conn'[c].in.good = good
         /\ conn'[c].block = r[2]
         /\ conn'[c].blocks = conn[c].blocks
         /\ conn'[c].out = conn[c].out
         /\ \A d \in Slot \ {c} : conn'[d] = conn[d]
<1>1. conn[c] \in ConnType /\ conn \in [Slot -> ConnType]
  BY DEF TypeOK
<1>2. PICK r \in Request, good \in BOOLEAN :
        /\ Sends(c, r) /\ (good \/ MayOccur(c, "corrupt"))
        /\ conn' = [conn EXCEPT ![c] = [@ EXCEPT !.block = r[2],
                      !.in = [at |-> "data", req |-> r, good |-> good,
                              into |-> r[1] = receiving[c]]]]
        /\ remote' = IF Private(c) THEN [remote EXCEPT ![c].owed[r] = @ - 1] ELSE remote
  BY DEF ConvPiece
<1>. DEFINE in == [at |-> "data", req |-> r, good |-> good, into |-> r[1] = receiving[c]]
<1>3. conn' = [conn EXCEPT ![c] = [conn[c] EXCEPT !.block = r[2], !.in = in]]
  BY <1>2
<1>4. /\ in.at = "data" /\ in.req = r
      /\ in.into = (r[1] = receiving[c]) /\ in.good = good
  OBVIOUS
<1>5. conn'[c] = [conn[c] EXCEPT !.block = r[2], !.in = in]
  BY <1>1, <1>3
<1>6. /\ conn'[c].in = in /\ conn'[c].block = r[2]
      /\ conn'[c].blocks = conn[c].blocks /\ conn'[c].out = conn[c].out
  <2>. HIDE DEF in
  <2>. QED  BY <1>1, <1>5 DEF ConnType
<1>7. \A d \in Slot \ {c} : conn'[d] = conn[d]
  BY <1>1, <1>3
<1>8. /\ conn'[c].in.at = "data" /\ conn'[c].in.req = r
      /\ conn'[c].in.into = (r[1] = receiving[c]) /\ conn'[c].in.good = good
  BY <1>4, <1>6, Zenon
<1>. QED  BY <1>2, <1>6, <1>7, <1>8, Zenon

LEMMA PartEffect ==
  ASSUME TypeOK, NEW c \in Slot, ReceivePart(c)
  PROVE  \E good \in BOOLEAN :
         /\ StaysGood(c, good)
         /\ disk' = IF good THEN disk ELSE Written(c, FALSE)
         /\ conn'[c].in.at = "data"
         /\ conn'[c].in.req = conn[c].in.req
         /\ conn'[c].in.into = (conn[c].in.into /\ Intended(c))
         /\ conn'[c].in.good = good
         /\ conn'[c].block = conn[c].block
         /\ conn'[c].blocks = conn[c].blocks
         /\ conn'[c].out = conn[c].out
         /\ \A d \in Slot \ {c} : conn'[d] = conn[d]
<1>1. conn[c].in \in [at : {"data"}, req : Request, good : BOOLEAN, into : BOOLEAN]
  BY RequestUnderWay DEF ReceivePart, Recv
<1>2. conn[c] \in ConnType /\ conn \in [Slot -> ConnType]
  BY DEF TypeOK
<1>3. PICK good \in BOOLEAN :
        /\ StaysGood(c, good)
        /\ disk' = IF good THEN disk ELSE Written(c, FALSE)
        /\ conn' = [conn EXCEPT ![c].in = Resumed(c, good)]
  BY DEF ReceivePart
<1>. DEFINE flag == conn[c].in.into /\ Intended(c)
            in == [conn[c].in EXCEPT !.good = good, !.into = flag]
<1>4. /\ Resumed(c, good) = in
      /\ in.at = "data" /\ in.req = conn[c].in.req /\ in.good = good
  BY <1>1 DEF Resumed
<1>5. in.into = flag
  <2>. HIDE DEF flag
  <2>. QED  BY <1>1
<1>6. /\ conn'[c].in = in /\ conn'[c].block = conn[c].block
      /\ conn'[c].blocks = conn[c].blocks /\ conn'[c].out = conn[c].out
      /\ \A d \in Slot \ {c} : conn'[d] = conn[d]
  <2>. HIDE DEF in
  <2>. QED  BY <1>2, <1>3, <1>4 DEF ConnType
<1>7. conn'[c].in.into = (conn[c].in.into /\ Intended(c))
  BY <1>5, <1>6, Zenon
<1>8. /\ conn'[c].in.at = "data" /\ conn'[c].in.req = conn[c].in.req
      /\ conn'[c].in.good = good
  BY <1>4, <1>6, Zenon
<1>. QED  BY <1>3, <1>6, <1>7, <1>8, Zenon

LEMMA DataEffect ==
  ASSUME TypeOK, NEW c \in Slot, ReceiveData(c)
  PROVE  /\ conn'[c].in = In("header")
         /\ conn'[c].blocks = IF Intended(c) THEN Marked(c) ELSE conn[c].blocks
         /\ conn'[c].out = conn[c].out
         /\ \A d \in Slot \ {c} : conn'[d] = conn[d]
<1>1. conn[c] \in ConnType /\ conn \in [Slot -> ConnType]
  BY DEF TypeOK
<1>. DEFINE blocks == IF Intended(c) THEN Marked(c) ELSE conn[c].blocks
            flag == conn[c].ask_blocks \/ Intended(c)
<1>2. conn' = [conn EXCEPT ![c] = [conn[c] EXCEPT !.in = In("header"),
                                     !.ask_blocks = flag, !.blocks = blocks]]
  BY DEF ReceiveData
<1>3. /\ conn'[c].in = In("header") /\ conn'[c].blocks = blocks
      /\ conn'[c].out = conn[c].out
      /\ \A d \in Slot \ {c} : conn'[d] = conn[d]
  <2>. HIDE DEF blocks, flag
  <2>. QED  BY <1>1, <1>2 DEF ConnType
<1>. QED  BY <1>3

\* decision_send only asks for blocks of the piece the slot holds.
LEMMA DecideOut ==
  ASSUME TypeOK, NEW c \in Slot, Decide(c), NEW r \in conn'[c].out.reqs
  PROVE  receiving[c] = r[1] /\ UNCHANGED <<receiving, pieces>>
<1>. USE DEF TypeOK, ConnType, Out
<1>1. CASE SendBlockRequests(c)
  <2>1. conn'[c].out.reqs = {receiving[c]} \X Batch(c)
    BY <1>1 DEF SendBlockRequests
  <2>. QED  BY <1>1, <2>1 DEF SendBlockRequests
<1>2. ASSUME NEW p \in Piece, SetupPiece(c, p) PROVE FALSE
  BY <1>2 DEF SetupPiece, UpdateInterest
<1>3. CASE NothingToFetch(c) \/ AwaitBlocks(c) \/ Idle(c) \/ FinishPiece(c)
  <2>1. conn'[c].out = Out("none")
    <3>1. CASE NothingToFetch(c)
      BY <3>1 DEF NothingToFetch
    <3>2. CASE AwaitBlocks(c)
      BY <3>2 DEF AwaitBlocks
    <3>3. CASE Idle(c)
      BY <3>3 DEF Idle
    <3>4. CASE FinishPiece(c)
      BY <3>4 DEF FinishPiece
    <3>. QED  BY <1>3, <3>1, <3>2, <3>3, <3>4
  <2>. QED  BY <2>1
<1>. QED  BY <1>1, <1>2, <1>3 DEF Decide

LEMMA DecideLeaves ==
  ASSUME TypeOK, NEW c \in Slot, Decide(c)
  PROVE  /\ conn'[c].in = conn[c].in
         /\ \A d \in Slot \ {c} : conn'[d] = conn[d] /\ receiving'[d] = receiving[d]
<1>. USE DEF TypeOK, ConnType
<1>1. ASSUME NEW p \in Piece, SetupPiece(c, p)
      PROVE  /\ conn'[c].in = conn[c].in
             /\ \A d \in Slot \ {c} : conn'[d] = conn[d] /\ receiving'[d] = receiving[d]
  BY <1>1 DEF SetupPiece
<1>2. CASE SendBlockRequests(c)
  BY <1>2 DEF SendBlockRequests
<1>3. CASE NothingToFetch(c)
  BY <1>3 DEF NothingToFetch
<1>4. CASE FinishPiece(c)
  BY <1>4 DEF FinishPiece
<1>5. CASE AwaitBlocks(c)
  BY <1>5 DEF AwaitBlocks
<1>6. CASE Idle(c)
  BY <1>6 DEF Idle
<1>. QED  BY <1>1, <1>2, <1>3, <1>4, <1>5, <1>6 DEF Decide

\* poller_update touches neither transmissions nor blocks.
LEMMA PollerLeaves ==
  ASSUME TypeOK, PollerUpdate, NEW d \in Slot
  PROVE  /\ conn'[d].out = conn[d].out /\ conn'[d].in = conn[d].in
         /\ conn'[d].block = conn[d].block /\ conn'[d].blocks = conn[d].blocks
         /\ conn'[d].req_blocks = conn[d].req_blocks
         /\ conn'[d].interested = conn[d].interested
         /\ conn'[d].age = Aged(d)
<1>. DEFINE age == Aged(d)
<1>1. conn'[d] = [conn[d] EXCEPT !.age = age]
  BY DEF PollerUpdate
<1>2. conn[d] \in ConnType
  BY DEF TypeOK
<1>3. conn'[d].age = age
  <2>. HIDE DEF age
  <2>. QED  BY <1>1, <1>2 DEF ConnType
<1>. HIDE DEF age
<1>4. /\ conn'[d].out = conn[d].out /\ conn'[d].in = conn[d].in
      /\ conn'[d].block = conn[d].block /\ conn'[d].blocks = conn[d].blocks
      /\ conn'[d].req_blocks = conn[d].req_blocks
      /\ conn'[d].interested = conn[d].interested
  BY <1>1, <1>2 DEF ConnType
<1>. QED  BY <1>3, <1>4 DEF age

\* What a step does to the receiving side of slot d.
InStep(d) ==
  \/ /\ conn'[d].in = conn[d].in /\ receiving'[d] = receiving[d]
     /\ conn'[d].block = conn[d].block /\ conn'[d].blocks = conn[d].blocks
  \/ \* the slot closes, connects or receives a header: no data is under way
     /\ conn'[d].in.good
     /\ conn'[d].in.at # "data"
     /\ receiving'[d] = NULL
        \/ (receiving'[d] = receiving[d] /\ conn'[d].blocks = conn[d].blocks)
  \/ \* decision_send takes or leaves a piece
     /\ conn'[d].in = conn[d].in
     /\ receiving'[d] = NULL
        \/ (receiving[d] = NULL /\ conn'[d].blocks = {} /\ pieces[receiving'[d]] = "MISSING")
  \/ \* a part of a block
     ConvPiece(d) \/ ReceivePart(d) \/ ReceiveData(d)

LEMMA CloseIn ==
  ASSUME TypeOK, NEW S \in SUBSET Slot, CloseSlots(S), NEW d \in Slot
  PROVE  InStep(d)
<1>1. CASE d \in S
  <2>1. conn'[d] = ClearedConn /\ receiving'[d] = NULL
    BY <1>1 DEF CloseSlots
  <2>. QED  BY <2>1 DEF InStep, ClearedConn, In
<1>2. CASE d \notin S
  <2>1. conn'[d] = conn[d] /\ receiving'[d] = receiving[d]
    BY <1>2 DEF CloseSlots
  <2>. QED  BY <2>1 DEF InStep
<1>. QED  BY <1>1, <1>2

LEMMA SameIn ==
  ASSUME NEW d \in Slot, conn'[d] = conn[d], receiving'[d] = receiving[d]
  PROVE  InStep(d)
BY DEF InStep

LEMMA HandleInIn ==
  ASSUME TypeOK, NEW c \in Slot, HandleIn(c), NEW d \in Slot
  PROVE  InStep(d)
<1>. USE DEF TypeOK, ConnType
<1>1. CASE ReceivePiece(c)
  <2>1. conn' = [conn EXCEPT ![c].in = In("piece")] /\ receiving' = receiving
    BY <1>1 DEF ReceivePiece
  <2>2. CASE d = c
    <3>1. conn'[c].blocks = conn[c].blocks /\ conn'[c].in = In("piece")
      BY <2>1
    <3>. QED  BY <2>1, <2>2, <3>1 DEF InStep, In
  <2>3. CASE d # c
    BY <2>1, <2>3, SameIn
  <2>. QED  BY <2>2, <2>3
<1>2. CASE ReceiveHandshake(c)
  <2>1. conn' = [conn EXCEPT ![c].in = In("header")] /\ receiving' = receiving
    BY <1>2 DEF ReceiveHandshake
  <2>2. CASE d = c
    <3>1. conn'[c].blocks = conn[c].blocks /\ conn'[c].in = In("header")
      BY <2>1
    <3>. QED  BY <2>1, <2>2, <3>1 DEF InStep, In
  <2>3. CASE d # c
    BY <2>1, <2>3, SameIn
  <2>. QED  BY <2>2, <2>3
<1>3. CASE ReceiveChoke(c) \/ ReceiveUnchoke(c) \/ ReceiveInterested(c)
  <2>1. PICK flag \in BOOLEAN : \/ conn' = [conn EXCEPT ![c].choking = flag]
                               \/ conn' = [conn EXCEPT ![c].interested = flag]
    BY <1>3 DEF ReceiveChoke, ReceiveUnchoke, ReceiveInterested
  <2>2. /\ conn'[d].in = conn[d].in
        /\ conn'[d].block = conn[d].block /\ conn'[d].blocks = conn[d].blocks
    <3>1. CASE conn' = [conn EXCEPT ![c].choking = flag]
      BY <3>1
    <3>2. CASE conn' = [conn EXCEPT ![c].interested = flag]
      BY <3>2
    <3>. QED  BY <2>1, <3>1, <3>2
  <2>3. receiving' = receiving
    BY <1>3 DEF ReceiveChoke, ReceiveUnchoke, ReceiveInterested
  <2>. QED  BY <2>2, <2>3 DEF InStep
<1>4. CASE ReceiveHave(c) \/ ReceiveBitset(c) \/ ConvCrash(c) \/ RecvWaits(c)
  BY <1>4, SameIn DEF ReceiveHave, ReceiveBitset, ConvCrash, RecvWaits
<1>5. CASE ConvOutOfBounds(c) \/ RecvFails(c)
  BY <1>5, CloseIn, {c} \in SUBSET Slot DEF ConvOutOfBounds, RecvFails, Close
<1>6. CASE ConvPiece(c) \/ ReceivePart(c) \/ ReceiveData(c)
  <2>1. CASE d = c
    BY <1>6, <2>1 DEF InStep
  <2>2. CASE d # c
    <3>1. d \in Slot \ {c}
      BY <2>2
    <3>2. conn'[d] = conn[d]
      BY <1>6, <3>1, ConvEffect, PartEffect, DataEffect, Zenon
    <3>3. receiving' = receiving
      BY <1>6 DEF ConvPiece, ReceivePart, ReceiveData
    <3>. QED  BY <3>2, <3>3, SameIn
  <2>. QED  BY <2>1, <2>2
<1>. QED  BY <1>1, <1>2, <1>3, <1>4, <1>5, <1>6, Zenon DEF HandleIn

LEMMA DecideIn ==
  ASSUME TypeOK, NEW c \in Slot, Decide(c), NEW d \in Slot
  PROVE  InStep(d)
<1>. USE DEF TypeOK, ConnType
<1>1. CASE d # c
  <2>1. d \in Slot \ {c}
    BY <1>1
  <2>. QED  BY <2>1, DecideLeaves, SameIn
<1>2. CASE d = c
  <2>1. conn'[c].in = conn[c].in
    BY DecideLeaves
  <2>2. ASSUME NEW p \in Piece, SetupPiece(c, p)
        PROVE  InStep(c)
    <3>1. conn'[c].blocks = {} /\ receiving'[c] = p /\ receiving[c] = NULL
      BY <2>2 DEF SetupPiece
    <3>2. pieces[p] = "MISSING"
      BY <2>2 DEF SetupPiece, Selects, Candidates
    <3>. QED  BY <2>1, <3>1, <3>2 DEF InStep
  <2>3. CASE NothingToFetch(c) \/ FinishPiece(c)
    BY <2>1, <2>3 DEF NothingToFetch, FinishPiece, InStep
  <2>4. CASE SendBlockRequests(c)
    <3>1. conn'[c].block = conn[c].block /\ conn'[c].blocks = conn[c].blocks
      BY <2>4 DEF SendBlockRequests
    <3>. QED  BY <2>1, <2>4, <3>1 DEF SendBlockRequests, InStep
  <2>5. CASE AwaitBlocks(c) \/ Idle(c)
    <3>1. conn'[c].block = conn[c].block /\ conn'[c].blocks = conn[c].blocks
      BY <2>5 DEF AwaitBlocks, Idle
    <3>. QED  BY <2>1, <2>5, <3>1 DEF AwaitBlocks, Idle, InStep
  <2>. QED  BY <1>2, <2>2, <2>3, <2>4, <2>5 DEF Decide
<1>. QED  BY <1>1, <1>2

LEMMA StepIn ==
  ASSUME Inv, [Next]_vars, NEW d \in Slot
  PROVE  InStep(d)
<1>. TypeOK
  BY DEF Inv
<1>1. ASSUME NEW c \in Slot, PeerConnInit(c)
      PROVE  InStep(d)
  <2>1. receiving' = receiving /\ receiving[c] = NULL
    BY <1>1 DEF PeerConnInit, Inv, SlotOwnsPiece, FetchersHold
  <2>2. CASE UNCHANGED conn
    BY <2>1, <2>2, SameIn
  <2>3. ASSUME NEW q \in Peer, Connect(c, q)
        PROVE  InStep(d)
    <3>1. CASE d = c
      <4>1. conn'[c].in.at = "handshake" /\ conn'[c].in.good
        BY <2>3 DEF Connect, TypeOK, ClearedConn, In
      <4>. QED  BY <2>1, <3>1, <4>1 DEF InStep
    <3>2. CASE d # c
      <4>1. conn'[d] = conn[d]
        BY <2>3, <3>2 DEF Connect, TypeOK
      <4>. QED  BY <2>1, <4>1, SameIn
    <3>. QED  BY <3>1, <3>2
  <2>. QED  BY <1>1, <2>2, <2>3 DEF PeerConnInit, Refuse, Eligible
<1>2. ASSUME NEW c \in Slot, HandleOut(c)
      PROVE  InStep(d)
  <2>1. CASE SkipSend(c)
    BY <2>1, SameIn DEF SkipSend
  <2>2. CASE SendFails(c)
    BY <2>2, CloseIn, {c} \in SUBSET Slot DEF SendFails, Close
  <2>3. CASE Send(c)
    BY <2>3, DecideIn DEF Send
  <2>. QED  BY <1>2, <2>1, <2>2, <2>3 DEF HandleOut
<1>3. CASE PollerUpdate
  BY <1>3, PollerLeaves DEF PollerUpdate, InStep
<1>4. CASE LoopExit
  BY <1>4, CloseIn, Slot \in SUBSET Slot DEF LoopExit
<1>5. CASE Break \/ Sigint \/ UNCHANGED vars
  BY <1>5, SameIn DEF Break, Sigint, vars
<1>. QED  BY <1>1, <1>2, <1>3, <1>4, <1>5, HandleInIn DEF Next, Loop, Step, Terminated

-----------------------------------------------------------------------------
(* One writer *)

\* Slot d is writing into the file of piece p.
Into(d, p) == IntoFile(d) /\ conn[d].in.req[1] = p

\* It holds the piece, or nobody will any more.
IntoHeld ==
  \A d \in Slot, p \in Piece : Into(d, p) => receiving[d] = p \/ pieces[p] = "AVAILABLE"

WriterInv == Inv /\ IntoHeld /\ OneWriter

\* A slot begins to write only into the piece it holds.
LEMMA StepInto ==
  ASSUME Inv, [Next]_vars, NEW d \in Slot, NEW p \in Piece, Into(d, p)'
  PROVE  Into(d, p) \/ (receiving[d] = p /\ UNCHANGED <<receiving, pieces>>)
<1>. TypeOK
  BY DEF Inv
<1>1. CASE ConvPiece(d)
  <2>1. PICK r \in Request :
          conn'[d].in.req = r /\ conn'[d].in.into = (r[1] = receiving[d])
    BY <1>1, ConvEffect
  <2>2. UNCHANGED <<receiving, pieces>>
    BY <1>1 DEF ConvPiece, torrentVars
  <2>3. conn'[d].in.into /\ conn'[d].in.req[1] = p
    BY DEF Into, IntoFile
  <2>4. r[1] = receiving[d]
    BY <2>1, <2>3, Zenon
  <2>. QED  BY <2>1, <2>2, <2>3, <2>4
<1>2. CASE ReceivePart(d)
  <2>1. /\ conn'[d].in.req = conn[d].in.req
        /\ conn'[d].in.into = (conn[d].in.into /\ Intended(d))
    BY <1>2, PartEffect, Zenon
  <2>2. conn'[d].in.into /\ conn'[d].in.req[1] = p
    BY DEF Into, IntoFile
  <2>3. conn[d].in.into
    BY <2>1, <2>2, Zenon
  <2>4. conn[d].in.at = "data"
    BY <1>2 DEF ReceivePart, Recv
  <2>. QED  BY <2>1, <2>2, <2>3, <2>4 DEF Into, IntoFile
<1>3. CASE ReceiveData(d)
  BY <1>3, DataEffect DEF In, Into, IntoFile
<1>4. CASE conn'[d].in = conn[d].in
  BY <1>4 DEF Into, IntoFile
<1>5. CASE conn'[d].in.at # "data"
  BY <1>5 DEF Into, IntoFile
<1>. QED  BY <1>1, <1>2, <1>3, <1>4, <1>5, StepIn DEF InStep

\* A slot gives its piece up by closing or by finishing.
LEMMA HeldPiece ==
  ASSUME Inv, [Next]_vars, NEW d \in Slot, NEW p \in Piece, receiving[d] = p
  PROVE  \/ receiving'[d] = p \/ pieces'[p] = "AVAILABLE"
         \/ conn'[d] = ClearedConn /\ remote'[d] = FreshRemote
<1>. USE DEF Inv, TypeOK
<1>1. StepKind
  BY StepKinds
<1>2. ASSUME NEW S \in SUBSET Slot, CloseSlots(S)
      PROVE  \/ receiving'[d] = p
             \/ conn'[d] = ClearedConn /\ remote'[d] = FreshRemote
  BY <1>2 DEF CloseSlots, Gone
<1>3. ASSUME NEW c \in active, NEW q \in Piece, SetupPiece(c, q)
      PROVE  receiving'[d] = p
  BY <1>3, NullAssumption DEF SetupPiece
<1>4. ASSUME NEW c \in active, FinishPiece(c)
      PROVE  receiving'[d] = p \/ pieces'[p] = "AVAILABLE"
  BY <1>4 DEF FinishPiece
<1>5. ASSUME NEW c \in active, NothingToFetch(c)
      PROVE  receiving'[d] = p
  BY <1>5 DEF NothingToFetch
<1>6. ASSUME UNCHANGED receiving
      PROVE  receiving'[d] = p
  BY <1>6
<1>. HIDE DEF Inv, TypeOK
<1>. QED  BY <1>1, <1>2, <1>3, <1>4, <1>5, <1>6 DEF StepKind, ownVars

LEMMA NextWriter == WriterInv /\ [Next]_vars => WriterInv'
<1>. SUFFICES ASSUME WriterInv, [Next]_vars
              PROVE  WriterInv'
  OBVIOUS
<1>1. Inv' /\ Inv /\ TypeOK
  BY NextInv DEF WriterInv, Inv
<1>2. ASSUME NEW d \in Slot, NEW p \in Piece, Into(d, p)'
      PROVE  receiving'[d] = p \/ pieces'[p] = "AVAILABLE"
  <2>1. CASE receiving[d] = p
    <3>1. conn'[d] # ClearedConn
      BY <1>2, ClearedIdle DEF Into, IntoFile
    <3>. QED  BY <1>1, <2>1, <3>1, HeldPiece
  <2>2. CASE pieces[p] = "AVAILABLE"
    BY <1>1, <2>2, AvailableGrows DEF Available
  <2>. QED  BY <1>1, <1>2, <2>1, <2>2, StepInto DEF WriterInv, IntoHeld
<1>3. ASSUME NEW c \in Slot, NEW d \in Slot, NEW p \in Piece, Into(c, p)', Into(d, p)'
      PROVE  c = d
  <2>1. Into(c, p) \/ receiving[c] = p
    BY <1>1, <1>3, StepInto
  <2>2. Into(d, p) \/ receiving[d] = p
    BY <1>1, <1>3, StepInto
  <2>3. CASE Into(c, p) /\ Into(d, p)
    BY <2>3 DEF WriterInv, OneWriter, Into
  <2>4. ASSUME NEW a \in Slot, NEW b \in Slot, receiving[a] = p,
               Into(b, p) \/ receiving[b] = p
        PROVE  a = b
    <3>1. p # NULL /\ pieces[p] # "AVAILABLE"
      BY <1>1, <2>4, NullAssumption DEF Inv, SlotOwnsPiece, FetchersHold
    <3>2. receiving[b] = p
      BY <2>4, <3>1 DEF WriterInv, IntoHeld
    <3>. QED  BY <1>1, <2>4, <3>1, <3>2 DEF Inv, SlotOwnsPiece, FetchersDistinct
  <2>. QED  BY <2>1, <2>2, <2>3, <2>4
<1>4. IntoHeld'
  BY <1>2 DEF IntoHeld
<1>5. OneWriter'
  <2>. SUFFICES ASSUME NEW c \in Slot, NEW d \in Slot, c # d, IntoFile(c)', IntoFile(d)',
                       conn'[c].in.req[1] = conn'[d].in.req[1]
                PROVE  FALSE
    BY DEF OneWriter
  <2>1. conn'[c].in.req[1] \in Piece
    <3>1. conn'[c].in \in InTrans /\ conn'[c].in.at = "data"
      BY <1>1 DEF Inv, TypeOK, ConnType, IntoFile
    <3>. QED  BY <3>1, RequestParts DEF InTrans
  <2>. QED  BY <1>3, <2>1 DEF Into
<1>. QED  BY <1>1, <1>4, <1>5 DEF WriterInv

\* No two connections write into one piece at a time, whatever answers arrive late
\* or twice, whatever closes in between, and even where slots share a number and
\* read parts of each other's messages (receive_piece_iter).
THEOREM OneWriterHolds == Spec => []OneWriter
<1>1. Init => WriterInv
  <2>. SUFFICES ASSUME Init PROVE WriterInv
    OBVIOUS
  <2>1. \A c \in Slot : ~IntoFile(c)
    BY ClearedIdle DEF Init, IntoFile
  <2>. QED  BY <2>1, InitInv DEF WriterInv, IntoHeld, OneWriter, Into
<1>2. WriterInv => OneWriter
  BY DEF WriterInv
<1>. QED  BY <1>1, <1>2, NextWriter, PTL DEF Spec

-----------------------------------------------------------------------------
(* Requests under way, where no number is shared *)

\* Slot c has a request for piece p that is being sent, is not answered, or whose
\* answer is being received.
Involved(c, p) ==
  \/ \E r \in conn[c].out.reqs : r[1] = p
  \/ \E r \in Request : remote[c].owed[r] > 0 /\ r[1] = p
  \/ conn[c].in.at = "data" /\ conn[c].in.req[1] = p

\* A slot never leaves a piece behind that can be handed out again.
Settled ==
  \A c \in Slot, p \in Piece :
    Involved(c, p) => receiving[c] = p \/ pieces[p] = "AVAILABLE"

ReqInv == Inv /\ Settled

\* A closed slot is not involved in anything, the others at most as before.
LEMMA CloseInvolves ==
  ASSUME TypeOK, NEW S \in SUBSET Slot, CloseSlots(S),
         NEW d \in Slot, NEW p \in Piece, Involved(d, p)'
  PROVE  d \notin S /\ Involved(d, p)
<1>1. conn'[d] = IF d \in S THEN ClearedConn ELSE conn[d]
  BY DEF CloseSlots
<1>2. remote'[d] = FreshRemote \/ (remote'[d] = remote[d] /\ d \notin S)
  BY DEF CloseSlots, Gone
<1>3. d \notin S
  BY <1>1, <1>2, ClearedIdle DEF Involved
<1>. QED  BY <1>1, <1>2, <1>3, ClearedIdle DEF Involved

\* What a step may add: requests for the piece the slot holds and keeps.
Adds(d, p) == receiving[d] = p /\ UNCHANGED <<receiving, pieces>>

\* A slot whose transmissions and debts are at most the ones from before.
LEMMA SameInvolves ==
  ASSUME NEW d \in Slot, NEW p \in Piece, Involved(d, p)',
         conn'[d].out.reqs \subseteq conn[d].out.reqs, conn'[d].in = conn[d].in,
         remote'[d] \in {remote[d], FreshRemote}
  PROVE  Involved(d, p)
BY ClearedIdle DEF Involved

LEMMA InitInvolves == Init => \A c \in Slot, p \in Piece : ~Involved(c, p)
<1>. SUFFICES ASSUME Init, NEW c \in Slot, NEW p \in Piece
              PROVE  ~Involved(c, p)
  OBVIOUS
<1>1. conn[c] = ClearedConn /\ remote[c] = FreshRemote
  BY DEF Init
<1>. QED  BY <1>1, ClearedIdle DEF Involved

LEMMA HandleInInvolves ==
  ASSUME TypeOK, Numbered, NoneShared, NEW c \in Slot, HandleIn(c),
         NEW d \in Slot, NEW p \in Piece, Involved(d, p)'
  PROVE  Involved(d, p)
<1>. USE DEF Recv, TypeOK, ConnType, RemoteType
<1>1. CASE ReceivePiece(c)
  <2>1. conn' = [conn EXCEPT ![c].in = In("piece")] /\ remote' = remote
    BY <1>1 DEF ReceivePiece
  <2>2. /\ conn'[d].out = conn[d].out
        /\ conn'[d].in = conn[d].in \/ conn'[d].in.at # "data"
    BY <2>1 DEF In
  <2>. QED  BY <2>1, <2>2 DEF Involved
<1>2. CASE ReceiveChoke(c)
  <2>1. conn'[d].out = conn[d].out /\ conn'[d].in = conn[d].in
    BY <1>2 DEF ReceiveChoke
  <2>2. CASE UNCHANGED remote
    BY <2>1, <2>2, SameInvolves
  <2>3. CASE remote' = [remote EXCEPT ![c].owed = [r \in Request |-> 0]]
    <3>1. CASE d = c
      <4>1. \A r \in Request : remote'[c].owed[r] = 0
        BY <2>3
      <4>. QED  BY <2>1, <3>1, <4>1 DEF Involved
    <3>2. CASE d # c
      BY <2>1, <2>3, <3>2, SameInvolves
    <3>. QED  BY <3>1, <3>2
  <2>. QED  BY <1>2, <2>2, <2>3 DEF ReceiveChoke
<1>3. CASE ReceivePart(c)
  <2>1. remote' = remote /\ conn[c].in.at = "data"
    BY <1>3 DEF ReceivePart
  <2>2. CASE d = c
    <3>1. conn'[c].out = conn[c].out /\ conn'[c].in.req = conn[c].in.req
      BY <1>3, PartEffect
    <3>. QED  BY <2>1, <2>2, <3>1 DEF Involved
  <2>3. CASE d # c
    <3>1. d \in Slot \ {c}
      BY <2>3
    <3>2. conn'[d] = conn[d]
      BY <1>3, <3>1, PartEffect, Zenon
    <3>. QED  BY <2>1, <3>2, SameInvolves
  <2>. QED  BY <2>2, <2>3
<1>4. CASE ConvPiece(c)
  <2>1. Private(c)
    BY <1>4, OpenIsPrivate DEF ConvPiece
  <2>2. PICK r \in Request :
          /\ remote[c].owed[r] > 0
          /\ remote' = [remote EXCEPT ![c].owed[r] = @ - 1]
          /\ conn'[c].in.req = r
          /\ conn'[c].out = conn[c].out
          /\ \A e \in Slot \ {c} : conn'[e] = conn[e]
    BY <1>4, <2>1, ConvEffect, Zenon DEF Sends
  <2>3. CASE d = c
    <3>1. remote'[c].owed = [remote[c].owed EXCEPT ![r] = @ - 1]
      BY <2>2
    <3>2. \A s \in Request : remote'[c].owed[s] > 0 => remote[c].owed[s] > 0
      BY <2>2, <3>1
    <3>. QED  BY <2>2, <2>3, <3>2 DEF Involved
  <2>4. CASE d # c
    BY <2>2, <2>4, SameInvolves
  <2>. QED  BY <2>3, <2>4
<1>5. CASE ReceiveHandshake(c)
  <2>1. conn'[d].out = conn[d].out /\ remote'[d] = remote[d]
    BY <1>5 DEF ReceiveHandshake
  <2>2. conn'[d].in = conn[d].in \/ conn'[d].in.at = "header"
    BY <1>5 DEF ReceiveHandshake, In
  <2>. QED  BY <2>1, <2>2 DEF Involved
<1>6. CASE ReceiveData(c)
  <2>1. remote'[d] = remote[d]
    BY <1>6 DEF ReceiveData
  <2>2. CASE d = c
    <3>1. conn'[c].out = conn[c].out /\ conn'[c].in.at = "header"
      BY <1>6, DataEffect DEF In
    <3>. QED  BY <2>1, <2>2, <3>1 DEF Involved
  <2>3. CASE d # c
    <3>1. conn'[d] = conn[d]
      BY <1>6, <2>3, DataEffect
    <3>. QED  BY <2>1, <3>1, SameInvolves
  <2>. QED  BY <2>2, <2>3
<1>7. CASE ReceiveUnchoke(c) \/ ReceiveInterested(c)
  <2>1. PICK flag \in BOOLEAN : \/ conn' = [conn EXCEPT ![c].choking = flag]
                               \/ conn' = [conn EXCEPT ![c].interested = flag]
    BY <1>7 DEF ReceiveUnchoke, ReceiveInterested
  <2>2. conn'[d].out = conn[d].out /\ conn'[d].in = conn[d].in
    <3>1. CASE conn' = [conn EXCEPT ![c].choking = flag]
      BY <3>1
    <3>2. CASE conn' = [conn EXCEPT ![c].interested = flag]
      BY <3>2
    <3>. QED  BY <2>1, <3>1, <3>2
  <2>3. remote'[d] = remote[d]
    BY <1>7 DEF ReceiveUnchoke, ReceiveInterested
  <2>. QED  BY <2>2, <2>3, SameInvolves
<1>8. CASE ReceiveHave(c) \/ ReceiveBitset(c) \/ ConvCrash(c) \/ RecvWaits(c)
  BY <1>8, SameInvolves DEF ReceiveHave, ReceiveBitset, ConvCrash, RecvWaits
<1>9. CASE ConvOutOfBounds(c) \/ RecvFails(c)
  BY <1>9, CloseInvolves, {c} \in SUBSET Slot DEF ConvOutOfBounds, RecvFails, Close
<1>. QED  BY <1>1, <1>2, <1>3, <1>5, <1>7, <1>8, <1>9, <1>6, <1>4, Zenon
          DEF HandleIn

\* Sending adds what is asked for next.
LEMMA SendInvolves ==
  ASSUME TypeOK, NEW c \in Slot, Send(c),
         NEW d \in Slot, NEW p \in Piece, Involved(d, p)'
  PROVE  Involved(d, p) \/ Adds(d, p)
<1>1. Decide(c) /\ Reaches(c)
  BY DEF Send
<1>2. CASE d = c
  <2>1. \A r \in Request :
          remote'[c].owed[r] > 0 => remote[c].owed[r] > 0 \/ r \in conn[c].out.reqs
    BY <1>1 DEF Reaches, Delivered, TypeOK
  <2>2. conn'[c].in = conn[c].in
    BY <1>1, DecideLeaves
  <2>3. \A r \in conn'[c].out.reqs : r[1] = p => Adds(c, p)
    BY <1>1, DecideOut DEF Adds
  <2>. QED  BY <1>2, <2>1, <2>2, <2>3 DEF Involved
<1>3. CASE d # c
  <2>1. conn'[d] = conn[d] /\ remote'[d] = remote[d]
    BY <1>1, <1>3, DecideLeaves DEF Reaches, TypeOK
  <2>. QED  BY <2>1, SameInvolves
<1>. QED  BY <1>2, <1>3

LEMMA StepInvolves ==
  ASSUME TypeOK, Numbered, NoneShared, [Next]_vars, NEW d \in Slot, NEW p \in Piece, Involved(d, p)'
  PROVE  Involved(d, p) \/ Adds(d, p)
<1>1. ASSUME NEW c \in Slot, PeerConnInit(c)
      PROVE  Involved(d, p)
  <2>1. CASE UNCHANGED <<conn, remote>>
    BY <2>1, SameInvolves
  <2>2. ASSUME NEW q \in Peer, Connect(c, q)
        PROVE  Involved(d, p)
    <3>1. CASE d = c
      <4>1. conn'[c].out.reqs = {} /\ conn'[c].in.at = "handshake"
        BY <2>2 DEF Connect, TypeOK, ClearedConn, In, Out
      <4>2. \A r \in Request : remote'[c].owed[r] = 0
        BY <2>2, ClearedIdle DEF Connect, TypeOK
      <4>. QED  BY <3>1, <4>1, <4>2 DEF Involved
    <3>2. CASE d # c
      <4>1. conn'[d] = conn[d] /\ remote'[d] = remote[d]
        BY <2>2, <3>2 DEF Connect, TypeOK
      <4>. QED  BY <4>1, SameInvolves
    <3>. QED  BY <3>1, <3>2
  <2>. QED  BY <1>1, <2>1, <2>2 DEF PeerConnInit, Refuse, Eligible
<1>2. ASSUME NEW c \in Slot, HandleOut(c)
      PROVE  Involved(d, p) \/ Adds(d, p)
  <2>1. CASE SkipSend(c)
    BY <2>1, SameInvolves DEF SkipSend
  <2>2. CASE SendFails(c)
    BY <2>2, CloseInvolves, {c} \in SUBSET Slot DEF SendFails, Close
  <2>. QED  BY <1>2, <2>1, <2>2, SendInvolves DEF HandleOut
<1>3. CASE PollerUpdate
  <2>1. conn'[d].out = conn[d].out /\ conn'[d].in = conn[d].in
    BY <1>3, PollerLeaves
  <2>2. remote'[d] \in {remote[d], FreshRemote}
    BY <1>3 DEF PollerUpdate, Gone
  <2>. QED  BY <2>1, <2>2, SameInvolves
<1>4. CASE LoopExit
  BY <1>4, CloseInvolves, Slot \in SUBSET Slot DEF LoopExit
<1>5. CASE Break \/ Sigint \/ UNCHANGED vars
  BY <1>5, SameInvolves DEF Break, Sigint, vars
<1>. QED  BY <1>1, <1>2, <1>3, <1>4, <1>5, HandleInInvolves
          DEF Next, Loop, Step, Terminated

LEMMA InitReq == Init => ReqInv
BY InitInv, InitInvolves DEF ReqInv, Settled

LEMMA NextReq == ReqInv /\ NoneShared /\ [Next]_vars => ReqInv'
<1>. SUFFICES ASSUME ReqInv, NoneShared, [Next]_vars
              PROVE  ReqInv'
  OBVIOUS
<1>1. Inv' /\ Inv /\ TypeOK /\ Numbered
  BY NextInv DEF ReqInv, Inv
<1>2. ASSUME NEW d \in Slot, NEW p \in Piece, Involved(d, p)'
      PROVE  receiving'[d] = p \/ pieces'[p] = "AVAILABLE"
  <2>1. CASE receiving[d] = p
    <3>1. ~(conn'[d] = ClearedConn /\ remote'[d] = FreshRemote)
      BY <1>2, ClearedIdle DEF Involved
    <3>. QED  BY <1>1, <2>1, <3>1, HeldPiece
  <2>2. CASE pieces[p] = "AVAILABLE"
    BY <1>1, <2>2, AvailableGrows DEF Available
  <2>. QED  BY <1>1, <1>2, <2>1, <2>2, StepInvolves DEF ReqInv, Settled, Adds
<1>3. Settled'
  BY <1>2 DEF Settled
<1>. QED  BY <1>1, <1>3 DEF ReqInv

-----------------------------------------------------------------------------
(* Blocks and bytes *)

\* Every block that is received is the right one.
Genuine == \A c \in Slot : conn[c].in.good

\* The bytes that are right are those of blocks of the piece.
Bounded == \A p \in Piece : disk[p] \subseteq Block(p)

\* A block of the current piece goes to its file, and is the one that will be marked.
Destined ==
  \A c \in Slot : conn[c].in.at = "data" /\ conn[c].in.req[1] = receiving[c] =>
    conn[c].in.into /\ conn[c].block = conn[c].in.req[2]

ByteInv == ReqInv /\ Genuine /\ Bounded /\ Destined /\ BlocksBacked

\* A step writes nothing, or the right bytes of the block that arrives.
LEMMA DiskEffect ==
  ASSUME TypeOK, Numbered, NoneShared, Genuine, [Next]_vars
  PROVE  \/ disk' = disk
         \/ \E r \in Request : disk' = [disk EXCEPT ![r[1]] = @ \cup {r[2]}]
<1>1. ASSUME NEW c \in Slot, HandleIn(c)
      PROVE  \/ disk' = disk
             \/ \E r \in Request : disk' = [disk EXCEPT ![r[1]] = @ \cup {r[2]}]
  <2>1. CASE ReceivePart(c)
    <3>1. Private(c)
      BY <2>1, OpenIsPrivate DEF ReceivePart, Recv
    <3>. QED  BY <2>1, <3>1 DEF ReceivePart, StaysGood, Genuine
  <2>2. CASE ReceiveData(c)
    <3>1. conn[c].in.req \in Request /\ Private(c)
      BY <2>2, RequestUnderWay, OpenIsPrivate DEF ReceiveData, Recv
    <3>. QED  BY <2>2, <3>1 DEF ReceiveData, StaysGood, Written, Genuine
  <2>3. CASE ConvOutOfBounds(c) \/ RecvFails(c)
    BY <2>3 DEF ConvOutOfBounds, RecvFails, Close
  <2>. QED  BY <1>1, <2>1, <2>2, <2>3
       DEF HandleIn, ReceiveHandshake, ReceiveChoke, ReceiveUnchoke, ReceiveInterested,
           ReceiveHave, ReceiveBitset, ReceivePiece, ConvCrash, ConvPiece, RecvWaits,
           torrentVars
<1>2. ASSUME NEW c \in Slot, PeerConnInit(c) \/ HandleOut(c)
      PROVE  disk' = disk
  BY <1>2 DEF PeerConnInit, HandleOut, SkipSend, SendFails, Send, Close, torrentVars
<1>3. CASE Break \/ PollerUpdate \/ LoopExit \/ Sigint \/ UNCHANGED vars
  BY <1>3 DEF Break, PollerUpdate, LoopExit, Sigint, vars, torrentVars
<1>. QED  BY <1>1, <1>2, <1>3 DEF Next, Loop, Step, Terminated

LEMMA DiskGrows ==
  ASSUME TypeOK, Numbered, NoneShared, Genuine, Bounded, [Next]_vars, NEW p \in Piece
  PROVE  disk[p] \subseteq disk'[p] /\ disk'[p] \subseteq Block(p)
<1>1. CASE disk' = disk
  BY <1>1 DEF Bounded
<1>2. ASSUME NEW r \in Request, disk' = [disk EXCEPT ![r[1]] = @ \cup {r[2]}]
      PROVE  disk[p] \subseteq disk'[p] /\ disk'[p] \subseteq Block(p)
  <2>1. r[1] \in Piece /\ r[2] \in Block(r[1])
    BY RequestParts
  <2>. QED  BY <1>2, <2>1 DEF Bounded, TypeOK
<1>. QED  BY <1>1, <1>2, DiskEffect

\* A piece that becomes available was finished by the slot that held it.
LEMMA NewlyAvailable ==
  ASSUME Inv, [Next]_vars, NEW p \in Piece, pieces'[p] = "AVAILABLE",
         pieces[p] # "AVAILABLE"
  PROVE  \E c \in Slot : receiving[c] = p /\ Block(p) \subseteq conn[c].blocks
<1>1. StepKind /\ active \subseteq Slot
  BY StepKinds DEF Inv, TypeOK
<1>2. ASSUME NEW S \in SUBSET Slot, CloseSlots(S)
      PROVE  FALSE
  BY <1>2, CloseKeeps DEF Available
<1>3. ASSUME NEW c \in active, NEW q \in Piece, SetupPiece(c, q)
      PROVE  FALSE
  BY <1>3, SetupKeeps DEF Available
<1>4. ASSUME NEW c \in active, FinishPiece(c)
      PROVE  receiving[c] = p /\ Block(p) \subseteq conn[c].blocks
  <2>1. receiving[c] = p
    BY <1>4, FinishAdds DEF Available
  <2>. QED  BY <1>4, <2>1 DEF FinishPiece, MissingBlocks
<1>5. ASSUME UNCHANGED pieces
      PROVE  FALSE
  BY <1>5
<1>. QED  BY <1>1, <1>2, <1>3, <1>4, <1>5 DEF StepKind, NothingToFetch, ownVars

LEMMA InitBytes == Init => ByteInv
<1>. SUFFICES ASSUME Init PROVE ByteInv
  OBVIOUS
<1>1. \A c \in Slot : conn[c] = ClearedConn /\ receiving[c] = NULL
  BY DEF Init
<1>2. Genuine /\ Destined
  BY <1>1 DEF Genuine, Destined, ClearedConn, In
<1>3. Bounded /\ BlocksBacked
  BY <1>1 DEF Init, Bounded, BlocksBacked, AvailableValid
<1>. QED  BY <1>2, <1>3, InitReq DEF ByteInv

\* The block a slot is receiving stays the one it will mark.
LEMMA NextDestined ==
  ASSUME ReqInv, NoneShared, Destined, [Next]_vars
  PROVE  Destined'
<1>. Inv /\ TypeOK /\ Inv' /\ TypeOK'
  BY NextReq DEF ReqInv, Inv
<1>0. \A d \in Slot : InStep(d)
  BY StepIn
<1>. SUFFICES ASSUME NEW d \in Slot, conn'[d].in.at = "data",
                     conn'[d].in.req[1] = receiving'[d]
              PROVE  conn'[d].in.into /\ conn'[d].block = conn'[d].in.req[2]
  BY DEF Destined
<1>1. receiving'[d] # NULL
  <2>1. conn'[d].in \in InTrans
    BY DEF TypeOK, ConnType
  <2>2. conn'[d].in.req \in Request
    BY <2>1 DEF InTrans
  <2>. QED  BY <2>2, RequestParts, NullAssumption
<1>2. CASE ConvPiece(d)
  <2>1. receiving' = receiving
    BY <1>2 DEF ConvPiece
  <2>2. PICK r \in Request :
          /\ conn'[d].in.req = r /\ conn'[d].in.into = (r[1] = receiving[d])
          /\ conn'[d].block = r[2]
    BY <1>2, ConvEffect, Zenon
  <2>3. r[1] = receiving[d]
    BY <2>1, <2>2
  <2>. QED  BY <2>2, <2>3, Zenon
<1>3. CASE ReceivePart(d)
  <2>1. receiving' = receiving /\ conn[d].in.at = "data"
    BY <1>3 DEF ReceivePart, Recv
  <2>2. /\ conn'[d].in.req = conn[d].in.req /\ conn'[d].block = conn[d].block
        /\ conn'[d].in.into = (conn[d].in.into /\ Intended(d))
    BY <1>3, PartEffect, Zenon
  <2>3. Intended(d)
    BY <2>1, <2>2 DEF Intended
  <2>4. conn[d].in.into /\ conn[d].block = conn[d].in.req[2]
    BY <2>1, <2>3 DEF Destined, Intended
  <2>. QED  BY <2>2, <2>3, <2>4, Zenon
<1>4. CASE ReceiveData(d)
  BY <1>4, DataEffect DEF In
<1>5. CASE conn'[d].in = conn[d].in /\ receiving[d] = NULL
           /\ pieces[receiving'[d]] = "MISSING"
  <2>1. receiving'[d] \in Piece /\ Involved(d, receiving'[d])
    BY <1>1, <1>5 DEF TypeOK, Involved
  <2>. QED  BY <1>1, <1>5, <2>1 DEF ReqInv, Settled
<1>6. CASE conn'[d].in = conn[d].in /\ receiving'[d] = receiving[d]
           /\ conn'[d].block = conn[d].block
  BY <1>6 DEF Destined
<1>. QED  BY <1>0, <1>1, <1>2, <1>3, <1>4, <1>5, <1>6 DEF InStep

LEMMA NextBytes ==
  ASSUME "corrupt" \notin Faults, ByteInv, NoneShared, [Next]_vars
  PROVE  ByteInv'
<1>1. ReqInv /\ Inv /\ TypeOK /\ Numbered /\ Genuine /\ Bounded /\ ReqInv' /\ TypeOK'
  BY NextReq DEF ByteInv, ReqInv, Inv
<1>2. \A d \in Slot : InStep(d)
  BY <1>1, StepIn
<1>3. \A p \in Piece : disk[p] \subseteq disk'[p] /\ disk'[p] \subseteq Block(p)
  BY <1>1, DiskGrows
<1>4. Genuine'
  <2>. SUFFICES ASSUME NEW d \in Slot PROVE conn'[d].in.good
    BY DEF Genuine
  <2>1. conn[d].in.good
    BY <1>1 DEF Genuine
  <2>2. CASE ConvPiece(d)
    <3>1. Private(d)
      BY <1>1, <2>2, OpenIsPrivate DEF ConvPiece, Recv
    <3>2. PICK good \in BOOLEAN :
            (good \/ MayOccur(d, "corrupt")) /\ conn'[d].in.good = good
      BY <1>1, <2>2, ConvEffect, Zenon
    <3>. QED  BY <3>1, <3>2 DEF MayOccur
  <2>3. CASE ReceivePart(d)
    <3>1. Private(d)
      BY <1>1, <2>3, OpenIsPrivate DEF ReceivePart, Recv
    <3>2. PICK good \in BOOLEAN : StaysGood(d, good) /\ conn'[d].in.good = good
      BY <1>1, <2>3, PartEffect, Zenon
    <3>. QED  BY <2>1, <3>1, <3>2 DEF StaysGood
  <2>4. CASE ReceiveData(d)
    BY <1>1, <2>4, DataEffect DEF In
  <2>. QED  BY <1>2, <2>1, <2>2, <2>3, <2>4 DEF InStep
<1>5. Bounded'
  BY <1>3 DEF Bounded
<1>6. Destined'
  BY <1>1, NextDestined DEF ByteInv
<1>7. ASSUME NEW d \in Slot, receiving'[d] # NULL
      PROVE  conn'[d].blocks \subseteq disk'[receiving'[d]]
  <2>1. receiving'[d] \in Piece
    BY <1>1, <1>7 DEF TypeOK
  <2>2. CASE conn'[d].blocks = {}
    BY <2>2
  <2>3. CASE receiving'[d] = receiving[d] /\ conn'[d].blocks = conn[d].blocks
    <3>1. conn[d].blocks \subseteq disk[receiving[d]]
      BY <1>7, <2>3 DEF ByteInv, BlocksBacked
    <3>. QED  BY <1>3, <2>1, <2>3, <3>1
  <2>4. CASE ConvPiece(d)
    BY <1>1, <2>3, <2>4, ConvEffect DEF ConvPiece
  <2>5. CASE ReceivePart(d)
    BY <1>1, <2>3, <2>5, PartEffect DEF ReceivePart
  <2>6. CASE ReceiveData(d)
    <3>0. Private(d) /\ conn[d].in.good
      BY <1>1, <2>6, OpenIsPrivate DEF ReceiveData, Recv, Genuine
    <3>1. receiving' = receiving /\ disk' = Written(d, TRUE) /\ conn[d].in.at = "data"
      BY <2>6, <3>0 DEF ReceiveData, Recv, StaysGood
    <3>2. CASE Intended(d)
      <4>1. conn[d].in.into /\ conn[d].block = conn[d].in.req[2]
        BY <3>1, <3>2 DEF ByteInv, Destined, Intended
      <4>2. conn[d].in.good /\ conn[d].in.req[1] \in Piece
        BY <1>1, <3>1, RequestUnderWay DEF Genuine
      <4>3. conn[d].block \in disk'[receiving[d]]
        BY <1>1, <3>1, <3>2, <4>1, <4>2 DEF Written, Intended, TypeOK
      <4>4. conn[d].blocks \subseteq disk[receiving[d]]
        BY <1>7, <3>1 DEF ByteInv, BlocksBacked
      <4>5. conn'[d].blocks = conn[d].blocks \cup {conn[d].block}
        BY <1>1, <2>6, <3>2, DataEffect DEF Marked
      <4>. QED  BY <1>3, <2>1, <3>1, <4>3, <4>4, <4>5
    <3>3. CASE ~Intended(d)
      BY <1>1, <2>3, <2>6, <3>1, <3>3, DataEffect
    <3>. QED  BY <3>2, <3>3
  <2>. QED  BY <1>2, <1>7, <2>2, <2>3, <2>4, <2>5, <2>6 DEF InStep
<1>8. ASSUME NEW p \in Piece, pieces'[p] = "AVAILABLE"
      PROVE  disk'[p] = Block(p)
  <2>1. Block(p) \subseteq disk[p]
    <3>1. CASE pieces[p] = "AVAILABLE"
      BY <3>1 DEF ByteInv, BlocksBacked, AvailableValid
    <3>2. CASE pieces[p] # "AVAILABLE"
      <4>1. PICK c \in Slot : receiving[c] = p /\ Block(p) \subseteq conn[c].blocks
        BY <1>1, <1>8, <3>2, NewlyAvailable
      <4>2. p # NULL
        BY NullAssumption
      <4>. QED  BY <4>1, <4>2 DEF ByteInv, BlocksBacked
    <3>. QED  BY <3>1, <3>2
  <2>. QED  BY <1>3, <2>1
<1>9. BlocksBacked'
  BY <1>7, <1>8 DEF BlocksBacked, AvailableValid
<1>. QED  BY <1>1, <1>4, <1>5, <1>6, <1>9 DEF ByteInv

\* As long as the bytes of the peers are right and no two slots hold one descriptor
\* number, a block marked as received is in the file, and a piece is available only
\* with all of its bytes: with receive_piece_iter, receive_piece_cleanup and
\* decision_send in any order on any number of slots, with late and repeated blocks,
\* and with connections that are lost.
THEOREM MarksBacked == ("corrupt" \notin Faults /\ Spec /\ []NoneShared) => []BlocksBacked
<1>. SUFFICES ASSUME "corrupt" \notin Faults
              PROVE  Spec /\ []NoneShared => []BlocksBacked
  OBVIOUS
<1>1. ByteInv /\ NoneShared /\ [Next]_vars => ByteInv'
  BY NextBytes
<1>2. ByteInv => BlocksBacked
  BY DEF ByteInv
<1>. QED  BY <1>1, <1>2, InitBytes, PTL DEF Spec
=============================================================================
