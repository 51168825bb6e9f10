---------------------------- MODULE Answers_proofs ----------------------------
(***************************************************************************)
(* Theorems about the answers of EventLoop when they come before           *)
(* BLOCK_REQUEST_TIMEOUT ("slow" is not among the faults): on a connection *)
(* that is nobody else's every block that is under way is expected, and    *)
(* where there are no others nothing dereferences a NULL piece.            *)
(***************************************************************************)
EXTENDS Blocks_proofs

-----------------------------------------------------------------------------

\* The block that is being received answers r.
Answering(c, r) == conn[c].in.at = "data" /\ conn[c].in.req = r

\* The request r of slot c is being sent, not answered, or being answered.
Awaiting(c, r) ==
  r \in conn[c].out.reqs \/ remote[c].owed[r] > 0 \/ Answering(c, r)

\* There is one of each.
Once(c) ==
  \A r \in Request :
    /\ remote[c].owed[r] <= 1
    /\ r \in conn[c].out.reqs => remote[c].owed[r] = 0
    /\ Answering(c, r) => remote[c].owed[r] = 0 /\ r \notin conn[c].out.reqs

\* It is for a block of the current piece that has been asked for and not received.
Wanted(c) ==
  \A r \in Request : Awaiting(c, r) =>
    r[1] = receiving[c] /\ r[2] \in conn[c].req_blocks \ conn[c].blocks

\* last_req_tick is only that old if nothing has been asked for.
Timely(c) ==
  conn[c].age = RequestTimeout => \A r \in Request : ~Awaiting(c, r)

\* The header of a block comes before a block that is owed.
Coming(c) ==
  conn[c].in.at = "piece" => \E r \in Request : remote[c].owed[r] > 0

\* The block that will be marked is the one that is being received.
Marking(c) ==
  conn[c].in.at = "data" => conn[c].block = conn[c].in.req[2]

Clean(c) == Once(c) /\ Wanted(c) /\ Timely(c) /\ Coming(c) /\ Marking(c)

AnswerInv == Inv /\ \A c \in Slot : Private(c) => Clean(c)

\* A slot that awaits nothing has nothing to get wrong.
LEMMA NothingAwaited ==
  ASSUME TypeOK', NEW d \in Slot, \A r \in Request : ~Awaiting(d, r)',
         conn'[d].in.at # "piece"
  PROVE  Clean(d)'
<1>1. \A r \in Request : remote'[d].owed[r] \in Nat
  BY DEF TypeOK, RemoteType
<1>2. \A r \in Request : remote'[d].owed[r] = 0
  BY <1>1 DEF Awaiting
<1>3. conn'[d].in.at # "data"
  <2>1. SUFFICES ASSUME conn'[d].in.at = "data" PROVE FALSE
    OBVIOUS
  <2>2. conn'[d].in \in InTrans
    BY DEF TypeOK, ConnType
  <2>3. conn'[d].in.req \in Request
    BY <2>1, <2>2 DEF InTrans
  <2>. QED  BY <2>1, <2>3 DEF Awaiting, Answering
<1>. QED  BY <1>2, <1>3
     DEF Clean, Once, Wanted, Timely, Coming, Marking, Awaiting

\* Nor has one that awaits less than before.
LEMMA LessAwaited ==
  ASSUME TypeOK, TypeOK', NEW d \in Slot, Clean(d), Coming(d)', Marking(d)',
         conn'[d].out.reqs \subseteq conn[d].out.reqs,
         \A r \in Request : remote'[d].owed[r] <= remote[d].owed[r],
         \A r \in Request : Answering(d, r)' => Answering(d, r),
         receiving'[d] = receiving[d],
         conn'[d].req_blocks = conn[d].req_blocks, conn'[d].blocks = conn[d].blocks,
         conn'[d].age = RequestTimeout => Timely(d)'
  PROVE  Clean(d)'
<1>1. \A r \in Request : remote'[d].owed[r] \in Nat /\ remote[d].owed[r] \in Nat
  BY DEF TypeOK, RemoteType
<1>2. \A r \in Request : Awaiting(d, r)' => Awaiting(d, r)
  BY <1>1 DEF Awaiting
<1>3. Once(d)'
  BY <1>1 DEF Once, Clean
<1>4. Wanted(d)'
  BY <1>2 DEF Wanted, Clean
<1>5. Timely(d)'
  BY DEF Timely
<1>. QED  BY <1>3, <1>4, <1>5 DEF Clean

LEMMA SameClean ==
  ASSUME NEW d \in Slot, Clean(d), conn'[d] = conn[d],
         remote'[d] = remote[d], receiving'[d] = receiving[d]
  PROVE  Clean(d)'
BY DEF Clean, Once, Wanted, Timely, Coming, Marking, Awaiting, Answering

LEMMA CloseClean ==
  ASSUME TypeOK, NEW S \in SUBSET Slot, CloseSlots(S), NEW d \in Slot,
         Clean(d), Private(d)'
  PROVE  Clean(d)'
BY CloseLeaves, SameClean

-----------------------------------------------------------------------------
(* The receiving half *)

\* The header of a block announces one that is owed.
LEMMA HeaderClean ==
  ASSUME TypeOK, TypeOK', NEW c \in Slot, ReceivePiece(c), Private(c), Clean(c)
  PROVE  Clean(c)'
<1>1. /\ conn' = [conn EXCEPT ![c].in = In("piece")]
      /\ remote' = remote /\ receiving' = receiving
  BY DEF ReceivePiece
<1>2. /\ conn'[c].in.at = "piece" /\ conn'[c].out = conn[c].out
      /\ conn'[c].req_blocks = conn[c].req_blocks /\ conn'[c].blocks = conn[c].blocks
      /\ conn'[c].age = conn[c].age
  BY <1>1 DEF TypeOK, ConnType, In
<1>3. \E r \in Request : remote[c].owed[r] > 0
  BY DEF ReceivePiece, Sends
<1>4. \A r \in Request : Awaiting(c, r)' => Awaiting(c, r)
  BY <1>1, <1>2 DEF Awaiting, Answering
<1>5. Once(c)' /\ Wanted(c)'
  BY <1>1, <1>2, <1>4 DEF Once, Wanted, Answering, Clean
<1>6. Timely(c)' /\ Coming(c)' /\ Marking(c)'
  BY <1>1, <1>2, <1>3, <1>4 DEF Timely, Coming, Marking, Clean
<1>. QED  BY <1>5, <1>6 DEF Clean

\* The index and the offset say which of them comes.
LEMMA ConvClean ==
  ASSUME TypeOK, TypeOK', NEW c \in Slot, ConvPiece(c), Private(c), Clean(c)
  PROVE  Clean(c)'
<1>1. PICK r \in Request :
        /\ Sends(c, r)
        /\ remote' = [remote EXCEPT ![c].owed[r] = @ - 1]
        /\ conn'[c].in.at = "data" /\ conn'[c].in.req = r
        /\ conn'[c].block = r[2]
        /\ conn'[c].blocks = conn[c].blocks
        /\ conn'[c].out = conn[c].out
  BY ConvEffect, Zenon
<1>2. conn'[c].req_blocks = conn[c].req_blocks /\ conn'[c].age = conn[c].age
  <2>1. PICK s \in Request, good \in BOOLEAN :
          conn' = [conn EXCEPT ![c] = [@ EXCEPT !.block = s[2],
                     !.in = [at |-> "data", req |-> s, good |-> good,
                             into |-> s[1] = receiving[c]]]]
    BY DEF ConvPiece
  <2>. QED  BY <2>1 DEF TypeOK, ConnType
<1>3. receiving' = receiving /\ conn[c].in.at = "piece" /\ remote[c].owed[r] > 0
  BY <1>1 DEF ConvPiece, Recv, Sends
<1>4. remote'[c].owed = [remote[c].owed EXCEPT ![r] = @ - 1]
  BY <1>1 DEF TypeOK, RemoteType
<1>5. remote[c].owed \in [Request -> Nat]
  BY DEF TypeOK, RemoteType
<1>6. remote[c].owed[r] = 1 /\ r \notin conn[c].out.reqs
  BY <1>3, <1>5 DEF Clean, Once
<1>7. \A s \in Request : remote'[c].owed[s] = IF s = r THEN 0 ELSE remote[c].owed[s]
  BY <1>4, <1>5, <1>6
<1>8. \A s \in Request : Awaiting(c, s)' => Awaiting(c, s)
  BY <1>1, <1>3, <1>7 DEF Awaiting, Answering
<1>9. Once(c)'
  BY <1>1, <1>6, <1>7 DEF Once, Answering, Clean
<1>10. Wanted(c)'
  BY <1>1, <1>2, <1>3, <1>8 DEF Wanted, Clean
<1>11. Timely(c)' /\ Coming(c)' /\ Marking(c)'
  BY <1>1, <1>2, <1>8 DEF Timely, Coming, Marking, Clean
<1>. QED  BY <1>9, <1>10, <1>11 DEF Clean

\* The block that is marked is the one that was answered.
LEMMA DataClean ==
  ASSUME TypeOK, TypeOK', NEW c \in Slot, ReceiveData(c), Clean(c)
  PROVE  Clean(c)'
<1>1. /\ conn'[c].in.at = "header" /\ conn'[c].out = conn[c].out
      /\ conn'[c].blocks = IF Intended(c) THEN Marked(c) ELSE conn[c].blocks
  BY DataEffect DEF In
<1>2. conn'[c].req_blocks = conn[c].req_blocks /\ conn'[c].age = conn[c].age
  BY DEF ReceiveData, TypeOK, ConnType
<1>3. receiving' = receiving /\ remote' = remote /\ conn[c].in.at = "data"
  BY DEF ReceiveData, Recv
<1>4. conn[c].in.req \in Request /\ Answering(c, conn[c].in.req)
  BY <1>3, RequestUnderWay DEF Answering
<1>5. Intended(c) /\ conn[c].block = conn[c].in.req[2]
  BY <1>3, <1>4 DEF Clean, Wanted, Awaiting, Intended, Marking
<1>6. conn'[c].blocks = conn[c].blocks \cup {conn[c].in.req[2]}
  BY <1>1, <1>5 DEF Marked
<1>7. \A r \in Request : Awaiting(c, r)' => Awaiting(c, r) /\ r # conn[c].in.req
  BY <1>1, <1>3, <1>4 DEF Awaiting, Answering, Clean, Once
<1>8. ASSUME NEW r \in Request, Awaiting(c, r)'
      PROVE  r[1] = receiving'[c] /\ r[2] \in conn'[c].req_blocks \ conn'[c].blocks
  <2>1. r[1] = receiving[c] /\ r[2] \in conn[c].req_blocks \ conn[c].blocks
    BY <1>7, <1>8 DEF Clean, Wanted
  <2>2. r[1] = conn[c].in.req[1]
    BY <1>5, <2>1 DEF Intended
  <2>3. r[2] # conn[c].in.req[2]
    BY <1>4, <1>7, <1>8, <2>2 DEF Request
  <2>. QED  BY <1>2, <1>3, <1>6, <2>1, <2>3
<1>9. Once(c)'
  BY <1>1, <1>3 DEF Clean, Once, Answering
<1>10. Wanted(c)'
  BY <1>8 DEF Wanted
<1>11. Timely(c)' /\ Coming(c)' /\ Marking(c)'
  BY <1>1, <1>2, <1>7 DEF Clean, Timely, Coming, Marking
<1>. QED  BY <1>9, <1>10, <1>11 DEF Clean

\* What the other callbacks leave alone.
LEMMA RestOfSlot ==
  ASSUME TypeOK, NEW c \in Slot,
         \/ ReceiveHandshake(c) \/ ReceiveChoke(c) \/ ReceiveUnchoke(c)
         \/ ReceiveInterested(c) \/ ReceivePart(c)
  PROVE  /\ conn'[c].req_blocks = conn[c].req_blocks /\ conn'[c].blocks = conn[c].blocks
         /\ conn'[c].age = conn[c].age /\ conn'[c].out = conn[c].out
         /\ \A r \in Request : Answering(c, r)' => Answering(c, r)
         /\ conn'[c].in.at # "piece"
         /\ Marking(c) => Marking(c)'
         /\ \A d \in Slot \ {c} : conn'[d] = conn[d]
<1>. USE DEF TypeOK, ConnType
<1>1. CASE ReceiveHandshake(c)
  BY <1>1 DEF ReceiveHandshake, Answering, Marking, In
<1>2. CASE ReceiveChoke(c)
  BY <1>2 DEF ReceiveChoke, Recv, Answering, Marking
<1>3. CASE ReceiveUnchoke(c)
  BY <1>3 DEF ReceiveUnchoke, Recv, Answering, Marking
<1>4. CASE ReceiveInterested(c)
  <2>1. PICK interest \in BOOLEAN : conn' = [conn EXCEPT ![c].interested = interest]
    BY <1>4 DEF ReceiveInterested
  <2>2. conn[c].in.at = "header"
    BY <1>4 DEF ReceiveInterested, Recv
  <2>. QED  BY <2>1, <2>2 DEF Answering, Marking
<1>5. CASE ReceivePart(c)
  <2>1. conn'[c].req_blocks = conn[c].req_blocks /\ conn'[c].age = conn[c].age
    <3>1. PICK good \in BOOLEAN : conn' = [conn EXCEPT ![c].in = Resumed(c, good)]
      BY <1>5 DEF ReceivePart
    <3>. QED  BY <3>1
  <2>2. conn[c].in.at = "data"
    BY <1>5 DEF ReceivePart, Recv
  <2>3. PICK good \in BOOLEAN :
          /\ conn'[c].in.at = "data" /\ conn'[c].in.req = conn[c].in.req
          /\ conn'[c].block = conn[c].block /\ conn'[c].blocks = conn[c].blocks
          /\ conn'[c].out = conn[c].out
          /\ \A d \in Slot \ {c} : conn'[d] = conn[d]
    BY <1>5, PartEffect, Zenon
  <2>. QED  BY <2>1, <2>2, <2>3 DEF Answering, Marking
<1>. QED  BY <1>1, <1>2, <1>3, <1>4, <1>5

LEMMA HandleInClean ==
  ASSUME TypeOK, TypeOK', NEW c \in Slot, HandleIn(c),
         NEW d \in Slot, Private(d), Private(d)', Clean(d)
  PROVE  Clean(d)'
<1>1. CASE ReceivePiece(c)
  <2>1. CASE d = c
    BY <1>1, <2>1, HeaderClean
  <2>2. CASE d # c
    <3>1. conn'[d] = conn[d] /\ remote'[d] = remote[d] /\ receiving' = receiving
      BY <1>1, <2>2 DEF ReceivePiece, TypeOK
    <3>. QED  BY <3>1, SameClean
  <2>. QED  BY <2>1, <2>2
<1>2. CASE ReceiveData(c)
  <2>1. CASE d = c
    BY <1>2, <2>1, DataClean
  <2>2. CASE d # c
    <3>1. d \in Slot \ {c}
      BY <2>2
    <3>2. conn'[d] = conn[d]
      BY <1>2, <3>1, DataEffect, Zenon
    <3>3. remote' = remote /\ receiving' = receiving
      BY <1>2 DEF ReceiveData
    <3>. QED  BY <3>2, <3>3, SameClean
  <2>. QED  BY <2>1, <2>2
<1>3. CASE ConvPiece(c)
  <2>1. CASE d = c
    BY <1>3, <2>1, ConvClean
  <2>2. CASE d # c
    <3>1. d \in Slot \ {c}
      BY <2>2
    <3>2. conn'[d] = conn[d]
      BY <1>3, <3>1, ConvEffect, Zenon
    <3>3. remote'[d] = remote[d] /\ receiving' = receiving
      BY <1>3, <2>2 DEF ConvPiece, TypeOK
    <3>. QED  BY <3>2, <3>3, SameClean
  <2>. QED  BY <2>1, <2>2
<1>4. CASE \/ ReceiveHandshake(c) \/ ReceiveChoke(c) \/ ReceiveUnchoke(c)
           \/ ReceiveInterested(c) \/ ReceivePart(c)
  <2>1. receiving' = receiving
    BY <1>4 DEF ReceiveHandshake, ReceiveChoke, ReceiveUnchoke, ReceiveInterested,
                ReceivePart
  <2>2. \/ UNCHANGED remote
        \/ remote' = [remote EXCEPT ![c].owed = [r \in Request |-> 0]]
    BY <1>4 DEF ReceiveHandshake, ReceiveChoke, ReceiveUnchoke, ReceiveInterested,
                ReceivePart
  <2>3. CASE d = c
    <3>1. \A r \in Request : remote[c].owed[r] \in Nat
      BY DEF TypeOK, RemoteType
    <3>2. \A r \in Request : remote'[c].owed[r] <= remote[c].owed[r]
      BY <2>2, <3>1 DEF TypeOK, RemoteType
    <3>3. /\ conn'[c].req_blocks = conn[c].req_blocks
          /\ conn'[c].blocks = conn[c].blocks
          /\ conn'[c].age = conn[c].age /\ conn'[c].out = conn[c].out
          /\ \A r \in Request : Answering(c, r)' => Answering(c, r)
          /\ conn'[c].in.at # "piece" /\ (Marking(c) => Marking(c)')
      BY <1>4, RestOfSlot, Zenon
    <3>4. Coming(c)' /\ Marking(c)'
      BY <2>3, <3>3 DEF Coming, Clean
    <3>5. Timely(c)'
      <4>1. \A r \in Request : remote'[c].owed[r] \in Nat
        BY DEF TypeOK, RemoteType
      <4>2. \A r \in Request : Awaiting(c, r)' => Awaiting(c, r)
        BY <3>1, <3>2, <3>3, <4>1 DEF Awaiting
      <4>. QED  BY <2>3, <3>3, <4>2 DEF Timely, Clean
    <3>. QED  BY <2>1, <2>3, <3>2, <3>3, <3>4, <3>5, LessAwaited
  <2>4. CASE d # c
    <3>1. d \in Slot \ {c}
      BY <2>4
    <3>2. conn'[d] = conn[d]
      BY <1>4, <3>1, RestOfSlot, Zenon
    <3>3. remote'[d] = remote[d]
      BY <2>2, <2>4 DEF TypeOK
    <3>. QED  BY <2>1, <3>2, <3>3, SameClean
  <2>. QED  BY <2>3, <2>4
<1>5. CASE ReceiveHave(c) \/ ReceiveBitset(c) \/ ConvCrash(c) \/ RecvWaits(c)
  BY <1>5, SameClean DEF ReceiveHave, ReceiveBitset, ConvCrash, RecvWaits
<1>6. CASE ConvOutOfBounds(c) \/ RecvFails(c)
  BY <1>6, CloseClean, {c} \in SUBSET Slot DEF ConvOutOfBounds, RecvFails, Close
<1>. QED  BY <1>1, <1>2, <1>3, <1>4, <1>5, <1>6, Zenon DEF HandleIn

-----------------------------------------------------------------------------
(* The sending half *)

\* What was sent is owed, if the peer heeds it: it is awaited as before.
LEMMA DeliveredOwed ==
  ASSUME TypeOK, NEW c \in Slot, Private(c), Clean(c), Reaches(c)
  PROVE  \A r \in Request :
           /\ remote'[c].owed[r] \in {0, 1}
           /\ remote'[c].owed[r] = 1 => remote[c].owed[r] = 1 \/ r \in conn[c].out.reqs
           /\ remote[c].owed[r] > 0 => remote'[c].owed[r] > 0
<1>1. PICK heeded \in {conn[c].out.reqs} \cup (IF conn[c].choking THEN {{}} ELSE {}) :
        remote' = [remote EXCEPT ![c] = Delivered(c, heeded)]
  BY DEF Reaches
<1>2. remote'[c] = Delivered(c, heeded)
  BY <1>1 DEF TypeOK
<1>3. heeded \subseteq conn[c].out.reqs
  OBVIOUS
<1>. SUFFICES ASSUME NEW r \in Request
              PROVE  /\ remote'[c].owed[r] \in {0, 1}
                     /\ remote'[c].owed[r] = 1 =>
                          remote[c].owed[r] = 1 \/ r \in conn[c].out.reqs
                     /\ remote[c].owed[r] > 0 => remote'[c].owed[r] > 0
  OBVIOUS
<1>4. remote[c].owed[r] \in Nat /\ remote[c].owed[r] <= 1
  BY DEF Clean, Once, TypeOK, RemoteType
<1>5. r \in heeded => remote[c].owed[r] = 0
  BY <1>3 DEF Clean, Once
<1>6. remote'[c].owed[r] = IF r \in heeded THEN 1 ELSE remote[c].owed[r]
  BY <1>2, <1>5, CountsAssumption DEF Delivered
<1>. QED  BY <1>3, <1>4, <1>5, <1>6

\* decision_send asks for nothing while nothing is awaited, or asks for more.
LEMMA SendClean ==
  ASSUME TypeOK, TypeOK', NEW c \in Slot, Send(c), Private(c), Clean(c)
  PROVE  Clean(c)'
<1>. USE DEF ConnType
<1>1. Decide(c) /\ Reaches(c) /\ conn'[c].in = conn[c].in
  BY DecideLeaves DEF Send
<1>2. \A r \in Request :
        /\ remote'[c].owed[r] \in {0, 1}
        /\ remote'[c].owed[r] = 1 => remote[c].owed[r] = 1 \/ r \in conn[c].out.reqs
        /\ remote[c].owed[r] > 0 => remote'[c].owed[r] > 0
  BY <1>1, DeliveredOwed
<1>3. \A r \in Request : remote[c].owed[r] \in Nat
  BY DEF TypeOK, RemoteType
<1>4. ASSUME \A r \in Request : ~Awaiting(c, r), conn'[c].out.reqs = {}
      PROVE  Clean(c)'
  <2>1. \A r \in Request : ~Awaiting(c, r)'
    BY <1>1, <1>2, <1>4 DEF Awaiting, Answering
  <2>2. conn'[c].in.at # "piece"
    BY <1>1, <1>4 DEF Clean, Coming, Awaiting
  <2>. QED  BY <2>1, <2>2, NothingAwaited
<1>5. Coming(c)'
  BY <1>1, <1>2 DEF Coming, Clean
<1>6. ASSUME receiving[c] = NULL
      PROVE  \A r \in Request : ~Awaiting(c, r)
  BY <1>6, RequestParts, NullAssumption DEF Clean, Wanted
<1>7. ASSUME NEW p \in Piece, SetupPiece(c, p)
      PROVE  Clean(c)'
  <2>1. receiving[c] = NULL /\ conn'[c].out.reqs = {}
    BY <1>7 DEF SetupPiece, UpdateInterest, Out, TypeOK
  <2>. QED  BY <1>4, <1>6, <2>1
<1>8. CASE NothingToFetch(c)
  <2>1. receiving[c] = NULL /\ conn'[c].out.reqs = {}
    BY <1>8 DEF NothingToFetch, Out, TypeOK
  <2>. QED  BY <1>4, <1>6, <2>1
<1>9. CASE FinishPiece(c)
  <2>1. conn'[c].out.reqs = {}
    BY <1>9 DEF FinishPiece, Out, TypeOK
  <2>2. ASSUME NEW r \in Request, Awaiting(c, r) PROVE FALSE
    <3>1. r[1] = receiving[c] /\ r[2] \notin conn[c].blocks
      BY <2>2 DEF Clean, Wanted
    <3>. QED  BY <1>9, <3>1, RequestParts DEF FinishPiece, MissingBlocks
  <2>. QED  BY <1>4, <2>1, <2>2
<1>10. CASE AwaitBlocks(c) \/ Idle(c)
  <2>1. /\ conn'[c].out.reqs = {}
        /\ conn'[c].req_blocks = conn[c].req_blocks /\ conn'[c].blocks = conn[c].blocks
        /\ conn'[c].age = conn[c].age /\ conn'[c].block = conn[c].block
    <3>1. CASE AwaitBlocks(c)
      BY <3>1 DEF AwaitBlocks, Out, TypeOK
    <3>2. CASE Idle(c)
      BY <3>2 DEF Idle, Out, TypeOK
    <3>. QED  BY <1>10, <3>1, <3>2
  <2>2. receiving' = receiving
    BY <1>10 DEF AwaitBlocks, Idle
  <2>3. \A r \in Request : Awaiting(c, r)' => Awaiting(c, r)
    BY <1>1, <1>2, <2>1 DEF Awaiting, Answering
  <2>4. Once(c)'
    BY <1>1, <1>2, <2>1 DEF Clean, Once, Answering
  <2>5. Wanted(c)' /\ Timely(c)' /\ Marking(c)'
    BY <1>1, <2>1, <2>2, <2>3 DEF Clean, Wanted, Timely, Marking
  <2>. QED  BY <1>5, <2>4, <2>5 DEF Clean
<1>11. CASE SendBlockRequests(c)
  <2>1. /\ conn'[c].out.reqs = {receiving[c]} \X Batch(c)
        /\ conn'[c].req_blocks = Requested(c) \cup Batch(c)
        /\ conn'[c].blocks = conn[c].blocks
        /\ conn'[c].age = 0 /\ conn'[c].block = conn[c].block
    BY <1>11 DEF SendBlockRequests, TypeOK
  <2>2. receiving' = receiving /\ receiving[c] \in Piece
    BY <1>11 DEF SendBlockRequests, AsksBlocks, TypeOK
  <2>3. ASSUME NEW r \in Request, Awaiting(c, r)
        PROVE  /\ r[1] = receiving[c] /\ r[2] \in Requested(c) \ conn[c].blocks
               /\ r \notin conn'[c].out.reqs
    <3>1. r[1] = receiving[c] /\ r[2] \in conn[c].req_blocks \ conn[c].blocks
      BY <2>3 DEF Clean, Wanted
    <3>2. ~TimedOut(c)
      <4>1. conn[c].age \in 0 .. RequestTimeout
        BY DEF TypeOK
      <4>2. conn[c].age # RequestTimeout
        BY <2>3 DEF Clean, Timely
      <4>. QED  BY <4>1, <4>2, CountsAssumption DEF TimedOut
    <3>3. r[2] \notin Batch(c)
      BY <3>1, <3>2 DEF Batch, FreshBlocks, Requested
    <3>4. r \notin conn'[c].out.reqs
      BY <2>1, <3>3
    <3>. QED  BY <3>1, <3>2, <3>4 DEF Requested
  <2>4. ASSUME NEW r \in Request, r \in conn'[c].out.reqs
        PROVE  r[1] = receiving[c] /\ r[2] \in Batch(c) \ conn[c].blocks
    BY <2>1, <2>4 DEF Batch, FreshBlocks, MissingBlocks
  <2>5. \A r \in Request : Awaiting(c, r)' => Awaiting(c, r) \/ r \in conn'[c].out.reqs
    BY <1>1, <1>2 DEF Awaiting, Answering
  <2>6. Once(c)'
    <3>. SUFFICES ASSUME NEW r \in Request
                  PROVE  /\ remote'[c].owed[r] <= 1
                         /\ r \in conn'[c].out.reqs => remote'[c].owed[r] = 0
                         /\ Answering(c, r)' =>
                              remote'[c].owed[r] = 0 /\ r \notin conn'[c].out.reqs
      BY DEF Once
    <3>1. Answering(c, r)' <=> Answering(c, r)
      BY <1>1 DEF Answering
    <3>2. r \in conn'[c].out.reqs => ~Awaiting(c, r)
      BY <2>3
    <3>. QED  BY <1>2, <1>3, <3>1, <3>2 DEF Clean, Once, Awaiting
  <2>7. Wanted(c)'
    <3>. SUFFICES ASSUME NEW r \in Request, Awaiting(c, r)'
                  PROVE  r[1] = receiving'[c] /\ r[2] \in conn'[c].req_blocks \ conn'[c].blocks
      BY DEF Wanted
    <3>1. CASE Awaiting(c, r)
      BY <2>1, <2>2, <2>3, <3>1
    <3>2. CASE r \in conn'[c].out.reqs
      BY <2>1, <2>2, <2>4, <3>2
    <3>. QED  BY <2>5, <3>1, <3>2
  <2>8. Timely(c)'
    BY <2>1, CountsAssumption DEF Timely
  <2>9. Marking(c)'
    BY <1>1, <2>1 DEF Clean, Marking
  <2>. QED  BY <1>5, <2>6, <2>7, <2>8, <2>9 DEF Clean
<1>. QED  BY <1>1, <1>7, <1>8, <1>9, <1>10, <1>11 DEF Decide

-----------------------------------------------------------------------------
(* The loop *)

\* The last tick before the time-out is only counted where nothing is awaited.
LEMMA PollerClean ==
  ASSUME TypeOK, TypeOK', "slow" \notin Faults, PollerUpdate,
         NEW d \in Slot, Private(d)', Clean(d)
  PROVE  Clean(d)'
<1>1. Private(d) /\ remote'[d] = remote[d] /\ receiving'[d] = receiving[d]
  BY PollerKeeps
<1>2. /\ conn'[d].out = conn[d].out /\ conn'[d].in = conn[d].in
      /\ conn'[d].block = conn[d].block /\ conn'[d].blocks = conn[d].blocks
      /\ conn'[d].req_blocks = conn[d].req_blocks
      /\ conn'[d].age = Aged(d)
  BY PollerLeaves
<1>3. \A r \in Request : Awaiting(d, r)' <=> Awaiting(d, r)
  BY <1>1, <1>2 DEF Awaiting, Answering
<1>4. ASSUME Aged(d) = RequestTimeout, NEW r \in Request, Awaiting(d, r)
      PROVE  FALSE
  <2>1. r \in Awaited(d)
    BY <1>4 DEF Awaited, Awaiting, Answering
  <2>2. ~TimePasses(d)
    BY <1>1, <2>1 DEF TimePasses, MayOccur
  <2>3. conn[d].age \in 0 .. RequestTimeout
    BY DEF TypeOK, ConnType
  <2>4. conn[d].age = RequestTimeout
    BY <1>4, <2>2, <2>3, CountsAssumption DEF Aged
  <2>. QED  BY <1>4, <2>4 DEF Clean, Timely
<1>5. Timely(d)'
  BY <1>2, <1>3, <1>4 DEF Timely
<1>6. Once(d)' /\ Wanted(d)' /\ Coming(d)' /\ Marking(d)'
  BY <1>1, <1>2, <1>3 DEF Clean, Once, Wanted, Coming, Marking, Answering
<1>. QED  BY <1>5, <1>6 DEF Clean

LEMMA NextAnswers ==
  ASSUME "slow" \notin Faults, AnswerInv, [Next]_vars
  PROVE  AnswerInv'
<1>1. Inv /\ Inv' /\ TypeOK /\ TypeOK' /\ Numbered
  BY NextInv DEF AnswerInv, Inv
<1>2. ASSUME NEW d \in Slot, NEW q \in Peer, Connect(d, q), Private(d)'
      PROVE  Clean(d)'
  <2>1. conn'[d].out.reqs = {} /\ conn'[d].in.at = "handshake"
    BY <1>1, <1>2 DEF Connect, TypeOK, ClearedConn, In, Out
  <2>2. \A r \in Request : remote'[d].owed[r] = 0
    BY <1>1, <1>2, ClearedIdle DEF Connect, TypeOK
  <2>3. \A r \in Request : ~Awaiting(d, r)'
    BY <2>1, <2>2 DEF Awaiting, Answering
  <2>. QED  BY <1>1, <2>1, <2>3, NothingAwaited
<1>3. ASSUME NEW d \in Slot, Private(d), Private(d)'
      PROVE  Clean(d)'
  <2>. Clean(d)
    BY <1>3 DEF AnswerInv
  <2>1. ASSUME NEW c \in Slot, PeerConnInit(c)
        PROVE  Clean(d)'
    <3>1. receiving' = receiving
      BY <2>1 DEF PeerConnInit
    <3>2. CASE UNCHANGED <<conn, remote>>
      BY <3>1, <3>2, SameClean
    <3>3. ASSUME NEW q \in Peer, Connect(c, q), d # c
          PROVE  Clean(d)'
      <4>1. conn'[d] = conn[d] /\ remote'[d] = remote[d]
        BY <1>1, <3>3 DEF Connect, TypeOK
      <4>. QED  BY <3>1, <4>1, SameClean
    <3>. QED  BY <1>2, <1>3, <2>1, <3>2, <3>3 DEF PeerConnInit, Refuse, Eligible
  <2>2. ASSUME NEW c \in Slot, HandleOut(c)
        PROVE  Clean(d)'
    <3>1. CASE SkipSend(c)
      BY <3>1, SameClean DEF SkipSend
    <3>2. CASE SendFails(c)
      BY <1>1, <1>3, <3>2, CloseClean, {c} \in SUBSET Slot DEF SendFails, Close
    <3>3. CASE Send(c)
      <4>1. CASE d = c
        BY <1>1, <1>3, <3>3, <4>1, SendClean
      <4>2. CASE d # c
        <5>1. d \in Slot \ {c} /\ Decide(c) /\ Reaches(c)
          BY <3>3, <4>2 DEF Send
        <5>2. conn'[d] = conn[d] /\ receiving'[d] = receiving[d]
          BY <1>1, <5>1, DecideLeaves
        <5>3. remote'[d] = remote[d]
          BY <1>1, <4>2, <5>1 DEF Reaches, TypeOK
        <5>. QED  BY <5>2, <5>3, SameClean
      <4>. QED  BY <4>1, <4>2
    <3>. QED  BY <2>2, <3>1, <3>2, <3>3 DEF HandleOut
  <2>3. CASE PollerUpdate
    BY <1>1, <1>3, <2>3, PollerClean
  <2>4. CASE LoopExit
    BY <1>1, <1>3, <2>4, CloseClean, Slot \in SUBSET Slot DEF LoopExit
  <2>5. CASE Break \/ Sigint \/ UNCHANGED vars
    BY <2>5, SameClean DEF Break, Sigint, vars
  <2>. QED  BY <1>1, <1>3, <2>1, <2>2, <2>3, <2>4, <2>5, HandleInClean
            DEF Next, Loop, Step, Terminated
<1>4. ASSUME NEW d \in Slot, Private(d)'
      PROVE  Clean(d)'
  BY <1>1, <1>2, <1>3, <1>4, PrivateKept
<1>. QED  BY <1>1, <1>4 DEF AnswerInv

LEMMA InitAnswers == Init => AnswerInv
<1>. SUFFICES ASSUME Init PROVE AnswerInv
  OBVIOUS
<1>1. \A c \in Slot : ~Private(c)
  BY DEF Init, Private, Linked
<1>. QED  BY <1>1, InitInv DEF AnswerInv

\* Answers in time are for blocks of the current piece that are still missing, one
\* for each request, however choking, interest, time-outs that nothing was asked for
\* and closing slots interleave, on every connection that a slot has for itself
\* (send_block_requests, receive_piece_conv).
THEOREM AnswersInTime == ("slow" \notin Faults /\ Spec) => []AnswersExpected
<1>. SUFFICES ASSUME "slow" \notin Faults
              PROVE  Spec => []AnswersExpected
  OBVIOUS
<1>1. AnswerInv /\ [Next]_vars => AnswerInv'
  BY NextAnswers
<1>2. AnswerInv => AnswersExpected
  <2>. SUFFICES ASSUME AnswerInv, NEW c \in Slot, Private(c), NEW r \in Awaited(c)
                PROVE  /\ r[1] = receiving[c]
                       /\ r[2] \in conn[c].req_blocks \ conn[c].blocks
                       /\ remote[c].owed[r] <=
                            IF r = conn[c].in.req \/ r \in conn[c].out.reqs THEN 0 ELSE 1
    BY DEF AnswersExpected
  <2>1. TypeOK /\ Clean(c)
    BY DEF AnswerInv, Inv
  <2>2. r \in Request /\ Awaiting(c, r)
    <3>1. conn[c].out.reqs \subseteq Request
      BY <2>1 DEF TypeOK, ConnType, OutTrans
    <3>. QED  BY <2>1, <3>1, RequestUnderWay DEF Awaited, Awaiting, Answering
  <2>3. ASSUME r = conn[c].in.req PROVE Answering(c, r)
    <3>1. conn[c].in \in InTrans /\ conn[c].in.req # NULL
      BY <2>1, <2>2, <2>3, NullAssumption DEF TypeOK, ConnType
    <3>. QED  BY <2>3, <3>1 DEF InTrans, Answering
  <2>. QED  BY <2>1, <2>2, <2>3 DEF Clean, Once, Wanted
<1>. QED  BY <1>1, <1>2, InitAnswers, PTL DEF Spec

\* Only receive_piece_conv kills the process.
LEMMA CrashComes ==
  ASSUME [Next]_vars, phase # "crashed", phase' = "crashed"
  PROVE  \E c \in Slot : ConvCrash(c)
BY DEF Next, Loop, Step, PeerConnInit, NextSlot, HandleIn, HandleOut,
   SkipSend, SendFails, Send, SendTurn, ReceiveHandshake, ReceiveChoke, ReceiveUnchoke,
   ReceiveInterested, ReceiveHave, ReceiveBitset, ReceivePiece, ConvOutOfBounds,
   ConvPiece, ReceivePart, ReceiveData, RecvWaits, RecvFails, ThenSend, Break,
   PollerUpdate, LoopExit, Sigint, Terminated, vars

\* receive_piece_conv is then never reached without a current piece, and the program
\* does not die of a NULL pointer, as long as no two slots hold one descriptor number.
THEOREM NoNullPiece == ("slow" \notin Faults /\ Spec /\ []NoneShared) => []UnaskedTolerated
<1>. SUFFICES ASSUME "slow" \notin Faults
              PROVE  Spec /\ []NoneShared => []UnaskedTolerated
  OBVIOUS
<1>1. AnswerInv /\ [Next]_vars => AnswerInv'
  BY NextAnswers
<1>2. Init => UnaskedTolerated
  BY DEF Init, UnaskedTolerated
<1>3. AnswerInv /\ NoneShared /\ UnaskedTolerated /\ [Next]_vars => UnaskedTolerated'
  <2>. SUFFICES ASSUME AnswerInv, NoneShared, UnaskedTolerated, [Next]_vars,
                       phase' = "crashed"
                PROVE  FALSE
    BY DEF UnaskedTolerated
  <2>1. PICK c \in Slot : ConvCrash(c)
    BY CrashComes DEF UnaskedTolerated
  <2>2. TypeOK /\ Numbered
    BY DEF AnswerInv, Inv
  <2>3. Private(c) /\ receiving[c] = NULL /\ conn[c].in.at = "piece"
    BY <2>1, <2>2, OpenIsPrivate DEF ConvCrash, Recv
  <2>4. PICK r \in Request : Awaiting(c, r)
    BY <2>3 DEF AnswerInv, Clean, Coming, Awaiting
  <2>. QED  BY <2>3, <2>4, RequestParts, NullAssumption DEF AnswerInv, Clean, Wanted
<1>. QED  BY <1>1, <1>2, <1>3, InitAnswers, PTL DEF Spec

-----------------------------------------------------------------------------
(* Honest peers *)

Peaceful == Faults \cap {"refuse", "disconnect", "hangup", "slow"} = {}

HonestInv == AnswerInv /\ Alone /\ HonestKept

\* No slot is closed before the end of event_loop: a block is never out of bounds.
LEMMA NoneCloses ==
  ASSUME Peaceful, AnswerInv, Alone, NEW c \in Slot
  PROVE  ~ConvOutOfBounds(c) /\ ~RecvFails(c) /\ ~SendFails(c)
<1>1. ASSUME ConvOutOfBounds(c) PROVE FALSE
  <2>1. Private(c) /\ Clean(c)
    BY <1>1 DEF ConvOutOfBounds, Recv, Alone, AnswerInv
  <2>2. PICK r \in Request : Sends(c, r) /\ OutOfBounds(c, r)
    BY <1>1 DEF ConvOutOfBounds
  <2>3. r[1] = receiving[c]
    BY <2>1, <2>2 DEF Sends, Clean, Wanted, Awaiting
  <2>4. /\ receiving[c] \in Piece /\ BlockCount[receiving[c]] \in Nat
        /\ r[2] \in 0 .. BlockCount[receiving[c]] - 1
    BY <2>3, RequestParts, BlockCountAssumption DEF Block
  <2>. QED  BY <2>2, <2>4 DEF OutOfBounds
<1>2. ASSUME RecvFails(c) \/ SendFails(c) PROVE FALSE
  <2>1. Private(c)
    BY <1>2 DEF RecvFails, SendFails, Alone
  <2>. QED  BY <1>2, <2>1 DEF RecvFails, SendFails, MayOccur, Peaceful
<1>. QED  BY <1>1, <1>2

LEMMA NextHonest ==
  ASSUME Peaceful, HonestInv, [Next]_vars
  PROVE  HonestInv'
<1>1. AnswerInv /\ AnswerInv' /\ Alone /\ Alone'
  BY NextAnswers, NextAlone DEF Peaceful, HonestInv, AnswerInv
<1>2. ASSUME NEW c \in Slot, PeerConnInit(c)
      PROVE  failed' = failed /\ phase # "done"
  BY <1>2 DEF PeerConnInit, Turn, Connect, Refuse, Peaceful, linkVars
<1>3. ASSUME NEW c \in Slot, HandleIn(c)
      PROVE  failed' = failed /\ phase # "done"
  <2>1. ~ConvOutOfBounds(c) /\ ~RecvFails(c)
    BY <1>1, NoneCloses
  <2>. QED  BY <1>3, <2>1 DEF HandleIn, ReceiveHandshake, ReceiveChoke, ReceiveUnchoke,
       ReceiveInterested, ReceiveHave, ReceiveBitset, ReceivePiece, ConvCrash, ConvPiece,
       ReceivePart, ReceiveData, RecvWaits, Recv, Turn, linkVars
<1>4. ASSUME NEW c \in Slot, HandleOut(c)
      PROVE  failed' = failed /\ phase # "done"
  BY <1>1, <1>4, NoneCloses DEF HandleOut, SkipSend, Send, SendTurn, Turn, linkVars
<1>5. HonestKept'
  BY <1>2, <1>3, <1>4 DEF Next, Loop, Step, Terminated, Break, PollerUpdate, LoopExit,
     Sigint, vars, linkVars, HonestInv, HonestKept
<1>. QED  BY <1>1, <1>5 DEF HonestInv

\* Where connections hold and answers come in time, no peer that follows the protocol
\* is given up: receive_piece_conv and receive_piece_iter find every block in bounds.
THEOREM HonestPeersKept == (Peaceful /\ Spec) => []HonestKept
<1>. SUFFICES ASSUME Peaceful
              PROVE  Spec => []HonestKept
  OBVIOUS
<1>1. Init => HonestInv
  BY InitAnswers DEF Init, HonestInv, Alone, HonestKept
<1>2. HonestInv /\ [Next]_vars => HonestInv'
  BY NextHonest
<1>3. HonestInv => HonestKept
  BY DEF HonestInv
<1>. QED  BY <1>1, <1>2, <1>3, PTL DEF Spec

-----------------------------------------------------------------------------
(* Interest *)

\* A slot that holds a piece is marked interested, and the mark is only set once
\* the peer is told or is being told.
Expressed(c) ==
  /\ receiving[c] # NULL => conn[c].interested
  /\ conn[c].interested => remote[c].told \/ conn[c].out.type = "interested"

InterestInv == Inv /\ \A c \in Slot : Private(c) => Expressed(c)

LEMMA SameExpressed ==
  ASSUME NEW d \in Slot, Expressed(d),
         receiving'[d] = receiving[d], conn'[d].interested = conn[d].interested,
         conn'[d].out = conn[d].out, remote'[d].told = remote[d].told
  PROVE  Expressed(d)'
BY DEF Expressed

LEMMA CloseExpressed ==
  ASSUME TypeOK, NEW S \in SUBSET Slot, CloseSlots(S), NEW d \in Slot,
         Expressed(d), Private(d)'
  PROVE  Expressed(d)'
BY CloseLeaves, SameExpressed

\* Without "interest", receiving leaves our interest alone.
LEMMA HandleInExpressed ==
  ASSUME "interest" \notin Faults, TypeOK, NEW c \in Slot, HandleIn(c),
         NEW d \in Slot, Private(d), Private(d)', Expressed(d)
  PROVE  Expressed(d)'
<1>. USE DEF TypeOK, ConnType, RemoteType
<1>1. CASE ReceiveHandshake(c)
  BY <1>1, SameExpressed DEF ReceiveHandshake
<1>2. CASE ReceiveChoke(c)
  <2>1. /\ receiving'[d] = receiving[d] /\ conn'[d].interested = conn[d].interested
        /\ conn'[d].out = conn[d].out
    BY <1>2 DEF ReceiveChoke
  <2>2. remote'[d].told = remote[d].told
    <3>1. CASE UNCHANGED remote
      BY <3>1
    <3>2. CASE remote' = [remote EXCEPT ![c].owed = [r \in Request |-> 0]]
      BY <3>2
    <3>. QED  BY <1>2, <3>1, <3>2 DEF ReceiveChoke
  <2>. QED  BY <2>1, <2>2, SameExpressed
<1>3. CASE ReceiveUnchoke(c)
  BY <1>3, SameExpressed DEF ReceiveUnchoke
<1>4. CASE ReceivePiece(c)
  <2>1. conn' = [conn EXCEPT ![c].in = In("piece")]
    BY <1>4 DEF ReceivePiece
  <2>2. conn'[d].interested = conn[d].interested /\ conn'[d].out = conn[d].out
    BY <2>1
  <2>. QED  BY <1>4, <2>2, SameExpressed DEF ReceivePiece
<1>5. CASE ConvPiece(c)
  <2>1. PICK r \in Request, good \in BOOLEAN :
          /\ conn' = [conn EXCEPT ![c] = [@ EXCEPT !.block = r[2],
                        !.in = [at |-> "data", req |-> r, good |-> good,
                                into |-> r[1] = receiving[c]]]]
          /\ remote' = IF Private(c) THEN [remote EXCEPT ![c].owed[r] = @ - 1] ELSE remote
    BY <1>5 DEF ConvPiece
  <2>. DEFINE owed == [remote[c].owed EXCEPT ![r] = @ - 1]
  <2>2. remote'[d].told = remote[d].told
    <3>1. remote' = remote \/ remote' = [remote EXCEPT ![c] = [remote[c] EXCEPT !.owed = owed]]
      BY <2>1
    <3>. HIDE DEF owed
    <3>2. [remote[c] EXCEPT !.owed = owed].told = remote[c].told
      OBVIOUS
    <3>. QED  BY <3>1, <3>2
  <2>3. conn'[d].interested = conn[d].interested /\ conn'[d].out = conn[d].out
    BY <2>1
  <2>4. receiving'[d] = receiving[d]
    BY <1>5 DEF ConvPiece
  <2>. QED  BY <2>2, <2>3, <2>4, SameExpressed
<1>6. CASE ReceivePart(c)
  <2>1. receiving' = receiving /\ remote' = remote
    BY <1>6 DEF ReceivePart
  <2>2. conn'[d].interested = conn[d].interested /\ conn'[d].out = conn[d].out
    <3>1. PICK good \in BOOLEAN : conn' = [conn EXCEPT ![c].in = Resumed(c, good)]
      BY <1>6 DEF ReceivePart
    <3>. QED  BY <3>1
  <2>. QED  BY <2>1, <2>2, SameExpressed
<1>7. CASE ReceiveData(c)
  <2>1. receiving' = receiving /\ remote' = remote
    BY <1>7 DEF ReceiveData
  <2>2. conn'[d].interested = conn[d].interested /\ conn'[d].out = conn[d].out
    BY <1>7 DEF ReceiveData
  <2>. QED  BY <2>1, <2>2, SameExpressed
<1>8. CASE ReceiveHave(c) \/ ReceiveBitset(c) \/ ConvCrash(c) \/ RecvWaits(c)
  BY <1>8, SameExpressed DEF ReceiveHave, ReceiveBitset, ConvCrash, RecvWaits
<1>9. CASE ConvOutOfBounds(c) \/ RecvFails(c)
  BY <1>9, CloseExpressed, {c} \in SUBSET Slot DEF ConvOutOfBounds, RecvFails, Close
<1>10. CASE ReceiveInterested(c)
  <2>1. c # d
    BY <1>10 DEF ReceiveInterested, MayOccur
  <2>2. PICK interest \in BOOLEAN : conn' = [conn EXCEPT ![c].interested = interest]
    BY <1>10 DEF ReceiveInterested
  <2>3. conn'[d] = conn[d]
    BY <2>1, <2>2
  <2>4. remote' = remote /\ receiving' = receiving
    BY <1>10 DEF ReceiveInterested
  <2>. QED  BY <2>3, <2>4, SameExpressed
<1>. QED  BY <1>1, <1>2, <1>3, <1>4, <1>5, <1>6, <1>7, <1>8, <1>9, <1>10, Zenon
          DEF HandleIn

\* setup_piece sends the message when it sets the mark, and what was being sent
\* has arrived before decision_send runs again.
LEMMA SendExpressed ==
  ASSUME TypeOK, NEW c \in Slot, Send(c), NEW d \in Slot, Private(d), Expressed(d)
  PROVE  Expressed(d)'
<1>. USE DEF TypeOK, ConnType, RemoteType
<1>1. Decide(c) /\ Reaches(c)
  BY DEF Send
<1>2. CASE d # c
  <2>1. d \in Slot \ {c}
    BY <1>2
  <2>2. conn'[d] = conn[d] /\ receiving'[d] = receiving[d]
    BY <1>1, <2>1, DecideLeaves, Zenon
  <2>3. remote'[d] = remote[d]
    BY <1>1, <1>2 DEF Reaches
  <2>. QED  BY <2>2, <2>3, SameExpressed
<1>3. CASE d = c
  <2>1. remote'[c].told = (remote[c].told \/ conn[c].out.type = "interested")
    BY <1>1, <1>3 DEF Reaches, Delivered
  <2>2. ASSUME NEW p \in Piece, SetupPiece(c, p)
        PROVE  Expressed(c)'
    <3>1. conn'[c].interested = TRUE
      BY <2>2 DEF SetupPiece
    <3>2. conn'[c].out = UpdateInterest(c)
      BY <2>2 DEF SetupPiece
    <3>3. CASE conn[c].interested
      BY <1>3, <2>1, <3>1, <3>3 DEF Expressed
    <3>4. CASE ~conn[c].interested
      BY <3>1, <3>2, <3>4 DEF Expressed, UpdateInterest, Out
    <3>. QED  BY <3>3, <3>4
  <2>3. CASE \/ NothingToFetch(c) \/ SendBlockRequests(c) \/ AwaitBlocks(c)
             \/ FinishPiece(c) \/ Idle(c)
    <3>1. conn'[c].interested = conn[c].interested
      <4>1. CASE NothingToFetch(c)
        BY <4>1 DEF NothingToFetch
      <4>2. CASE SendBlockRequests(c)
        BY <4>2 DEF SendBlockRequests
      <4>3. CASE AwaitBlocks(c) \/ Idle(c)
        BY <4>3 DEF AwaitBlocks, Idle
      <4>4. CASE FinishPiece(c)
        BY <4>4 DEF FinishPiece
      <4>. QED  BY <2>3, <4>1, <4>2, <4>3, <4>4
    <3>2. receiving'[c] = receiving[c] \/ receiving'[c] = NULL
      BY <2>3 DEF NothingToFetch, SendBlockRequests, AwaitBlocks, FinishPiece, Idle
    <3>. QED  BY <1>3, <2>1, <3>1, <3>2 DEF Expressed
  <2>. QED  BY <1>1, <1>3, <2>2, <2>3 DEF Decide
<1>. QED  BY <1>2, <1>3

LEMMA NextInterest ==
  ASSUME "interest" \notin Faults, InterestInv, [Next]_vars
  PROVE  InterestInv'
<1>1. Inv /\ Inv' /\ TypeOK /\ Numbered
  BY NextInv DEF InterestInv, Inv
<1>. SUFFICES ASSUME NEW d \in Slot, Private(d)'
              PROVE  Expressed(d)'
  BY <1>1 DEF InterestInv
<1>2. Private(d) => Expressed(d)
  BY DEF InterestInv
<1>3. ASSUME NEW q \in Peer, Connect(d, q), d \notin active
      PROVE  Expressed(d)'
  <2>1. receiving[d] = NULL
    BY <1>1, <1>3 DEF Inv, SlotOwnsPiece, FetchersHold
  <2>2. conn'[d].interested = FALSE
    BY <1>1, <1>3 DEF Connect, TypeOK, ClearedConn
  <2>3. receiving'[d] = NULL
    <3>1. StepKind /\ TypeOK
      BY <1>1, StepKinds
    <3>. QED  BY <1>3, <2>1, <3>1 DEF StepKind, CloseSlots, SetupPiece, NothingToFetch,
                                     FinishPiece, ownVars, TypeOK
  <2>. QED  BY <2>2, <2>3 DEF Expressed
<1>4. ASSUME NEW c \in Slot, PeerConnInit(c), Private(d)
      PROVE  Expressed(d)'
  <2>1. CASE UNCHANGED <<conn, remote>>
    BY <1>2, <1>4, <2>1, SameExpressed DEF PeerConnInit
  <2>2. ASSUME NEW q \in Peer, Connect(c, q)
        PROVE  Expressed(d)'
    <3>1. receiving' = receiving /\ c # d
      BY <1>1, <1>4 DEF PeerConnInit, Numbered, Private, Linked
    <3>2. conn'[d] = conn[d] /\ remote'[d] = remote[d]
      BY <1>1, <2>2, <3>1 DEF Connect, TypeOK
    <3>. QED  BY <1>2, <1>4, <3>1, <3>2, SameExpressed
  <2>. QED  BY <1>4, <2>1, <2>2 DEF PeerConnInit, Refuse, Eligible
<1>5. ASSUME NEW c \in Slot, HandleOut(c), Private(d)
      PROVE  Expressed(d)'
  <2>1. CASE SkipSend(c)
    BY <1>2, <1>5, <2>1, SameExpressed DEF SkipSend
  <2>2. CASE SendFails(c)
    BY <1>1, <1>2, <1>5, <2>2, CloseExpressed, {c} \in SUBSET Slot DEF SendFails, Close
  <2>. QED  BY <1>1, <1>2, <1>5, <2>1, <2>2, SendExpressed DEF HandleOut
<1>6. ASSUME PollerUpdate
      PROVE  Expressed(d)'
  <2>1. Private(d) /\ remote'[d] = remote[d] /\ receiving'[d] = receiving[d]
    BY <1>1, <1>6, PollerKeeps
  <2>2. conn'[d].interested = conn[d].interested /\ conn'[d].out = conn[d].out
    BY <1>1, <1>6, PollerLeaves
  <2>. QED  BY <1>2, <2>1, <2>2, SameExpressed
<1>7. ASSUME LoopExit, Private(d)
      PROVE  Expressed(d)'
  BY <1>1, <1>2, <1>7, CloseExpressed, Slot \in SUBSET Slot DEF LoopExit
<1>8. ASSUME Break \/ Sigint \/ UNCHANGED vars, Private(d)
      PROVE  Expressed(d)'
  BY <1>2, <1>8, SameExpressed DEF Break, Sigint, vars
<1>9. CASE Private(d)
  BY <1>1, <1>2, <1>5, <1>6, <1>7, <1>8, <1>4, <1>9, HandleInExpressed
     DEF Next, Loop, Step, Terminated
<1>. QED  BY <1>1, <1>3, <1>9, PrivateKept

\* update_interest tells every peer before a piece is waited for from it, as long as
\* no message of the peer changes the mark it goes by.
THEOREM InterestTold == ("interest" \notin Faults /\ Spec) => []InterestExpressed
<1>. SUFFICES ASSUME "interest" \notin Faults
              PROVE  Spec => []InterestExpressed
  OBVIOUS
<1>1. Init => InterestInv
  <2>. SUFFICES ASSUME Init PROVE InterestInv
    OBVIOUS
  <2>1. \A c \in Slot : ~Private(c)
    BY DEF Init, Private, Linked
  <2>. QED  BY <2>1, InitInv DEF InterestInv
<1>2. InterestInv /\ [Next]_vars => InterestInv'
  BY NextInterest
<1>3. InterestInv => InterestExpressed
  BY DEF InterestInv, Expressed, InterestExpressed
<1>. QED  BY <1>1, <1>2, <1>3, PTL DEF Spec
=============================================================================
