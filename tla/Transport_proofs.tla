-------------------------- MODULE Transport_proofs --------------------------
(***************************************************************************)
(* Type correctness of Transport and the absence of lost wake-ups, for any *)
(* number of slots, any max_events and buffers of any size.                *)
(***************************************************************************)
EXTENDS Transport, TLAPS

\* The kernel adds to the ready list and forgets nobody.
LEMMA RaiseKeeps ==
  ASSUME ready \in Seq(Conn), NEW c \in Conn, Raise(c)
  PROVE  /\ ready' \in Seq(Conn)
         /\ Listed(ready) \subseteq Listed(ready')
         /\ c \in Listed(ready')
<1>1. CASE c \in Listed(ready)
  BY <1>1 DEF Raise
<1>2. CASE c \notin Listed(ready)
  <2>1. ready' = Append(ready, c)
    BY <1>2 DEF Raise
  <2>2. /\ ready' \in Seq(Conn)
        /\ Len(ready') = Len(ready) + 1
        /\ \A k \in 1 .. Len(ready) : ready'[k] = ready[k]
        /\ ready'[Len(ready) + 1] = c
    BY <2>1
  <2> QED
    BY <2>2 DEF Listed
<1> QED
  BY <1>1, <1>2

\* Closing one descriptor leaves the others listed.
LEMMA UnlistKeeps ==
  ASSUME ready \in Seq(Conn), NEW c \in Conn, Unlist(c)
  PROVE  /\ ready' \in Seq(Conn)
         /\ \A d \in Listed(ready) : d # c => d \in Listed(ready')
<1>1. CASE UNCHANGED ready
  BY <1>1
<1>2. CASE \E k \in 1 .. Len(ready) :
             /\ ready[k] = c
             /\ ready' = [j \in 1 .. Len(ready) - 1 |-> IF j < k THEN ready[j] ELSE ready[j + 1]]
  <2>1. PICK k \in 1 .. Len(ready) :
          /\ ready[k] = c
          /\ ready' = [j \in 1 .. Len(ready) - 1 |-> IF j < k THEN ready[j] ELSE ready[j + 1]]
    BY <1>2
  <2>2. Len(ready) - 1 \in Nat /\ \A j \in 1 .. Len(ready) : ready[j] \in Conn
    OBVIOUS
  <2>3. ready' \in Seq(Conn) /\ Len(ready') = Len(ready) - 1
    BY <2>1, <2>2
  <2>4. ASSUME NEW j \in 1 .. Len(ready), ready[j] # c
        PROVE  \E i \in 1 .. Len(ready') : ready'[i] = ready[j]
    <3>1. CASE j < k
      BY <3>1, <2>1, <2>3
    <3>2. CASE j > k
      <4>1. j - 1 \in 1 .. Len(ready) - 1 /\ ~(j - 1 < k) /\ (j - 1) + 1 = j
        BY <3>2
      <4> QED
        BY <4>1, <2>1, <2>3
    <3>3. j # k
      BY <2>1, <2>4
    <3> QED
      BY <3>1, <3>2, <3>3
  <2> QED
    BY <2>3, <2>4 DEF Listed
<1> QED
  BY <1>1, <1>2 DEF Unlist

-----------------------------------------------------------------------------

\* How many bytes recv and send move.
LEMMA AmountsTyped ==
  ASSUME TypeOK, NEW c \in Conn
  PROVE  /\ Received(c) \in 0 .. sock[c].inq
         /\ Received(c) \in 0 .. in[c].total - in[c].transmitted
         /\ Sent(c) \in 0 .. sock[c].room
         /\ Sent(c) \in 0 .. out[c].total - out[c].transmitted
<1>1. \A m, n \in Nat : Smaller(m, n) \in 0 .. m /\ Smaller(m, n) \in 0 .. n
  BY DEF Smaller
<1>2. /\ sock[c].inq \in Nat /\ in[c].total - in[c].transmitted \in Nat
      /\ sock[c].room \in Nat /\ out[c].total - out[c].transmitted \in Nat
  BY DEF TypeOK, Socket, Transmission
<1> QED
  BY <1>1, <1>2 DEF Received, Sent

\* Init satisfies the type invariant.
LEMMA InitTyped == Init => TypeOK
BY TransportAssumption DEF Init, TypeOK, Setup, NoSocket, Socket, Conn, Transmission

\* The fields a receive or a send updates keep their types.
LEMMA SomeTyped ==
  ASSUME TypeOK, NEW c \in Conn, RecvSome(c) \/ SendSome(c)
  PROVE  TypeOK'
<1>1. CASE RecvSome(c)
  <2>1. /\ in[c].transmitted + Received(c) \in 0 .. in[c].total
        /\ in[c].transmitted + Received(c) \in 0 .. MaxLen
        /\ sock[c].inq - Received(c) \in 0 .. Buffer
    <3>1. /\ in[c].transmitted \in 0 .. MaxLen /\ in[c].total \in 0 .. MaxLen
          /\ in[c].transmitted <= in[c].total
          /\ sock[c].inq \in 0 .. Buffer
      BY DEF TypeOK, Transmission, Socket
    <3>2. Received(c) \in 0 .. sock[c].inq /\ Received(c) \in 0 .. in[c].total - in[c].transmitted
      BY AmountsTyped
    <3> QED
      BY <3>1, <3>2, TransportAssumption
  <2> HIDE DEF Received
  <2>2. in' \in [Conn -> Transmission] /\ sock' \in [Conn -> Socket]
    BY <1>1, <2>1 DEF RecvSome, TypeOK, Transmission, Socket
  <2>3. \A d \in Conn : in'[d].transmitted <= in'[d].total
    BY <1>1, <2>1 DEF RecvSome, TypeOK, Transmission
  <2> QED
    BY <1>1, <2>2, <2>3 DEF RecvSome, TypeOK, loopVars
<1>2. CASE SendSome(c)
  <2>1. /\ out[c].transmitted + Sent(c) \in 0 .. out[c].total
        /\ out[c].transmitted + Sent(c) \in 0 .. MaxLen
        /\ sock[c].room - Sent(c) \in 0 .. Buffer
    <3>1. /\ out[c].transmitted \in 0 .. MaxLen /\ out[c].total \in 0 .. MaxLen
          /\ out[c].transmitted <= out[c].total
          /\ sock[c].room \in 0 .. Buffer
      BY DEF TypeOK, Transmission, Socket
    <3>2. Sent(c) \in 0 .. sock[c].room /\ Sent(c) \in 0 .. out[c].total - out[c].transmitted
      BY AmountsTyped
    <3> QED
      BY <3>1, <3>2, TransportAssumption
  <2> HIDE DEF Sent
  <2>2. out' \in [Conn -> Transmission] /\ sock' \in [Conn -> Socket]
    <3>1. out' \in [Conn -> Transmission]
      BY <1>2, <2>1 DEF SendSome, TypeOK, Transmission
    <3>2. sock' \in [Conn -> Socket]
      BY <1>2, <2>1 DEF SendSome, TypeOK, Socket
    <3> QED
      BY <3>1, <3>2
  <2>3. \A d \in Conn : out'[d].transmitted <= out'[d].total
    BY <1>2, <2>1 DEF SendSome, TypeOK, Transmission
  <2> QED
    BY <1>2, <2>2, <2>3 DEF SendSome, TypeOK, loopVars
<1> QED
  BY <1>1, <1>2

\* The program counter keeps its type.
LEMMA TurnsTyped ==
  ASSUME TypeOK, NextSlot \/ ThenOut
  PROVE  cur' \in Conn /\ at' \in {"in", "out", "poll"}
BY TransportAssumption DEF TypeOK, NextSlot, ThenOut, Conn

\* A slot that is closed keeps its types.
LEMMA CloseTyped ==
  ASSUME TypeOK, NEW c \in Conn, CloseSlot(c), NextSlot \/ ThenOut
  PROVE  TypeOK'
<1>1. ready' \in Seq(Conn)
  BY UnlistKeeps DEF TypeOK, CloseSlot
<1>2. Setup(0) \in Transmission /\ NoSocket \in Socket
  BY TransportAssumption DEF Setup, Transmission, NoSocket, Socket
<1>3. in' \in [Conn -> Transmission] /\ out' \in [Conn -> Transmission]
  BY <1>2 DEF TypeOK, CloseSlot
<1>4. \A d \in Conn : in'[d].transmitted <= in'[d].total /\ out'[d].transmitted <= out'[d].total
  BY DEF TypeOK, CloseSlot, Setup
<1>5. sock' \in [Conn -> Socket] /\ active' \subseteq Conn
  BY <1>2 DEF TypeOK, CloseSlot
<1>6. pfd' \in [Conn -> [can_recv : BOOLEAN, can_send : BOOLEAN]]
  BY DEF TypeOK, CloseSlot
<1> QED
  BY <1>1, <1>3, <1>4, <1>5, <1>6, TurnsTyped DEF TypeOK

\* Every step of a slot keeps the types.
LEMMA TradeTyped ==
  ASSUME TypeOK, NEW c \in Conn, TradeIn(c) \/ TradeOut(c)
  PROVE  TypeOK'
<1>1. CASE NoPeer(c) \/ RecvWaits(c) \/ SendWaits(c) \/ SlotClosed(c)
  BY <1>1, TurnsTyped
  DEF NoPeer, RecvWaits, SendWaits, SlotClosed, TypeOK, slotVars
<1>2. CASE Connect(c)
  <2>1. ready' \in Seq(Conn)
    BY <1>2, RaiseKeeps DEF Connect, TypeOK
  <2>2. Setup(1) \in Transmission /\ Setup(MaxLen) \in Transmission /\ NewSocket \in Socket
    BY TransportAssumption DEF Setup, Transmission, NewSocket, Socket
  <2>3. in' \in [Conn -> Transmission] /\ out' \in [Conn -> Transmission] /\ sock' \in [Conn -> Socket]
    BY <1>2, <2>2 DEF TypeOK, Connect
  <2>4. \A d \in Conn : in'[d].transmitted <= in'[d].total /\ out'[d].transmitted <= out'[d].total
    BY <1>2, TransportAssumption DEF TypeOK, Connect, Setup
  <2>5. active' \subseteq Conn /\ pfd' \in [Conn -> [can_recv : BOOLEAN, can_send : BOOLEAN]]
    BY <1>2 DEF TypeOK, Connect
  <2> QED
    BY <1>2, <2>1, <2>3, <2>4, <2>5, TurnsTyped DEF TypeOK, Connect
<1>3. CASE RecvSome(c) \/ SendSome(c)
  BY <1>3, SomeTyped
<1>4. CASE RecvWouldBlock(c) \/ SendWouldBlock(c)
  <2>1. pfd' \in [Conn -> [can_recv : BOOLEAN, can_send : BOOLEAN]]
    BY <1>4 DEF RecvWouldBlock, SendWouldBlock, TypeOK
  <2> QED
    BY <1>4, <2>1, TurnsTyped DEF RecvWouldBlock, SendWouldBlock, TypeOK
<1>5. CASE RecvEnds(c) \/ SendFails(c)
  BY <1>5, CloseTyped DEF RecvEnds, SendFails
<1>6. CASE RecvDone(c)
  <2>1. PICK n \in 1 .. MaxLen : in' = [in EXCEPT ![c] = Setup(n)]
    BY <1>6 DEF RecvDone
  <2>2. in' \in [Conn -> Transmission]
    BY <2>1, TransportAssumption DEF TypeOK, Transmission, Setup
  <2>3. \A d \in Conn : in'[d].transmitted <= in'[d].total
    BY <2>1 DEF TypeOK, Setup
  <2> QED
    BY <1>6, <2>2, <2>3, TurnsTyped DEF RecvDone, TypeOK
<1>7. CASE SendDone(c)
  <2>1. PICK n \in {0, MaxLen} : out' = [out EXCEPT ![c] = Setup(n)]
    BY <1>7 DEF SendDone
  <2>2. out' \in [Conn -> Transmission]
    BY <2>1, TransportAssumption DEF TypeOK, Transmission, Setup
  <2>3. \A d \in Conn : out'[d].transmitted <= out'[d].total
    BY <2>1, TransportAssumption DEF TypeOK, Setup
  <2> QED
    BY <1>7, <2>2, <2>3, TurnsTyped DEF SendDone, TypeOK
<1> QED
  BY <1>1, <1>2, <1>3, <1>4, <1>5, <1>6, <1>7 DEF TradeIn, TradeOut

\* poller_update keeps the types.
LEMMA PollTyped == ASSUME TypeOK, PollerUpdate PROVE TypeOK'
<1>1. PICK k \in 0 .. Len(ready) :
        /\ ready' = SubSeq(ready, k + 1, Len(ready))
        /\ sock' = [c \in Conn |->
             IF c \in {ready[j] : j \in 1 .. k} /\ EpollErr(c)
             THEN DeadSocket ELSE sock[c]]
        /\ pfd' = [c \in Conn |->
             IF c \in {ready[j] : j \in 1 .. k} /\ ~EpollErr(c) THEN Flags(pfd[c], c) ELSE pfd[c]]
  BY DEF PollerUpdate
<1>2. ready' \in Seq(Conn)
  BY <1>1 DEF TypeOK
<1>3. DeadSocket \in Socket
  BY TransportAssumption DEF DeadSocket, Socket
<1>4. sock' \in [Conn -> Socket]
  BY <1>1, <1>3 DEF TypeOK
<1>5. \A c \in Conn : Flags(pfd[c], c) \in [can_recv : BOOLEAN, can_send : BOOLEAN]
  BY Zenon DEF Flags
<1>6. pfd' \in [Conn -> [can_recv : BOOLEAN, can_send : BOOLEAN]]
  BY <1>1, <1>5 DEF TypeOK
<1> QED
  BY <1>2, <1>4, <1>6 DEF TypeOK, PollerUpdate

\* The peers keep the types.
LEMMA PeersTyped == ASSUME TypeOK, Peers PROVE TypeOK'
<1>1. ASSUME NEW c \in Conn, PeerSends(c) PROVE TypeOK'
  <2>1. sock[c].inq + 1 \in 0 .. Buffer
    BY <1>1, TransportAssumption DEF PeerSends, TypeOK, Socket
  <2>2. sock' \in [Conn -> Socket]
    BY <1>1, <2>1 DEF PeerSends, TypeOK, Socket
  <2> QED
    BY <1>1, <2>2, RaiseKeeps DEF PeerSends, TypeOK, slotVars, loopVars
<1>2. ASSUME NEW c \in Conn, PeerReads(c) PROVE TypeOK'
  <2>1. sock[c].room + 1 \in 0 .. Buffer
    BY <1>2, TransportAssumption DEF PeerReads, TypeOK, Socket
  <2>2. sock' \in [Conn -> Socket]
    BY <1>2, <2>1 DEF PeerReads, TypeOK, Socket
  <2>3. ready' \in Seq(Conn)
    BY <1>2, RaiseKeeps DEF PeerReads, TypeOK
  <2> QED
    BY <1>2, <2>2, <2>3 DEF PeerReads, TypeOK, slotVars, loopVars
<1>3. ASSUME NEW c \in Conn, PeerEnds(c) PROVE TypeOK'
  <2>1. PICK end \in {"eof", "reset"} : sock' = [sock EXCEPT ![c].end = end]
    BY <1>3 DEF PeerEnds
  <2>2. sock' \in [Conn -> Socket]
    BY <2>1 DEF TypeOK, Socket
  <2> QED
    BY <1>3, <2>2, RaiseKeeps DEF PeerEnds, TypeOK, slotVars, loopVars
<1> QED
  BY <1>1, <1>2, <1>3 DEF Peers

\* Every step keeps the types.
LEMMA StepTyped == ASSUME TypeOK, [Next]_vars PROVE TypeOK'
<1>1. CASE Next
  BY <1>1, TradeTyped, PollTyped, PeersTyped DEF Next, Loop
<1>2. CASE UNCHANGED vars
  BY <1>2 DEF TypeOK, vars, slotVars, loopVars
<1> QED
  BY <1>1, <1>2

\* The types hold, for any numbers and sizes; with them the assertion at the
\* end of transmit: no transmission ever passes its total.
THEOREM TypeCorrect == Spec => []TypeOK
<1>1. Init => TypeOK
  BY InitTyped
<1>2. TypeOK /\ [Next]_vars => TypeOK'
  BY StepTyped
<1> QED
  BY <1>1, <1>2, PTL DEF Spec

-----------------------------------------------------------------------------

\* What NoLostWakeup says of one slot.
Awake(c) ==
  c \in active /\ sock[c].open =>
    /\ EpollIn(c) /\ ~pfd[c].can_recv => c \in Listed(ready)
    /\ EpollOut(c) /\ ~pfd[c].can_send => c \in Listed(ready)

LEMMA WakeupByConn == TypeOK => (NoLostWakeup <=> \A c \in Conn : Awake(c))
BY DEF TypeOK, NoLostWakeup, RecvWakesUp, SendWakesUp, Awake

\* A step that leaves a slot alone and keeps it on the list keeps it awake.
LEMMA OthersAwake ==
  ASSUME NEW d \in Conn, Awake(d),
         d \in active' => d \in active,
         sock'[d] = sock[d], pfd'[d] = pfd[d],
         d \in Listed(ready) => d \in Listed(ready')
  PROVE  Awake(d)'
BY DEF Awake, EpollIn, EpollOut

\* Closing a slot leaves the others awake, and itself inactive.
LEMMA CloseAwake ==
  ASSUME TypeOK, NEW c \in Conn, CloseSlot(c), NEW d \in Conn, Awake(d)
  PROVE  Awake(d)'
<1>1. CASE d = c
  BY <1>1 DEF CloseSlot, Awake
<1>2. CASE d # c
  <2>1. sock'[d] = sock[d] /\ pfd'[d] = pfd[d] /\ (d \in active' => d \in active)
    BY <1>2 DEF CloseSlot, TypeOK
  <2>2. d \in Listed(ready) => d \in Listed(ready')
    BY <1>2, UnlistKeeps DEF CloseSlot, TypeOK
  <2> QED
    BY <2>1, <2>2, OthersAwake
<1> QED
  BY <1>1, <1>2

\* No step of a slot loses a wake-up: a flag is only cleared by a call that
\* found nothing, with bytes or room still to come.
LEMMA TradeAwake ==
  ASSUME TypeOK, NEW c \in Conn, TradeIn(c) \/ TradeOut(c), NEW d \in Conn, Awake(d)
  PROVE  Awake(d)'
<1>1. CASE NoPeer(c) \/ RecvWaits(c) \/ RecvDone(c) \/ SendWaits(c) \/ SendDone(c) \/ SlotClosed(c)
  <2>1. UNCHANGED <<active, sock, pfd, ready>>
    BY <1>1 DEF NoPeer, RecvWaits, RecvDone, SendWaits, SendDone, SlotClosed, slotVars
  <2> QED
    BY <2>1, OthersAwake
<1>2. CASE Connect(c)
  <2>1. ready \in Seq(Conn) /\ Raise(c)
    BY <1>2 DEF Connect, TypeOK
  <2>2. c \in Listed(ready') /\ Listed(ready) \subseteq Listed(ready')
    BY <2>1, RaiseKeeps
  <2>3. CASE d = c
    BY <2>2, <2>3 DEF Awake
  <2>4. CASE d # c
    <3>1. sock'[d] = sock[d] /\ pfd'[d] = pfd[d] /\ (d \in active' => d \in active)
      BY <1>2, <2>4 DEF Connect, TypeOK
    <3> QED
      BY <2>2, <3>1, OthersAwake
  <2> QED
    BY <2>3, <2>4
<1>3. CASE RecvSome(c)
  <2>1. CASE d = c
    <3>1. /\ UNCHANGED <<active, pfd, ready>>
          /\ sock'[c].open = sock[c].open /\ sock'[c].room = sock[c].room
          /\ sock'[c].end = sock[c].end
          /\ pfd[c].can_recv
      BY <1>3 DEF RecvSome, Receiving, TypeOK, Socket
    <3> QED
      BY <2>1, <3>1 DEF Awake, EpollIn, EpollOut
  <2>2. CASE d # c
    <3>1. sock'[d] = sock[d] /\ UNCHANGED <<active, pfd, ready>>
      BY <1>3, <2>2 DEF RecvSome, TypeOK
    <3> QED
      BY <3>1, OthersAwake
  <2> QED
    BY <2>1, <2>2
<1>4. CASE SendSome(c)
  <2>1. CASE d = c
    <3>1. /\ UNCHANGED <<active, pfd, ready>>
          /\ sock'[c].open = sock[c].open /\ sock'[c].inq = sock[c].inq
          /\ sock'[c].end = sock[c].end
          /\ pfd[c].can_send
      BY <1>4 DEF SendSome, Sending, TypeOK, Socket
    <3> QED
      BY <2>1, <3>1 DEF Awake, EpollIn, EpollOut
  <2>2. CASE d # c
    <3>1. sock'[d] = sock[d] /\ UNCHANGED <<active, pfd, ready>>
      BY <1>4, <2>2 DEF SendSome, TypeOK
    <3> QED
      BY <3>1, OthersAwake
  <2> QED
    BY <2>1, <2>2
<1>5. CASE RecvWouldBlock(c)
  <2>1. UNCHANGED <<active, sock, ready>> /\ pfd' = [pfd EXCEPT ![c].can_recv = FALSE]
    BY <1>5 DEF RecvWouldBlock
  <2>2. CASE d = c
    <3>1. ~EpollIn(c)
      BY <1>5 DEF RecvWouldBlock, EpollIn, TypeOK, Socket
    <3>2. pfd'[c].can_send = pfd[c].can_send
      BY <2>1 DEF TypeOK
    <3> QED
      BY <2>1, <2>2, <3>1, <3>2 DEF Awake, EpollIn, EpollOut
  <2>3. CASE d # c
    BY <2>1, <2>3, OthersAwake DEF TypeOK
  <2> QED
    BY <2>2, <2>3
<1>6. CASE SendWouldBlock(c)
  <2>1. UNCHANGED <<active, sock, ready>> /\ pfd' = [pfd EXCEPT ![c].can_send = FALSE]
    BY <1>6 DEF SendWouldBlock
  <2>2. CASE d = c
    <3>1. ~EpollOut(c)
      BY <1>6 DEF SendWouldBlock, EpollOut, TypeOK, Socket
    <3>2. pfd'[c].can_recv = pfd[c].can_recv
      BY <2>1 DEF TypeOK
    <3> QED
      BY <2>1, <2>2, <3>1, <3>2 DEF Awake, EpollIn, EpollOut
  <2>3. CASE d # c
    BY <2>1, <2>3, OthersAwake DEF TypeOK
  <2> QED
    BY <2>2, <2>3
<1>7. CASE RecvEnds(c) \/ SendFails(c)
  BY <1>7, CloseAwake DEF RecvEnds, SendFails
<1> QED
  BY <1>1, <1>2, <1>3, <1>4, <1>5, <1>6, <1>7 DEF TradeIn, TradeOut

\* poller_update: who leaves the list has its flags set, is closed, or was not
\* ready after all.
LEMMA PollAwake ==
  ASSUME TypeOK, PollerUpdate, NEW d \in Conn, Awake(d)
  PROVE  Awake(d)'
<1>1. PICK k \in 0 .. Len(ready) :
        /\ ready' = SubSeq(ready, k + 1, Len(ready))
        /\ sock' = [c \in Conn |->
             IF c \in {ready[j] : j \in 1 .. k} /\ EpollErr(c) THEN DeadSocket ELSE sock[c]]
        /\ pfd' = [c \in Conn |->
             IF c \in {ready[j] : j \in 1 .. k} /\ ~EpollErr(c) THEN Flags(pfd[c], c) ELSE pfd[c]]
  BY DEF PollerUpdate
<1>2. UNCHANGED active
  BY DEF PollerUpdate
<1>3. CASE d \in {ready[j] : j \in 1 .. k} /\ EpollErr(d)
  <2>1. ~sock'[d].open
    BY <1>1, <1>3 DEF DeadSocket
  <2> QED
    BY <2>1 DEF Awake
<1>4. CASE d \in {ready[j] : j \in 1 .. k} /\ ~EpollErr(d)
  <2>1. sock'[d] = sock[d] /\ pfd'[d] = Flags(pfd[d], d)
    BY <1>1, <1>4
  <2>2. ASSUME NEW f PROVE /\ Flags(f, d).can_recv = (f.can_recv \/ EpollIn(d))
                            /\ Flags(f, d).can_send = (f.can_send \/ EpollOut(d))
    BY Zenon DEF Flags
  <2>3. /\ pfd'[d].can_recv = (pfd[d].can_recv \/ EpollIn(d))
        /\ pfd'[d].can_send = (pfd[d].can_send \/ EpollOut(d))
    BY <2>1, <2>2, Zenon
  <2>4. /\ EpollIn(d) => pfd'[d].can_recv
        /\ EpollOut(d) => pfd'[d].can_send
    BY <2>3, Zenon
  <2> QED
    BY <2>1, <2>4 DEF Awake, EpollIn, EpollOut
<1>5. CASE d \notin {ready[j] : j \in 1 .. k}
  <2>1. sock'[d] = sock[d] /\ pfd'[d] = pfd[d]
    BY <1>1, <1>5
  <2>2. ASSUME d \in Listed(ready) PROVE d \in Listed(ready')
    <3>1. PICK j \in 1 .. Len(ready) : ready[j] = d
      BY <2>2 DEF Listed
    <3>2. j > k
      BY <1>5, <3>1
    <3>3. /\ Len(ready') = Len(ready) - k
          /\ j - k \in 1 .. Len(ready) - k
          /\ ready'[j - k] = ready[j]
      BY <1>1, <3>2 DEF TypeOK
    <3> QED
      BY <3>1, <3>3 DEF Listed
  <2> QED
    BY <1>2, <2>1, <2>2, OthersAwake
<1> QED
  BY <1>3, <1>4, <1>5

\* What the peers do is told to epoll.
LEMMA PeersAwake ==
  ASSUME TypeOK, Peers, NEW d \in Conn, Awake(d)
  PROVE  Awake(d)'
<1>1. PICK c \in Conn : PeerSends(c) \/ PeerReads(c) \/ PeerEnds(c)
  BY DEF Peers
<1>2. UNCHANGED <<active, pfd>>
  BY <1>1 DEF PeerSends, PeerReads, PeerEnds, slotVars
<1>3. CASE Raise(c)
  <2>1. c \in Listed(ready') /\ Listed(ready) \subseteq Listed(ready')
    BY <1>3, RaiseKeeps DEF TypeOK
  <2>2. d # c => sock'[d] = sock[d]
    BY <1>1 DEF PeerSends, PeerReads, PeerEnds, TypeOK
  <2>3. CASE d = c
    BY <2>1, <2>3 DEF Awake
  <2>4. CASE d # c
    BY <1>2, <2>1, <2>2, <2>4, OthersAwake
  <2> QED
    BY <2>3, <2>4
<1>4. CASE PeerReads(c) /\ sock[c].room # 0
  <2>1. UNCHANGED ready
    BY <1>4 DEF PeerReads
  <2>2. d # c => sock'[d] = sock[d]
    BY <1>4 DEF PeerReads, TypeOK
  <2>3. /\ sock'[c].open = sock[c].open /\ sock'[c].inq = sock[c].inq
        /\ sock'[c].end = sock[c].end
    BY <1>4 DEF PeerReads, TypeOK, Socket
  <2>4. EpollOut(c)
    BY <1>4 DEF EpollOut, TypeOK, Socket
  <2>5. CASE d = c
    BY <1>2, <2>1, <2>3, <2>4, <2>5 DEF Awake, EpollIn
  <2>6. CASE d # c
    BY <1>2, <2>1, <2>2, <2>6, OthersAwake
  <2> QED
    BY <2>5, <2>6
<1> QED
  BY <1>1, <1>3, <1>4 DEF PeerSends, PeerReads, PeerEnds

\* No wake-up is lost, with any number of slots and however few events
\* epoll_wait returns at a time.
THEOREM WakeupsKept == Spec => []NoLostWakeup
<1>1. Init => NoLostWakeup
  BY DEF Init, NoLostWakeup, RecvWakesUp, SendWakesUp
<1>2. TypeOK /\ NoLostWakeup /\ [Next]_vars => NoLostWakeup'
  <2> SUFFICES ASSUME TypeOK, NoLostWakeup, [Next]_vars PROVE NoLostWakeup'
    OBVIOUS
  <2>1. TypeOK'
    BY StepTyped
  <2>2. ASSUME NEW d \in Conn PROVE Awake(d)'
    <3>1. Awake(d)
      BY WakeupByConn
    <3>2. CASE Next
      BY <3>1, <3>2, TradeAwake, PollAwake, PeersAwake DEF Next, Loop
    <3>3. CASE UNCHANGED vars
      BY <3>1, <3>3, OthersAwake DEF vars, slotVars
    <3> QED
      BY <3>2, <3>3
  <2>3. (TypeOK => (NoLostWakeup <=> \A c \in Conn : Awake(c)))'
    BY WakeupByConn, PTL
  <2> QED
    BY <2>1, <2>2, <2>3
<1> QED
  BY <1>1, <1>2, TypeCorrect, PTL DEF Spec
-----------------------------------------------------------------------------
(* Refinement *)

\* The socket behind a slot: none, an open one, or one poller_update closed on an
\* error.
Backed(c) ==
  IF c \in active THEN sock[c].open \/ sock[c] = DeadSocket
                  ELSE sock[c] = NoSocket

ChannelInv == TypeOK /\ \A c \in Conn : Backed(c)

\* A step that changes at most the bytes, the room or the end of an open socket.
LEMMA SameBacked ==
  ASSUME NEW d \in Conn, Backed(d), UNCHANGED active,
         \/ sock'[d] = sock[d]
         \/ sock[d].open /\ sock'[d].open
  PROVE  Backed(d)'
BY DEF Backed, DeadSocket, NoSocket

LEMMA NextBacked == ChannelInv /\ [Next]_vars => ChannelInv'
<1>. SUFFICES ASSUME ChannelInv, [Next]_vars
              PROVE  ChannelInv'
  OBVIOUS
<1>1. TypeOK /\ TypeOK'
  BY StepTyped DEF ChannelInv
<1>. SUFFICES ASSUME NEW d \in Conn
              PROVE  Backed(d)'
  BY <1>1 DEF ChannelInv
<1>2. Backed(d)
  BY DEF ChannelInv
<1>3. ASSUME NEW c \in Conn, TradeIn(c) \/ TradeOut(c)
      PROVE  Backed(d)'
  <2>1. CASE \/ NoPeer(c) \/ RecvWaits(c) \/ RecvDone(c) \/ RecvWouldBlock(c)
             \/ SendWaits(c) \/ SendDone(c) \/ SendWouldBlock(c) \/ SlotClosed(c)
    <3>1. UNCHANGED <<active, sock>>
      BY <2>1 DEF NoPeer, RecvWaits, RecvDone, RecvWouldBlock, SendWaits, SendDone,
         SendWouldBlock, SlotClosed, slotVars
    <3>. QED  BY <1>2, <3>1, SameBacked
  <2>2. CASE Connect(c)
    <3>1. active' = active \cup {c} /\ sock' = [sock EXCEPT ![c] = NewSocket]
      BY <2>2 DEF Connect
    <3>. QED  BY <1>1, <1>2, <3>1 DEF TypeOK, Backed, NewSocket
  <2>3. ASSUME CloseSlot(c)
        PROVE  Backed(d)'
    <3>1. active' = active \ {c} /\ sock' = [sock EXCEPT ![c] = NoSocket]
      BY <2>3 DEF CloseSlot
    <3>. QED  BY <1>1, <1>2, <3>1 DEF TypeOK, Backed
  <2>4. CASE RecvSome(c)
    <3>1. sock' = [sock EXCEPT ![c].inq = @ - Received(c)] /\ c \in active
          /\ sock[c].inq > 0 /\ UNCHANGED active
      BY <2>4 DEF RecvSome, Receiving
    <3>2. sock[c].open
      BY <3>1 DEF ChannelInv, Backed, DeadSocket
    <3>3. sock'[d] = sock[d] \/ (sock[d].open /\ sock'[d].open)
      BY <1>1, <3>1, <3>2 DEF TypeOK, Socket
    <3>. QED  BY <1>2, <3>1, <3>3, SameBacked
  <2>5. CASE SendSome(c)
    <3>1. sock' = [sock EXCEPT ![c].room = @ - Sent(c)] /\ c \in active
          /\ sock[c].end # "reset" /\ UNCHANGED active
      BY <2>5 DEF SendSome, Sending
    <3>2. sock[c].open
      BY <3>1 DEF ChannelInv, Backed, DeadSocket
    <3>3. sock'[d] = sock[d] \/ (sock[d].open /\ sock'[d].open)
      BY <1>1, <3>1, <3>2 DEF TypeOK, Socket
    <3>. QED  BY <1>2, <3>1, <3>3, SameBacked
  <2>. QED  BY <1>3, <2>1, <2>2, <2>3, <2>4, <2>5
            DEF TradeIn, TradeOut, RecvEnds, SendFails
<1>4. ASSUME PollerUpdate
      PROVE  Backed(d)'
  <2>1. UNCHANGED active /\ (sock'[d] = sock[d] \/ (sock'[d] = DeadSocket /\ EpollErr(d)))
    BY <1>4 DEF PollerUpdate
  <2>2. EpollErr(d) => d \in active
    BY <1>2 DEF EpollErr, Backed, NoSocket
  <2>. QED  BY <1>2, <2>1, <2>2 DEF Backed
<1>5. ASSUME Peers
      PROVE  Backed(d)'
  <2>1. PICK c \in Conn : PeerSends(c) \/ PeerReads(c) \/ PeerEnds(c)
    BY <1>5 DEF Peers
  <2>2. UNCHANGED active /\ sock[c].open
    BY <2>1 DEF PeerSends, PeerReads, PeerEnds, slotVars
  <2>3. /\ sock'[c].open = sock[c].open
        /\ d # c => sock'[d] = sock[d]
    <3>1. sock[c] \in Socket /\ sock \in [Conn -> Socket]
      BY <1>1 DEF TypeOK
    <3>2. CASE PeerSends(c)
      <4>1. sock' = [sock EXCEPT ![c].inq = @ + 1]
        BY <3>2 DEF PeerSends
      <4>. QED  BY <3>1, <4>1 DEF Socket
    <3>3. CASE PeerReads(c)
      <4>1. sock' = [sock EXCEPT ![c].room = @ + 1]
        BY <3>3 DEF PeerReads
      <4>. QED  BY <3>1, <4>1 DEF Socket
    <3>4. CASE PeerEnds(c)
      <4>1. PICK end : sock' = [sock EXCEPT ![c].end = end]
        BY <3>4 DEF PeerEnds
      <4>. QED  BY <3>1, <4>1 DEF Socket
    <3>. QED  BY <2>1, <3>2, <3>3, <3>4
  <2>. QED  BY <1>2, <2>2, <2>3, SameBacked
<1>6. ASSUME UNCHANGED vars
      PROVE  Backed(d)'
  BY <1>2, <1>6, SameBacked DEF vars, slotVars
<1>. QED  BY <1>3, <1>4, <1>5, <1>6 DEF Next, Loop

LEMMA ChannelInvHolds == Spec => []ChannelInv
<1>1. Init => ChannelInv
  BY InitTyped DEF Init, ChannelInv, Backed
<1>. QED  BY <1>1, NextBacked, PTL DEF Spec

\* A step that leaves the received bytes and the ends as they are.
LEMMA SameChannel ==
  ASSUME UNCHANGED active,
         \A d \in Conn : sock'[d].inq = sock[d].inq /\ sock'[d].end = sock[d].end
  PROVE  UNCHANGED Abstract!vars
BY DEF Abstract!vars

\* A slot that closes lets go of a connection that ended, or was reset.
LEMMA CloseChannel ==
  ASSUME ChannelInv, NEW c \in Conn, c \in active, CloseSlot(c),
         \/ sock[c].end = "eof" /\ sock[c].inq = 0
         \/ sock[c].end = "reset"
  PROVE  Abstract!Next
<1>1. active' = active \ {c} /\ sock' = [sock EXCEPT ![c] = NoSocket]
  BY DEF CloseSlot
<1>2. /\ \A d \in Conn : sock'[d].inq = IF d = c THEN 0 ELSE sock[d].inq
      /\ \A d \in Conn : sock'[d].end = IF d = c THEN "no" ELSE sock[d].end
  BY <1>1 DEF ChannelInv, TypeOK, NoSocket
<1>3. CASE sock[c].end = "eof" /\ sock[c].inq = 0
  <2>1. Abstract!Finish(c)
    BY <1>1, <1>2, <1>3 DEF Abstract!Finish
  <2>. QED  BY <2>1 DEF Abstract!Next
<1>4. CASE sock[c].end = "reset"
  <2>1. Abstract!Drop(c)
    BY <1>1, <1>2, <1>4 DEF Abstract!Drop
  <2>. QED  BY <2>1 DEF Abstract!Next
<1>. QED  BY <1>3, <1>4

LEMMA TradeChannel ==
  ASSUME ChannelInv, NEW c \in Conn, TradeIn(c) \/ TradeOut(c)
  PROVE  [Abstract!Next]_(Abstract!vars)
<1>. USE DEF ChannelInv, TypeOK, Socket
<1>1. CASE \/ NoPeer(c) \/ RecvWaits(c) \/ RecvDone(c) \/ RecvWouldBlock(c)
           \/ SendWaits(c) \/ SendDone(c) \/ SendWouldBlock(c) \/ SlotClosed(c)
  <2>1. UNCHANGED <<active, sock>>
    BY <1>1 DEF NoPeer, RecvWaits, RecvDone, RecvWouldBlock, SendWaits, SendDone,
       SendWouldBlock, SlotClosed, slotVars
  <2>. QED  BY <2>1, SameChannel
<1>2. CASE Connect(c)
  <2>1. c \notin active /\ active' = active \cup {c}
        /\ sock' = [sock EXCEPT ![c] = NewSocket]
    BY <1>2 DEF Connect
  <2>2. \A d \in Conn : sock'[d] = IF d = c THEN NewSocket ELSE sock[d]
    BY <2>1
  <2>3. Abstract!Open(c)
    BY <2>1, <2>2 DEF Abstract!Open, NewSocket
  <2>. QED  BY <2>3 DEF Abstract!Next
<1>3. CASE RecvSome(c)
  <2>1. /\ UNCHANGED active /\ c \in active /\ sock[c].inq > 0
        /\ in[c].transmitted < in[c].total
        /\ sock' = [sock EXCEPT ![c].inq = @ - Received(c)]
    BY <1>3 DEF RecvSome, Receiving
  <2>2. Received(c) \in 1 .. sock[c].inq
    BY <2>1 DEF Received, Smaller, Transmission
  <2>. DEFINE n == Received(c)
  <2>. HIDE DEF n
  <2>3. /\ \A d \in Conn : sock'[d].inq = IF d = c THEN sock[c].inq - n ELSE sock[d].inq
        /\ \A d \in Conn : sock'[d].end = sock[d].end
    BY <2>1 DEF n
  <2>4. n \in 1 .. sock[c].inq
    BY <2>2 DEF n
  <2>. DEFINE coming == [d \in Conn |-> sock[d].inq]
  <2>5. coming' = [coming EXCEPT ![c] = @ - n]
    BY <2>3
  <2>6. [d \in Conn |-> sock[d].end]' = [d \in Conn |-> sock[d].end]
    BY <2>3
  <2>7. coming[c] = sock[c].inq
    OBVIOUS
  <2>. HIDE DEF coming
  <2>8. \E m \in 1 .. coming[c] : coming' = [coming EXCEPT ![c] = @ - m]
    BY <2>4, <2>5, <2>7
  <2>. USE DEF coming
  <2>9. Abstract!Take(c)
    BY <2>1, <2>6, <2>8, Zenon DEF Abstract!Take
  <2>. QED  BY <2>9 DEF Abstract!Next
<1>4. CASE SendSome(c)
  <2>1. UNCHANGED active /\ sock' = [sock EXCEPT ![c].room = @ - Sent(c)]
    BY <1>4 DEF SendSome
  <2>2. \A d \in Conn : sock'[d].inq = sock[d].inq /\ sock'[d].end = sock[d].end
    BY <2>1
  <2>. QED  BY <2>1, <2>2, SameChannel
<1>5. CASE RecvEnds(c)
  <2>1. c \in active /\ CloseSlot(c) /\ sock[c].inq = 0
        /\ (~sock[c].open \/ sock[c].end # "no")
    BY <1>5 DEF RecvEnds, Receiving
  <2>2. sock[c].end \in {"eof", "reset"}
    BY <2>1 DEF Backed, DeadSocket
  <2>. QED  BY <2>1, <2>2, CloseChannel
<1>6. CASE SendFails(c)
  <2>1. c \in active /\ CloseSlot(c) /\ (~sock[c].open \/ sock[c].end = "reset")
    BY <1>6 DEF SendFails, Sending
  <2>2. sock[c].end = "reset"
    BY <2>1 DEF Backed, DeadSocket
  <2>. QED  BY <2>1, <2>2, CloseChannel
<1>. QED  BY <1>1, <1>2, <1>3, <1>4, <1>5, <1>6 DEF TradeIn, TradeOut

\* poller_update may drop what arrived on the connections it closes.
LEMMA PollChannel ==
  ASSUME ChannelInv, PollerUpdate
  PROVE  Abstract!Next
<1>1. PICK S \in SUBSET Conn :
        /\ \A c \in S : EpollErr(c)
        /\ sock' = [c \in Conn |-> IF c \in S THEN DeadSocket ELSE sock[c]]
  <2>1. PICK k \in 0 .. Len(ready) :
          sock' = [c \in Conn |->
             IF c \in {ready[j] : j \in 1 .. k} /\ EpollErr(c) THEN DeadSocket ELSE sock[c]]
    BY DEF PollerUpdate
  <2>. DEFINE S == {c \in Conn : c \in {ready[j] : j \in 1 .. k} /\ EpollErr(c)}
  <2>. WITNESS S \in SUBSET Conn
  <2>. QED  BY <2>1
<1>2. UNCHANGED active
  BY DEF PollerUpdate
<1>3. S \in SUBSET {c \in active : sock[c].end = "reset"}
  BY <1>1 DEF ChannelInv, Backed, EpollErr, NoSocket
<1>4. \A c \in Conn : /\ sock'[c].inq = IF c \in S THEN 0 ELSE sock[c].inq
                      /\ sock'[c].end = sock[c].end
  BY <1>1 DEF DeadSocket, EpollErr
<1>5. Abstract!Lose
  BY <1>2, <1>3, <1>4 DEF Abstract!Lose
<1>. QED  BY <1>5 DEF Abstract!Next

LEMMA PeersChannel ==
  ASSUME ChannelInv, Peers
  PROVE  [Abstract!Next]_(Abstract!vars)
<1>. USE DEF ChannelInv, TypeOK, Socket
<1>1. PICK c \in Conn : PeerSends(c) \/ PeerReads(c) \/ PeerEnds(c)
  BY DEF Peers
<1>2. UNCHANGED active /\ sock[c].open
  BY <1>1 DEF PeerSends, PeerReads, PeerEnds, slotVars
<1>3. c \in active
  BY <1>2 DEF Backed, NoSocket
<1>4. CASE PeerSends(c)
  <2>1. sock' = [sock EXCEPT ![c].inq = @ + 1] /\ sock[c].end = "no"
    BY <1>4 DEF PeerSends
  <2>2. /\ \A d \in Conn : sock'[d].inq = IF d = c THEN sock[c].inq + 1 ELSE sock[d].inq
        /\ \A d \in Conn : sock'[d].end = sock[d].end
    BY <2>1
  <2>3. Abstract!Arrive(c)
    BY <1>2, <1>3, <2>1, <2>2 DEF Abstract!Arrive
  <2>. QED  BY <2>3 DEF Abstract!Next
<1>5. CASE PeerReads(c)
  <2>1. sock' = [sock EXCEPT ![c].room = @ + 1]
    BY <1>5 DEF PeerReads
  <2>2. \A d \in Conn : sock'[d].inq = sock[d].inq /\ sock'[d].end = sock[d].end
    BY <2>1
  <2>. QED  BY <1>2, <2>2, SameChannel
<1>6. CASE PeerEnds(c)
  <2>1. PICK end \in {"eof", "reset"} :
          /\ sock[c].end = "no" \/ (sock[c].end = "eof" /\ end = "reset")
          /\ sock' = [sock EXCEPT ![c].end = end]
    BY <1>6 DEF PeerEnds
  <2>2. /\ \A d \in Conn : sock'[d].inq = sock[d].inq
        /\ \A d \in Conn : sock'[d].end = IF d = c THEN end ELSE sock[d].end
    BY <2>1
  <2>3. Abstract!End(c)
    BY <1>2, <1>3, <2>1, <2>2 DEF Abstract!End
  <2>. QED  BY <2>3 DEF Abstract!Next
<1>. QED  BY <1>1, <1>4, <1>5, <1>6

\* The receiving side behaves as the channel: what arrives is taken once and in
\* full, and a connection is only let go after its last byte, or a reset.
THEOREM ChannelSafe == Spec => Abstract!Safety
<1>1. Init => Abstract!Init
  BY DEF Init, Abstract!Init, NoSocket
<1>2. ChannelInv /\ [Next]_vars => [Abstract!Next]_(Abstract!vars)
  <2>. SUFFICES ASSUME ChannelInv, [Next]_vars
                PROVE  [Abstract!Next]_(Abstract!vars)
    OBVIOUS
  <2>1. CASE UNCHANGED vars
    BY <2>1, SameChannel DEF vars, slotVars
  <2>. QED  BY <2>1, TradeChannel, PollChannel, PeersChannel DEF Next, Loop
<1>. QED  BY <1>1, <1>2, ChannelInvHolds, PTL DEF Spec, Abstract!Safety
=============================================================================
