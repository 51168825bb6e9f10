------------------------------ MODULE Transport ------------------------------
(***************************************************************************)
(* Transmissions over non-blocking sockets and an edge-triggered poller:   *)
(* transmit, pollfd_recv, pollfd_send, poller_register and poller_update,  *)
(* run by the event loop over its slots.  Every call of recv, send and     *)
(* epoll_wait is a step, and bytes may arrive between any two.  Callbacks  *)
(* only set up the next transmission here; Receive and DecisionSend say    *)
(* which, and when they end the connection.                                *)
(*                                                                         *)
(* The sockets and the ready list of epoll are those of the kernel: a      *)
(* descriptor joins the end of the list when bytes, the end of the stream  *)
(* or an error arrive, and when a full send buffer gets room again.        *)
(***************************************************************************)
EXTENDS Naturals, Sequences, FiniteSets

CONSTANTS
  ConnCount,  \* PEER_CONN_COUNT
  MaxEvents,  \* MAX_EVENTS
  MaxLen,     \* bound on the length of a transmission
  Buffer,     \* the bytes the kernel buffers in each direction
  Resets      \* whether peers may reset connections

ASSUME TransportAssumption ==
  /\ ConnCount \in Nat \ {0}
  /\ MaxEvents \in Nat \ {0}
  /\ MaxLen \in Nat \ {0}
  /\ Buffer \in Nat \ {0}
  /\ Resets \in BOOLEAN

Conn == 1 .. ConnCount

VARIABLES
  active,   \* the slots with conn->active
  in, out,  \* conn->in_trans and out_trans: transmitted and total
  pfd,      \* conn->socket: can_recv and can_send
  sock,     \* the socket behind conn->socket.fd
  ready,    \* the ready list of the epoll descriptor
  cur, at   \* the slot event_loop is at: "in" or "out"; or "poll"

slotVars == <<active, in, out, pfd>>
loopVars == <<cur, at>>
vars == <<slotVars, loopVars, sock, ready>>

Transmission == [transmitted : 0 .. MaxLen, total : 0 .. MaxLen]

Socket == [open : BOOLEAN, inq : 0 .. Buffer, room : 0 .. Buffer,
           end : {"no", "eof", "reset"}]

NoSocket  == [open |-> FALSE, inq |-> 0, room |-> 0, end |-> "no"]
DeadSocket == [open |-> FALSE, inq |-> 0, room |-> 0, end |-> "reset"]
NewSocket == [open |-> TRUE, inq |-> 0, room |-> Buffer, end |-> "no"]

Listed(list) == {list[k] : k \in 1 .. Len(list)}

\* What epoll reports of a socket.
EpollIn(c)  == sock[c].inq > 0 \/ sock[c].end # "no"
EpollOut(c) == sock[c].room > 0 \/ sock[c].end = "reset"
EpollErr(c) == sock[c].end = "reset"

\* The kernel tells epoll of an event on c.
Raise(c) == ready' = IF c \in Listed(ready) THEN ready ELSE Append(ready, c)

\* Closing the descriptor of a socket takes it out of the epoll set.
Unlist(c) ==
  \/ c \notin Listed(ready) /\ UNCHANGED ready
  \/ \E k \in 1 .. Len(ready) :
       /\ ready[k] = c
       /\ ready' = [j \in 1 .. Len(ready) - 1 |-> IF j < k THEN ready[j] ELSE ready[j + 1]]

\* trans_setup.
Setup(n) == [transmitted |-> 0, total |-> n]

Smaller(m, n) == IF m < n THEN m ELSE n

Init ==
  /\ active = {}
  /\ in = [c \in Conn |-> Setup(0)]
  /\ out = [c \in Conn |-> Setup(0)]
  /\ pfd = [c \in Conn |-> [can_recv |-> FALSE, can_send |-> FALSE]]
  /\ sock = [c \in Conn |-> NoSocket]
  /\ ready = << >>
  /\ cur = 1
  /\ at = "in"

\* Faulty variants of definitions below.
ReceivesAll(c) == sock[c].inq
InFirst(f, c) == [can_recv |-> f.can_recv \/ EpollIn(c),
                  can_send |-> f.can_send \/ (~EpollIn(c) /\ EpollOut(c))]
OutFirst(f, c) == [can_recv |-> f.can_recv \/ (~EpollOut(c) /\ EpollIn(c)),
                   can_send |-> f.can_send \/ EpollOut(c)]

-----------------------------------------------------------------------------

\* peer_conn_trade, or peer_conn_init, on slot c.
Turn(c, half) == cur = c /\ at = half

NextSlot ==
  /\ cur' = IF cur = ConnCount THEN 1 ELSE cur + 1
  /\ at' = IF cur = ConnCount THEN "poll" ELSE "in"

ThenOut == at' = "out" /\ UNCHANGED cur

\* peer_conn_init finds no peer, or fails to connect.
NoPeer(c) ==
  /\ Turn(c, "in")
  /\ c \notin active
  /\ NextSlot
  /\ UNCHANGED <<slotVars, sock, ready>>

\* peer_conn_init with poller_register: both flags start set, and the handshake
\* is set up in both directions.
Connect(c) ==
  /\ Turn(c, "in")
  /\ c \notin active
  /\ active' = active \cup {c}
  /\ pfd' = [pfd EXCEPT ![c] = [can_recv |-> TRUE, can_send |-> TRUE]]
  /\ in' = [in EXCEPT ![c] = Setup(1)]
  /\ out' = [out EXCEPT ![c] = Setup(MaxLen)]
  /\ sock' = [sock EXCEPT ![c] = NewSocket]
  /\ Raise(c)
  /\ NextSlot

\* A transmission ended in an error or at the end of the stream:
\* trans_handle_error, then peer_conn_close.
CloseSlot(c) ==
  /\ active' = active \ {c}
  /\ in' = [in EXCEPT ![c] = Setup(0)]
  /\ out' = [out EXCEPT ![c] = Setup(0)]
  /\ pfd' = [pfd EXCEPT ![c] = [can_recv |-> FALSE, can_send |-> FALSE]]
  /\ sock' = [sock EXCEPT ![c] = NoSocket]
  /\ Unlist(c)

\* transmit(&conn->in_trans) has bytes to receive and pollfd_recv will try.
Receiving(c) ==
  /\ Turn(c, "in")
  /\ c \in active
  /\ in[c].transmitted < in[c].total
  /\ pfd[c].can_recv

\* What recv returns.
Received(c) == Smaller(sock[c].inq, in[c].total - in[c].transmitted)

RecvSome(c) ==
  /\ Receiving(c)
  /\ sock[c].inq > 0
  /\ in' = [in EXCEPT ![c].transmitted = @ + Received(c)]
  /\ sock' = [sock EXCEPT ![c].inq = @ - Received(c)]
  /\ UNCHANGED <<active, out, pfd, ready, loopVars>>

\* EAGAIN: only an event will set can_recv again.
RecvWouldBlock(c) ==
  /\ Receiving(c)
  /\ sock[c].open
  /\ sock[c].inq = 0
  /\ sock[c].end = "no"
  /\ pfd' = [pfd EXCEPT ![c].can_recv = FALSE]
  /\ ThenOut
  /\ UNCHANGED <<active, in, out, sock, ready>>

\* recv returns 0 or an error.
RecvEnds(c) ==
  /\ Receiving(c)
  /\ sock[c].inq = 0
  /\ ~sock[c].open \/ sock[c].end # "no"
  /\ CloseSlot(c)
  /\ ThenOut

RecvWaits(c) ==
  /\ Turn(c, "in")
  /\ c \in active
  /\ in[c].transmitted < in[c].total
  /\ ~pfd[c].can_recv
  /\ ThenOut
  /\ UNCHANGED <<slotVars, sock, ready>>

\* All bytes are there: the callback sets up the next part.
RecvDone(c) ==
  /\ Turn(c, "in")
  /\ c \in active
  /\ in[c].transmitted = in[c].total
  /\ \E n \in 1 .. MaxLen : in' = [in EXCEPT ![c] = Setup(n)]
  /\ ThenOut
  /\ UNCHANGED <<active, out, pfd, sock, ready>>

-----------------------------------------------------------------------------

\* transmit(&conn->out_trans) has bytes to send and pollfd_send will try.
Sending(c) ==
  /\ Turn(c, "out")
  /\ c \in active
  /\ out[c].transmitted < out[c].total
  /\ pfd[c].can_send

\* What send returns.
Sent(c) == Smaller(sock[c].room, out[c].total - out[c].transmitted)

SendSome(c) ==
  /\ Sending(c)
  /\ sock[c].room > 0
  /\ sock[c].end # "reset"
  /\ out' = [out EXCEPT ![c].transmitted = @ + Sent(c)]
  /\ sock' = [sock EXCEPT ![c].room = @ - Sent(c)]
  /\ UNCHANGED <<active, in, pfd, ready, loopVars>>

SendWouldBlock(c) ==
  /\ Sending(c)
  /\ sock[c].open
  /\ sock[c].room = 0
  /\ sock[c].end # "reset"
  /\ pfd' = [pfd EXCEPT ![c].can_send = FALSE]
  /\ NextSlot
  /\ UNCHANGED <<active, in, out, sock, ready>>

SendFails(c) ==
  /\ Sending(c)
  /\ ~sock[c].open \/ sock[c].end = "reset"
  /\ CloseSlot(c)
  /\ NextSlot

SendWaits(c) ==
  /\ Turn(c, "out")
  /\ c \in active
  /\ out[c].transmitted < out[c].total
  /\ ~pfd[c].can_send
  /\ NextSlot
  /\ UNCHANGED <<slotVars, sock, ready>>

\* The callback, decision_send, finds something to send, or nothing: then the
\* total stays 0 and it is called again in the next iteration.
SendDone(c) ==
  /\ Turn(c, "out")
  /\ c \in active
  /\ out[c].transmitted = out[c].total
  /\ \E n \in {0, MaxLen} : out' = [out EXCEPT ![c] = Setup(n)]
  /\ NextSlot
  /\ UNCHANGED <<active, in, pfd, sock, ready>>

\* The in_trans just closed the slot.
SlotClosed(c) ==
  /\ Turn(c, "out")
  /\ c \notin active
  /\ NextSlot
  /\ UNCHANGED <<slotVars, sock, ready>>

-----------------------------------------------------------------------------

\* The flags of a slot after an event without error.
Flags(f, c) == [can_recv |-> f.can_recv \/ EpollIn(c),
                can_send |-> f.can_send \/ EpollOut(c)]

\* epoll_wait goes through the list until it has found max_events descriptors
\* that are still ready, or to the end; it unlists the first k.
EpollWait(k) ==
  LET found == {j \in 1 .. k : EpollIn(ready[j]) \/ EpollOut(ready[j])}
  IN \/ k = Len(ready) /\ Cardinality(found) <= MaxEvents
     \/ k \in found /\ Cardinality(found) = MaxEvents

\* poller_update.  A descriptor with an error is closed, its slot left as it is.
PollerUpdate ==
  /\ at = "poll"
  /\ \E k \in 0 .. Len(ready) :
       /\ EpollWait(k)
       /\ ready' = SubSeq(ready, k + 1, Len(ready))
       /\ LET told == {ready[j] : j \in 1 .. k}
          IN /\ sock' = [c \in Conn |->
                  IF c \in told /\ EpollErr(c) THEN DeadSocket
                  ELSE sock[c]]
             /\ pfd' = [c \in Conn |->
                  IF c \in told /\ ~EpollErr(c) THEN Flags(pfd[c], c) ELSE pfd[c]]
  /\ at' = "in"
  /\ UNCHANGED <<active, in, out, cur>>

-----------------------------------------------------------------------------
(* The remote peers and the network. *)

PeerSends(c) ==
  /\ sock[c].open
  /\ sock[c].end = "no"
  /\ sock[c].inq < Buffer
  /\ sock' = [sock EXCEPT ![c].inq = @ + 1]
  /\ Raise(c)
  /\ UNCHANGED <<slotVars, loopVars>>

PeerReads(c) ==
  /\ sock[c].open
  /\ sock[c].end # "reset"
  /\ sock[c].room < Buffer
  /\ sock' = [sock EXCEPT ![c].room = @ + 1]
  /\ IF sock[c].room = 0 THEN Raise(c) ELSE UNCHANGED ready
  /\ UNCHANGED <<slotVars, loopVars>>

PeerEnds(c) ==
  /\ sock[c].open
  /\ \E end \in {"eof"} \cup (IF Resets THEN {"reset"} ELSE {}) :
       /\ sock[c].end = "no" \/ (sock[c].end = "eof" /\ end = "reset")
       /\ sock' = [sock EXCEPT ![c].end = end]
  /\ Raise(c)
  /\ UNCHANGED <<slotVars, loopVars>>

Peers == \E c \in Conn : PeerSends(c) \/ PeerReads(c) \/ PeerEnds(c)

TradeIn(c) ==
  \/ NoPeer(c) \/ Connect(c)
  \/ RecvSome(c) \/ RecvWouldBlock(c) \/ RecvEnds(c) \/ RecvWaits(c) \/ RecvDone(c)

TradeOut(c) ==
  \/ SendSome(c) \/ SendWouldBlock(c) \/ SendFails(c) \/ SendWaits(c) \/ SendDone(c)
  \/ SlotClosed(c)

Loop == (\E c \in Conn : TradeIn(c) \/ TradeOut(c)) \/ PollerUpdate

Next == Loop \/ Peers

\* The loop never blocks.  A peer reads what it is sent while the connection
\* lasts; nothing obliges it to send.
Spec == Init /\ [][Next]_vars /\ WF_vars(Loop)

FairSpec == Spec /\ \A c \in Conn : WF_vars(PeerReads(c))

-----------------------------------------------------------------------------
(* Properties *)

\* The types; no transmission passes its total (the assertion in transmit).
TypeOK ==
  /\ active \subseteq Conn
  /\ in \in [Conn -> Transmission]
  /\ out \in [Conn -> Transmission]
  /\ \A c \in Conn :
       in[c].transmitted <= in[c].total /\ out[c].transmitted <= out[c].total
  /\ pfd \in [Conn -> [can_recv : BOOLEAN, can_send : BOOLEAN]]
  /\ sock \in [Conn -> Socket]
  /\ ready \in Seq(Conn)
  /\ cur \in Conn
  /\ at \in {"in", "out", "poll"}

\* No lost wake-up: when a flag is clear and its socket is ready after all, an
\* event is pending that will set the flag, so no slot waits for an edge that
\* already passed (pollfd_recv, pollfd_send, poller_update).
RecvWakesUp ==
  \A c \in active :
    sock[c].open /\ EpollIn(c) /\ ~pfd[c].can_recv => c \in Listed(ready)

SendWakesUp ==
  \A c \in active :
    sock[c].open /\ EpollOut(c) /\ ~pfd[c].can_send => c \in Listed(ready)

NoLostWakeup == RecvWakesUp /\ SendWakesUp

Abstract == INSTANCE Channel WITH
  up <- active,
  coming <- [c \in Conn |-> sock[c].inq],
  end <- [c \in Conn |-> sock[c].end]

\* The receiving side is the channel: nothing is taken twice or lost, all that
\* arrives is taken, an end of stream is noticed, after its last byte.
ImplementsChannel == Abstract!Spec

\* A message set up for sending goes out, to a peer that reads and does not reset
\* the connection: whatever part of it fits into the socket at a time, and
\* although can_send is cleared.
SendsComplete ==
  \A c \in Conn :
    (out[c].total > 0) ~> (out[c].transmitted = out[c].total \/ sock[c].end = "reset")
=============================================================================
