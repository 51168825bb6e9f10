------------------------------ MODULE EventLoop ------------------------------
(***************************************************************************)
(* event_loop and poller_update, composed with the slots.  Every iteration *)
(* handles the slots in order, each with its in_trans and then its         *)
(* out_trans, and ends in poller_update.  The signal handler may clear     *)
(* g_running between any two steps.                                        *)
(***************************************************************************)
EXTENDS Receive

\* A faulty variant of GoesOn.
GoesOnComplete == running

-----------------------------------------------------------------------------

\* The for loop stops early once g_running is cleared.
Break ==
  /\ phase = "slot"
  /\ ~running
  /\ phase' = "tick"
  /\ cur' = 1
  /\ UNCHANGED <<torrentVars, linkVars, bits, receiving, conn, remote, running>>

\* The condition of the loop of event_loop, poller_update apart.
GoesOn == state = "T_RUNNING" /\ running

\* The blocks peer c is being asked for, has not answered, or is answering.
Awaited(c) ==
  conn[c].out.reqs
    \cup {r \in Request : remote[c].owed[r] > 0}
    \cup (IF conn[c].in.at = "data" THEN {conn[c].in.req} ELSE {})

\* Without "slow", a peer answers within BLOCK_REQUEST_TIMEOUT.  The time passes
\* all the same where nothing is awaited, or nobody is there to answer.
TimePasses(c) == MayOccur(c, "slow") \/ Awaited(c) = {}

\* One more tick went by since last_req_tick.
Aged(c) ==
  LET age == conn[c].age IN
  IF age + 1 < RequestTimeout \/ (age + 1 = RequestTimeout /\ TimePasses(c))
  THEN age + 1 ELSE age

\* The loop goes round: the tick is counted and poller_update waits.  On an error
\* event it closes the number of the slot and leaves the slot as it is.
PollerUpdate ==
  /\ phase = "tick"
  /\ GoesOn
  /\ conn' = [c \in Slot |-> [conn[c] EXCEPT !.age = Aged(c)]]
  /\ \E S \in SUBSET {c \in Slot : Linked(c)} :
       /\ S # {} => "hangup" \in Faults
       /\ file' = Closed({fd[c] : c \in S})
       /\ \E D \in SUBSET S : deaf' = deaf \cup D
       /\ remote' = Gone(S)
  /\ phase' = "slot"
  /\ UNCHANGED <<torrentVars, failed, peerConn, active, connPeer, fd, bits, receiving,
                 running, cur>>

\* The loop ends, on a complete torrent, a signal or an error of epoll_wait,
\* and every slot is closed.
LoopExit ==
  /\ phase = "tick"
  /\ ~GoesOn \/ "eintr" \in Faults
  /\ CloseSlots(Slot)
  /\ phase' = "done"
  /\ UNCHANGED <<state, disk, bits, running, cur>>

\* The handler of SIGINT.
Sigint ==
  /\ "sigint" \in Faults
  /\ phase \notin {"done", "crashed"}
  /\ running
  /\ running' = FALSE
  /\ UNCHANGED <<torrentVars, linkVars, bits, receiving, conn, remote, phase, cur>>

\* event_loop has returned, or the process died.
Terminated ==
  /\ phase \in {"done", "crashed"}
  /\ UNCHANGED vars

Step(c) == PeerConnInit(c) \/ HandleIn(c) \/ HandleOut(c)

Loop == (\E c \in Slot : Step(c)) \/ Break \/ PollerUpdate \/ LoopExit

Next == Loop \/ Sigint \/ Terminated

\* The loop never blocks: sockets do not, and epoll_wait has a time-out.
Spec == Init /\ [][Next]_vars /\ WF_vars(Loop)

\* Something new arrives on a connection that stays: the handshake, a message
\* that changes what we know, or the next part of a piece message.
Arrives(c) ==
  /\ HandleIn(c)
  /\ c \in active'
  /\ conn' # conn \/ bits' # bits

\* The other end keeps going: it reads what we send, and while the connection
\* lasts it does not withhold for ever what it still has to send.  A slot waits
\* in infinitely many iterations of the loop, hence the strong fairness.
Responsive(c) == SF_vars(Private(c) /\ Send(c)) /\ SF_vars(Private(c) /\ Arrives(c))

FairSpec == Spec /\ \A c \in Slot : Responsive(c)

-----------------------------------------------------------------------------
(* Safety *)

\* A slot that fetches a piece is active, and the piece is marked so.
FetchersHold ==
  \A c \in Slot : receiving[c] # NULL =>
    c \in active /\ pieces[receiving[c]] = "FETCHING"

\* No two slots fetch one piece.
FetchersDistinct ==
  \A c, d \in Slot : receiving[c] # NULL /\ receiving[c] = receiving[d] => c = d

\* A piece marked PIECE_FETCHING is in the hands of a slot: no close, time-out
\* or completion leaks it.
FetchingHeld ==
  \A p \in Piece : pieces[p] = "FETCHING" => \E c \in Slot : receiving[c] = p

\* The marks of torrent->pieces and conn->receiving always agree, whatever the
\* slots go through: select_piece relies on it to hand out every piece once.
SlotOwnsPiece == FetchersHold /\ FetchersDistinct /\ FetchingHeld

\* peer->conn and conn->peer point at each other, exactly for the active slots,
\* and a peer that failed once is never connected again (peer_conn_init).
PeerLink ==
  /\ \A c \in Slot : c \in active <=> connPeer[c] # NULL
  /\ \A c \in Slot, q \in Peer : connPeer[c] = q <=> peerConn[q] = c
  /\ \A q \in failed : peerConn[q] = NULL

\* T_COMPLETE is final and true: it stays right while the loop winds down and
\* the slots are closed (select_piece, peer_conn_clear).
CompleteSound ==
  state = "T_COMPLETE" => \A p \in Piece : pieces[p] = "AVAILABLE"

\* A piece once available is never given back or fetched again.
AvailableForever ==
  [][\A p \in Piece : pieces[p] = "AVAILABLE" => pieces'[p] = "AVAILABLE"]_vars

IntoFile(c) == conn[c].in.at = "data" /\ conn[c].in.into

\* Two connections never write into the mapped bytes of one piece at a time,
\* even when blocks of an earlier request arrive late (receive_piece_iter).
OneWriter ==
  \A c, d \in Slot :
    c # d /\ IntoFile(c) /\ IntoFile(d) => conn[c].in.req[1] # conn[d].in.req[1]

\* No two slots hold one number: none that the poller closed has been given out
\* again.
NoneShared ==
  \A c, d \in Slot : fd[c] # NULL /\ fd[c] = fd[d] => c = d

\* A piece is made available only with the right content: decision_send runs
\* piece_check on it first.
AvailableValid == \A p \in Piece : pieces[p] = "AVAILABLE" => disk[p] = Block(p)

\* Without corruption the marks are backed by bytes: every block marked in
\* conn->blocks is in the file, and so is every block of an available piece.
BlocksBacked ==
  /\ \A c \in Slot : receiving[c] # NULL => conn[c].blocks \subseteq disk[receiving[c]]
  /\ AvailableValid

\* As long as answers come before BLOCK_REQUEST_TIMEOUT, every block a peer is asked
\* for or sends is one of the current piece that was requested, once, and not
\* received: this is what receive_piece_conv relies on.  It is said of the slots
\* whose connection is nobody else's.
AnswersExpected ==
  \A c \in Slot : Private(c) => \A r \in Awaited(c) :
    /\ r[1] = receiving[c]
    /\ r[2] \in conn[c].req_blocks \ conn[c].blocks
    /\ remote[c].owed[r] <= IF r = conn[c].in.req \/ r \in conn[c].out.reqs THEN 0 ELSE 1

\* The peer is told of our interest before a piece is waited for: setup_piece
\* has update_interest send it ("expressing our interest").
InterestExpressed ==
  \A c \in Slot : Private(c) /\ receiving[c] # NULL =>
    remote[c].told \/ conn[c].out.type = "interested"

\* A block that was not asked for is only worth a warning in
\* receive_piece_conv: it does not stop the program.
UnaskedTolerated == phase # "crashed"

\* A peer that keeps the connection and the protocol is never given up: only
\* the end of event_loop closes its slot.
HonestKept == phase # "done" => failed = {}

-----------------------------------------------------------------------------
(* Refinement *)

Abstract ==
  INSTANCE Download WITH
    Worker <- Slot,
    None <- NULL,
    acquired <- {p \in Piece : pieces[p] = "AVAILABLE"},
    claim <- receiving,
    complete <- (state = "T_COMPLETE")

\* The event loop, its slots and everything that happens to them implement the
\* abstract download: pieces are claimed once, acquired or abandoned.
ImplementsDownload == Abstract!Spec

-----------------------------------------------------------------------------
(* Liveness *)

\* With responsive peers that have every piece between them, the download
\* completes and event_loop returns.
Completes ==
  (Piece \subseteq UNION {Content[q] : q \in Peer}) => 
    <>(phase = "done" /\ \A p \in Piece : pieces[p] = "AVAILABLE")

\* Slot c shares a number, or lost its connection and does not hear that it did.
Astray(c) == (Open(c) /\ ~Private(c)) \/ c \in deaf

\* Where the other ends keep going, a slot does not keep a piece for ever: it gets
\* all of it or gives it back, however connections break.  The exceptions are the
\* slots that poller_update led astray, and the end of the process.
FetchingEnds ==
  (\A c \in Slot : Responsive(c)) =>
    \A p \in Piece :
      (pieces[p] = "FETCHING") ~>
        \/ pieces[p] # "FETCHING"
        \/ \E c \in Slot : receiving[c] = p /\ Astray(c)
        \/ phase = "crashed"

\* After SIGINT, and once the torrent is complete, event_loop returns.
Stops == (~running \/ state = "T_COMPLETE") ~> phase \in {"done", "crashed"}

\* The slots whose next turn runs decision_send, as no send is under way.
CanNotice == {c \in active : conn[c].out.type = "none"}

\* Once every piece is available event_loop returns, unless no connection is left
\* that can send: select_piece declares a torrent complete that has no piece left to
\* select, and it is called from decision_send alone.
CompletionNoticed ==
  (\A p \in Piece : pieces[p] = "AVAILABLE") ~>
    (phase \in {"done", "crashed"} \/ CanNotice = {})
=============================================================================
