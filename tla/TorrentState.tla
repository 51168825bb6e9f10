---------------------------- MODULE TorrentState ----------------------------
(***************************************************************************)
(* The state of one running leech: struct torrent, the table of            *)
(* struct peer_conn slots kept by event_loop, and what the remote ends of  *)
(* the connections know.  The modules PeerConn, DecisionSend, Receive and  *)
(* EventLoop extend this one and add the operations.                       *)
(*                                                                         *)
(* Remote peers are the environment.  They follow the protocol (they only  *)
(* answer requests they received, indexes are in bounds); the set Faults   *)
(* says which of the unpleasant things that may nevertheless happen are    *)
(* switched on in a run.                                                   *)
(***************************************************************************)
EXTENDS Naturals, FiniteSets

CONSTANTS
  PeerConnCount,  \* PEER_CONN_COUNT, the slots of the event loop
  NbPeers,        \* length of the peer list the tracker returned
  NbPieces,       \* torrent->nbpieces
  BlockCount,     \* piece->block_count of every piece
  RequestsMax,    \* REQUESTS_BUF_MAX
  RequestTimeout, \* BLOCK_REQUEST_TIMEOUT, in ticks
  Content,        \* the pieces each remote peer really has
  MaxOwed,        \* bound: copies of one block a remote may still owe us
  Faults,         \* what the environment may do besides answering
  NULL

Slot  == 1 .. PeerConnCount
Fd    == 1 .. PeerConnCount   \* the lowest free number is one of these
Peer  == 1 .. NbPeers         \* in the order of the peer list
Piece == 0 .. NbPieces - 1
Block(p) == 0 .. BlockCount[p] - 1

\* A block request: btrequest and btpiece carry the piece index and the offset.
Request == UNION {{p} \X Block(p) : p \in Piece}

FaultKinds == {"refuse", "disconnect", "hangup", "choke", "optimistic",
               "interest", "corrupt", "slow", "sigint", "eintr"}

ASSUME CountsAssumption ==
  /\ PeerConnCount \in Nat \ {0}
  /\ NbPeers \in Nat
  /\ NbPieces \in Nat
  /\ RequestsMax \in Nat \ {0}
  /\ RequestTimeout \in Nat \ {0}
  /\ MaxOwed \in Nat \ {0}
ASSUME BlockCountAssumption == BlockCount \in [Piece -> Nat \ {0}]
ASSUME ContentAssumption == Content \in [Peer -> SUBSET Piece]
ASSUME FaultsAssumption == Faults \subseteq FaultKinds
ASSUME NullAssumption == NULL \notin Slot \cup Peer \cup Piece \cup Request

-----------------------------------------------------------------------------

VARIABLES
  state,      \* torrent->state
  running,    \* g_running
  pieces,     \* torrent->pieces[i].state
  disk,       \* the blocks of each piece whose mapped bytes are right
  bits,       \* peer->pieces
  failed,     \* the peers with fail_count # 0
  peerConn,   \* peer->conn
  active,     \* the slots with conn->active
  connPeer,   \* conn->peer
  fd,         \* conn->socket.fd
  file,       \* the descriptor table: whose connection a number stands for
  deaf,       \* the slots that lost their connection and have can_recv clear
  receiving,  \* conn->receiving.piece
  conn,       \* the rest of each struct peer_conn
  remote,     \* what the other end of each connection owes and was told
  phase,      \* where the event loop stands
  cur         \* the slot it is looking at

torrentVars == <<state, pieces, disk>>
fdVars      == <<fd, file, deaf>>
linkVars    == <<failed, peerConn, active, connPeer, fdVars>>
loopVars    == <<running, phase, cur>>
vars == <<state, running, pieces, disk, bits, failed, peerConn, active, connPeer,
          fd, file, deaf, receiving, conn, remote, phase, cur>>

\* What in_trans is waiting for: "piece" is the index and the offset of a block,
\* "data" its bytes.  At the last, `req', `good' and `into' describe the block:
\* its index and offset, whether its bytes are right, and whether they go to the
\* mapped file or are truncated.
InTrans ==
  [at : {"none", "handshake", "header", "piece"},
   req : {NULL}, good : BOOLEAN, into : BOOLEAN]
  \cup
  [at : {"data"}, req : Request, good : BOOLEAN, into : BOOLEAN]

In(at) == [at |-> at, req |-> NULL, good |-> TRUE, into |-> FALSE]

\* What out_trans is sending.
OutTrans == [type : {"none", "handshake", "interested", "request"},
             reqs : SUBSET Request]

Out(type) == [type |-> type, reqs |-> {}]

\* age is the number of ticks since last_req_tick, capped at RequestTimeout; "no
\* request yet" is RequestTimeout as well.
ConnType == [choking : BOOLEAN, interested : BOOLEAN,
             block : Nat, blocks : SUBSET Nat, req_blocks : SUBSET Nat,
             ask_blocks : BOOLEAN, age : 0 .. RequestTimeout,
             in : InTrans, out : OutTrans]

RemoteType == [owed : [Request -> 0 .. MaxOwed], told : BOOLEAN]

ClearedConn == [choking |-> TRUE, interested |-> FALSE,
                block |-> 0, blocks |-> {}, req_blocks |-> {},
                ask_blocks |-> FALSE, age |-> RequestTimeout,
                in |-> In("none"), out |-> Out("none")]

FreshRemote == [owed |-> [r \in Request |-> 0], told |-> FALSE]

TypeOK ==
  /\ state \in {"T_RUNNING", "T_COMPLETE"}
  /\ running \in BOOLEAN
  /\ pieces \in [Piece -> {"MISSING", "FETCHING", "AVAILABLE"}]
  /\ disk \in [Piece -> SUBSET Nat]
  /\ bits \in [Peer -> SUBSET Piece]
  /\ failed \subseteq Peer
  /\ peerConn \in [Peer -> Slot \cup {NULL}]
  /\ active \subseteq Slot
  /\ connPeer \in [Slot -> Peer \cup {NULL}]
  /\ fd \in [Slot -> Fd \cup {NULL}]
  /\ file \in [Fd -> Slot \cup {NULL}]
  /\ deaf \subseteq Slot
  /\ receiving \in [Slot -> Piece \cup {NULL}]
  /\ conn \in [Slot -> ConnType]
  /\ remote \in [Slot -> RemoteType]
  /\ phase \in {"slot", "out", "tick", "done", "crashed"}
  /\ cur \in Slot

\* torrent_create and the calloc and peer_conn_clear of event_loop: the pieces
\* that passed piece_check at start-up are available, no peer was tried yet.
Init ==
  /\ state = "T_RUNNING"
  /\ running = TRUE
  /\ \E done \in SUBSET Piece :
       /\ pieces = [p \in Piece |-> IF p \in done THEN "AVAILABLE" ELSE "MISSING"]
       /\ disk = [p \in Piece |-> IF p \in done THEN Block(p) ELSE {}]
  /\ bits = [q \in Peer |-> {}]
  /\ failed = {}
  /\ peerConn = [q \in Peer |-> NULL]
  /\ active = {}
  /\ connPeer = [c \in Slot |-> NULL]
  /\ fd = [c \in Slot |-> NULL]
  /\ file = [f \in Fd |-> NULL]
  /\ deaf = {}
  /\ receiving = [c \in Slot |-> NULL]
  /\ conn = [c \in Slot |-> ClearedConn]
  /\ remote = [c \in Slot |-> FreshRemote]
  /\ phase = "slot"
  /\ cur = 1

-----------------------------------------------------------------------------

\* The for loop of event_loop moves on to the next slot, or ends.
NextSlot ==
  IF cur < PeerConnCount
  THEN phase' = "slot" /\ cur' = cur + 1
  ELSE phase' = "tick" /\ cur' = 1

\* Something is open behind the number that slot c holds: its connection, or the
\* one of another slot that got the number when the poller had closed it.
Open(c) == fd[c] # NULL /\ file[fd[c]] # NULL

\* Slot c has the connection it opened.
Linked(c) == fd[c] # NULL /\ file[fd[c]] = c

\* It has it for itself: no other slot holds the number.  Once a slot is without
\* its connection, or shares it, what it receives is anybody's.
Private(c) == Linked(c) /\ \A d \in Slot : fd[d] = fd[c] => d = c

\* What only `fault' would make a peer do may come of another connection as well.
MayOccur(c, fault) == fault \in Faults \/ ~Private(c)

\* Slot c is the one the loop handles now: its in_trans, then its out_trans.
Turn(c, ph) == c = cur /\ phase = ph
=============================================================================
