------------------------------- MODULE Sockets -------------------------------
(***************************************************************************)
(* The slots of event_loop and the descriptor table of the process: the    *)
(* numbers of closed descriptors are given out again, lowest first, and    *)
(* poller_update, trans_handle_error and peer_conn_close all close the     *)
(* number a slot holds.  What passes over the connections is left out: a   *)
(* slot trades, and its connection breaks or not.                          *)
(***************************************************************************)
EXTENDS PeerList

CONSTANTS
  ConnCount,  \* PEER_CONN_COUNT
  MaxFd,      \* the highest descriptor number the system gives out
  Faults      \* what may happen: "refuse", "disconnect", "hangup"

ASSUME SocketsAssumption ==
  /\ ConnCount \in Nat \ {0}
  /\ MaxFd \in Nat
  /\ Faults \subseteq {"refuse", "disconnect", "hangup"}

Slot == 1 .. ConnCount

\* What a number stands for besides a connection, which is named by the slot
\* that opened it.
FREE == 0
STDIN == -1
EPOLL == -2

Fd == 0 .. MaxFd

\* conn->socket.fd of a slot peer_conn_clear has zeroed, and of a failed connect.
ZeroedFd == 0
NoFd == -1

VARIABLES
  file,      \* the descriptor table
  active,    \* the slots with conn->active
  fd,        \* conn->socket.fd
  connPeer,  \* conn->peer
  failed,    \* the peers with fail_count # 0
  running,   \* g_running
  phase,     \* where the program is: "slots" and "poll" in the loop
  cur,       \* the slot event_loop is at
  hung       \* not in the code: poller_update has closed a descriptor in this loop

slotVars == <<active, fd, connPeer, failed>>
socketVars == <<file, slotVars, running, phase, cur, hung>>

SocketsInit ==
  /\ file = [f \in Fd |-> IF f = 0 THEN STDIN ELSE FREE]
  /\ active = {}
  /\ fd = [c \in Slot |-> ZeroedFd]
  /\ connPeer = [c \in Slot |-> NULL]
  /\ failed = {}
  /\ running = TRUE
  /\ cur = 1
  /\ hung = FALSE

\* close of some numbers: one that is not open only sets errno.
Closed(S) == [f \in Fd |-> IF f \in S THEN FREE ELSE file[f]]

FreeFds == {f \in Fd : file[f] = FREE}

\* socket and epoll_create1 take the lowest free number.
Lowest(f) == f \in FreeFds /\ \A g \in FreeFds : f <= g

\* Faulty variants of definitions below.
SlotFdsLeft(S) == {}
CloseFdsOnly(S) == file' = Closed({fd[c] : c \in S \cap active}) /\ UNCHANGED slotVars
GoesOnAnyway == TRUE

-----------------------------------------------------------------------------

NextSlot ==
  /\ cur' = IF cur = ConnCount THEN 1 ELSE cur + 1
  /\ phase' = IF cur = ConnCount THEN "poll" ELSE phase

\* The for loop of event_loop is at slot c.
Turn(c) == phase = "slots" /\ running /\ cur = c

Eligible == {p \in Walked(list) : p \notin failed /\ \A c \in Slot : connPeer[c] # p}

\* peer_conn_init takes the first peer in the list that will do.
Picks(p) ==
  /\ p \in Eligible
  /\ \A q \in Eligible : q <= p

NoPeer(c) ==
  /\ Turn(c)
  /\ c \notin active
  /\ Eligible = {}
  /\ fd' = [fd EXCEPT ![c] = ZeroedFd]
  /\ NextSlot
  /\ UNCHANGED <<file, active, connPeer, failed, running, hung, listVars>>

\* peer_connect and poller_register.
Connect(c) ==
  /\ Turn(c)
  /\ c \notin active
  /\ \E p \in Peer, f \in Fd :
       /\ Picks(p)
       /\ Lowest(f)
       /\ file' = [file EXCEPT ![f] = c]
       /\ fd' = [fd EXCEPT ![c] = f]
       /\ connPeer' = [connPeer EXCEPT ![c] = p]
  /\ active' = active \cup {c}
  /\ NextSlot
  /\ UNCHANGED <<failed, running, hung, listVars>>

\* There is no descriptor, or connect fails and peer_connect closes its own.
ConnectFails(c) ==
  /\ Turn(c)
  /\ c \notin active
  /\ FreeFds = {} \/ "refuse" \in Faults
  /\ \E p \in Peer : Picks(p) /\ failed' = failed \cup {p}
  /\ fd' = [fd EXCEPT ![c] = NoFd]
  /\ NextSlot
  /\ UNCHANGED <<file, active, connPeer, running, hung, listVars>>

\* The numbers the slots of S close in trans_handle_error or peer_conn_close.
SlotFds(S) == {fd[c] : c \in S \cap active}

\* peer_conn_close of the slots of S.
CloseSlots(S) ==
  /\ file' = Closed(SlotFds(S))
  /\ active' = active \ S
  /\ failed' = failed \cup {connPeer[c] : c \in S \cap active}
  /\ connPeer' = [c \in Slot |-> IF c \in S THEN NULL ELSE connPeer[c]]
  /\ fd' = [c \in Slot |-> IF c \in S THEN ZeroedFd ELSE fd[c]]

\* peer_conn_trade leaves the slot as it is.
Trade(c) ==
  /\ Turn(c)
  /\ c \in active
  /\ NextSlot
  /\ UNCHANGED <<file, slotVars, running, hung, listVars>>

\* recv or send on the number of the slot fails: there is nothing open behind it,
\* or the connection it stands for now is broken.
TradeFails(c) ==
  /\ Turn(c)
  /\ c \in active
  /\ file[fd[c]] = FREE \/ "disconnect" \in Faults
  /\ CloseSlots({c})
  /\ NextSlot
  /\ UNCHANGED <<running, hung, listVars>>

\* The for loop ends early after SIGINT.
Break ==
  /\ phase = "slots"
  /\ ~running
  /\ phase' = "poll"
  /\ cur' = 1
  /\ UNCHANGED <<file, slotVars, running, hung, listVars>>

\* event_loop goes round; completion is a matter of EventLoop.
GoesOn == running

\* poller_update.  An error on a connection closes the number of the slot that
\* registered it; the slot is not told.
PollerUpdate ==
  /\ phase = "poll"
  /\ GoesOn
  /\ \E S \in SUBSET {c \in Slot : \E f \in Fd : file[f] = c} :
       /\ S # {} => "hangup" \in Faults
       /\ file' = Closed({fd[c] : c \in S})
       /\ hung' = (hung \/ S # {})
  /\ phase' = "slots"
  /\ UNCHANGED <<slotVars, running, cur, listVars>>

\* poller_init, at the beginning of event_loop.
PollerInit ==
  /\ phase = "poller"
  /\ \E f \in Fd : Lowest(f) /\ file' = [file EXCEPT ![f] = EPOLL]
  /\ phase' = "slots"
  /\ cur' = 1
  /\ hung' = FALSE
  /\ UNCHANGED <<slotVars, running, listVars>>

\* event_loop ends, complete, after SIGINT or on an error of epoll_wait: it closes
\* every slot.  poller_destroy does not close the descriptor of epoll.
LoopExit ==
  /\ phase = "poll"
  /\ CloseSlots(Slot)
  /\ phase' = "free"
  /\ cur' = 1
  /\ UNCHANGED <<running, hung, listVars>>

EventLoop ==
  \/ PollerInit \/ Break \/ PollerUpdate \/ LoopExit
  \/ \E c \in Slot : NoPeer(c) \/ Connect(c) \/ ConnectFails(c) \/ Trade(c) \/ TradeFails(c)

-----------------------------------------------------------------------------

\* Every open connection is in the hands of the slot that opened it: none is
\* leaked, and epoll, which remembers the slot, reports its errors to a slot that
\* still has it, whoever closed which number before.
ConnectionsHeld ==
  \A f \in Fd : file[f] \in Slot => file[f] \in active /\ fd[file[f]] = f

\* As long as poller_update closes nothing, each active slot has a connection of
\* its own.
NoneShared == ~hung => \A c \in active : file[fd[c]] = c

\* Standard input, whose number cleared slots are left with, is open.
StdinKept == file[0] = STDIN

\* No number is closed twice or used after it was closed, as long as poller_update
\* closes none; and the number 0 of a zeroed slot is never taken for a descriptor
\* (the check of conn->peer in peer_conn_close).
OwnDescriptors == NoneShared /\ StdinKept
=============================================================================
