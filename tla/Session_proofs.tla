--------------------------- MODULE Session_proofs ---------------------------
(***************************************************************************)
(* Who holds which descriptor, what SIGINT stops, how the peer list is     *)
(* linked and what is left of a torrent, for any number of slots, peers,   *)
(* torrents and descriptors, and any faults.                               *)
(***************************************************************************)
EXTENDS Session, TLAPS, WellFoundedInduction, FiniteSetTheorems

\* The types of the descriptor table and the slots.
SocketsTyped ==
  /\ file \in [Fd -> Slot \cup {FREE, STDIN, EPOLL}]
  /\ active \subseteq Slot
  /\ fd \in [Slot -> Fd \cup {NoFd}]

\* An active slot has a number, and not the one a zeroed slot has.
HasNumber == \A c \in active : fd[c] \in Fd /\ fd[c] # ZeroedFd

\* Outside event_loop no slot is active.
Inactive == phase \in {"create", "announce", "poller", "free"} => active = {}

\* The inductive invariant.
Held ==
  /\ SocketsTyped
  /\ HasNumber
  /\ StdinKept
  /\ Inactive
  /\ ConnectionsHeld
  /\ NoneShared

-----------------------------------------------------------------------------

LEMMA Marks ==
  /\ FREE \notin Slot /\ STDIN \notin Slot /\ EPOLL \notin Slot
  /\ FREE # STDIN /\ FREE # EPOLL /\ STDIN # EPOLL
  /\ ZeroedFd \in Fd /\ ZeroedFd # NoFd /\ NoFd \notin Fd
  BY SocketsAssumption DEF FREE, STDIN, EPOLL, Slot, Fd, ZeroedFd, NoFd

LEMMA InitHeld == Init => Held
<1> SUFFICES ASSUME Init PROVE Held
  OBVIOUS
<1>1. active = {} /\ \A f \in Fd : file[f] \in {STDIN, FREE}
  BY DEF Init, SocketsInit
<1>2. SocketsTyped
  BY Marks DEF Init, SocketsInit, SocketsTyped
<1>3. StdinKept
  BY Marks DEF Init, SocketsInit, StdinKept, ZeroedFd
<1> QED
  BY <1>1, <1>2, <1>3, Marks DEF Held, HasNumber, Inactive, ConnectionsHeld, NoneShared

\* Closing numbers frees them, and leaves the others alone.
LEMMA ClosedTable ==
  ASSUME SocketsTyped, NEW S \in SUBSET Int
  PROVE  /\ Closed(S) \in [Fd -> Slot \cup {FREE, STDIN, EPOLL}]
         /\ \A f \in Fd : Closed(S)[f] = IF f \in S THEN FREE ELSE file[f]
  BY DEF Closed, SocketsTyped

\* A lowest free number is free.
LEMMA LowestFree ==
  ASSUME NEW f \in Fd, Lowest(f)
  PROVE  file[f] = FREE
  BY DEF Lowest, FreeFds

\* The slots of S are closed, and with them exactly their connections
\* (peer_conn_close).
LEMMA CloseHeld ==
  ASSUME Held, NEW S \in SUBSET Slot, CloseSlots(S), UNCHANGED hung,
         phase' \in {"create", "announce", "poller", "free"} => active' = {}
  PROVE  Held'
<1>1. /\ file' = Closed(SlotFds(S))
      /\ active' = active \ S
      /\ fd' = [c \in Slot |-> IF c \in S THEN ZeroedFd ELSE fd[c]]
  BY DEF CloseSlots
<1>2. SlotFds(S) \in SUBSET Int
  BY DEF SlotFds, Held, SocketsTyped, Fd, NoFd
<1>3. /\ file' \in [Fd -> Slot \cup {FREE, STDIN, EPOLL}]
      /\ \A f \in Fd : file'[f] = IF f \in SlotFds(S) THEN FREE ELSE file[f]
  BY <1>1, <1>2, ClosedTable DEF Held
<1>4. \A c \in active' : c \in active /\ c \notin S /\ c \in Slot /\ fd'[c] = fd[c]
  BY <1>1 DEF Held, SocketsTyped
<1>5. SocketsTyped'
  <2>1. fd' \in [Slot -> Fd \cup {NoFd}]
    BY <1>1, Marks DEF Held, SocketsTyped
  <2> QED
    BY <1>1, <1>3, <2>1 DEF Held, SocketsTyped
<1>6. HasNumber'
  BY <1>4 DEF Held, HasNumber
<1>7. StdinKept'
  <2>1. ZeroedFd \notin SlotFds(S)
    BY DEF SlotFds, Held, HasNumber
  <2> QED
    BY <1>3, <2>1, Marks DEF Held, StdinKept, ZeroedFd
<1>8. ConnectionsHeld'
  <2> SUFFICES ASSUME NEW f \in Fd, file'[f] \in Slot
               PROVE  file'[f] \in active' /\ fd'[file'[f]] = f
    BY DEF ConnectionsHeld
  <2>1. f \notin SlotFds(S) /\ file'[f] = file[f]
    BY <1>3, Marks
  <2>2. file[f] \in active /\ fd[file[f]] = f
    BY <2>1 DEF Held, ConnectionsHeld
  <2>3. file[f] \notin S
    BY <2>1, <2>2 DEF SlotFds
  <2> QED
    BY <1>1, <2>1, <2>2, <2>3
<1>9. NoneShared'
  <2> SUFFICES ASSUME ~hung, NEW c \in active'
               PROVE  file'[fd'[c]] = c
    BY DEF NoneShared
  <2>1. file[fd[c]] = c /\ fd[c] \in Fd
    BY <1>4 DEF Held, NoneShared, HasNumber
  <2>2. fd[c] \notin SlotFds(S)
    <3> SUFFICES ASSUME NEW d \in S \cap active, fd[d] = fd[c] PROVE FALSE
      BY DEF SlotFds
    <3>1. file[fd[d]] = d
      BY DEF Held, NoneShared
    <3> QED
      BY <1>4, <2>1, <3>1
  <2> QED
    BY <1>3, <1>4, <2>1, <2>2
<1>10. Inactive'
  BY DEF Inactive
<1> QED
  BY <1>5, <1>6, <1>7, <1>8, <1>9, <1>10 DEF Held

\* The number of an inactive slot is nobody's business.
LEMMA InactiveHeld ==
  ASSUME Held, NEW c \in Slot, c \notin active, NEW f \in Fd \cup {NoFd},
         fd' = [fd EXCEPT ![c] = f], UNCHANGED <<file, active, hung>>,
         phase' \notin {"create", "announce", "poller", "free"}
  PROVE  Held'
<1>1. fd' \in [Slot -> Fd \cup {NoFd}] /\ \A d \in active : d \in Slot /\ fd'[d] = fd[d]
  BY DEF Held, SocketsTyped
<1>2. SocketsTyped' /\ HasNumber' /\ StdinKept' /\ Inactive'
  BY <1>1 DEF Held, SocketsTyped, HasNumber, StdinKept, Inactive
<1>3. ConnectionsHeld' /\ NoneShared'
  BY <1>1 DEF Held, ConnectionsHeld, NoneShared
<1> QED
  BY <1>2, <1>3 DEF Held

\* A new connection gets a number that nobody has (peer_connect).
LEMMA ConnectHeld ==
  ASSUME Held, NEW c \in Slot, Connect(c)
  PROVE  Held'
<1>1. PICK f \in Fd :
        /\ Lowest(f)
        /\ file' = [file EXCEPT ![f] = c]
        /\ fd' = [fd EXCEPT ![c] = f]
  BY DEF Connect
<1>2. /\ c \notin active /\ active' = active \cup {c} /\ hung' = hung
      /\ phase' \in {"slots", "poll"}
  BY DEF Connect, NextSlot, Turn
<1>3. file[f] = FREE
  BY <1>1, LowestFree
<1>4. /\ \A g \in Fd : file'[g] = IF g = f THEN c ELSE file[g]
      /\ \A d \in Slot : fd'[d] = IF d = c THEN f ELSE fd[d]
  BY <1>1 DEF Held, SocketsTyped
<1>5. f # ZeroedFd
  BY <1>3, Marks DEF Held, StdinKept, ZeroedFd
<1>6. SocketsTyped'
  BY <1>1, <1>2 DEF Held, SocketsTyped
<1>7. HasNumber'
  BY <1>2, <1>4, <1>5 DEF Held, HasNumber, SocketsTyped
<1>8. StdinKept'
  BY <1>4, <1>5, Marks DEF Held, StdinKept, ZeroedFd
<1>9. ConnectionsHeld'
  <2> SUFFICES ASSUME NEW g \in Fd, file'[g] \in Slot
               PROVE  file'[g] \in active' /\ fd'[file'[g]] = g
    BY DEF ConnectionsHeld
  <2>1. CASE g = f
    BY <1>2, <1>4, <2>1
  <2>2. CASE g # f
    <3>1. file'[g] = file[g] /\ file[g] \in active /\ fd[file[g]] = g
      BY <1>4, <2>2 DEF Held, ConnectionsHeld
    <3> QED
      BY <1>2, <1>4, <3>1
  <2> QED
    BY <2>1, <2>2
<1>10. NoneShared'
  <2> SUFFICES ASSUME ~hung, NEW d \in active'
               PROVE  file'[fd'[d]] = d
    BY <1>2 DEF NoneShared
  <2>1. CASE d = c
    BY <1>4, <2>1
  <2>2. CASE d # c
    <3>1. d \in active /\ d \in Slot /\ fd[d] \in Fd /\ file[fd[d]] = d
      BY <1>2, <2>2 DEF Held, SocketsTyped, HasNumber, NoneShared
    <3>2. fd[d] # f
      BY <1>3, <3>1, Marks
    <3> QED
      BY <1>4, <2>2, <3>1, <3>2
  <2> QED
    BY <2>1, <2>2
<1>11. Inactive'
  BY <1>2 DEF Inactive
<1> QED
  BY <1>6, <1>7, <1>8, <1>9, <1>10, <1>11 DEF Held

\* poller_update closes numbers behind the back of their slots.
LEMMA PollerUpdateHeld ==
  ASSUME Held, PollerUpdate
  PROVE  Held'
<1>1. PICK S \in SUBSET {c \in Slot : \E f \in Fd : file[f] = c} :
        /\ file' = Closed({fd[c] : c \in S})
        /\ hung' = (hung \/ S # {})
  BY DEF PollerUpdate
<1>2. UNCHANGED <<active, fd>> /\ phase' = "slots"
  BY DEF PollerUpdate, slotVars
<1>3. {fd[c] : c \in S} \in SUBSET Int /\ ZeroedFd \notin {fd[c] : c \in S}
  <2>1. \A c \in S : c \in active
    BY <1>1 DEF Held, ConnectionsHeld
  <2> QED
    BY <2>1 DEF Held, HasNumber, SocketsTyped, Fd, NoFd
<1>4. /\ file' \in [Fd -> Slot \cup {FREE, STDIN, EPOLL}]
      /\ \A f \in Fd : file'[f] = IF f \in {fd[c] : c \in S} THEN FREE ELSE file[f]
  BY <1>1, <1>3, ClosedTable DEF Held
<1>5. SocketsTyped' /\ HasNumber' /\ Inactive'
  BY <1>2, <1>4 DEF Held, SocketsTyped, HasNumber, Inactive
<1>6. StdinKept'
  BY <1>3, <1>4, Marks DEF Held, StdinKept, ZeroedFd
<1>7. ConnectionsHeld'
  BY <1>2, <1>4, Marks DEF Held, ConnectionsHeld
<1>8. NoneShared'
  <2> SUFFICES ASSUME ~hung', NEW c \in active
               PROVE  file'[fd[c]] = c
    BY <1>2 DEF NoneShared
  <2>1. ~hung /\ S = {}
    BY <1>1
  <2>2. fd[c] \in Fd /\ file[fd[c]] = c
    BY <2>1 DEF Held, HasNumber, NoneShared
  <2> QED
    BY <1>4, <2>1, <2>2
<1> QED
  BY <1>5, <1>6, <1>7, <1>8 DEF Held

LEMMA PollerInitHeld ==
  ASSUME Held, PollerInit
  PROVE  Held'
<1>1. PICK f \in Fd : Lowest(f) /\ file' = [file EXCEPT ![f] = EPOLL]
  BY DEF PollerInit
<1>2. UNCHANGED <<active, fd>> /\ active = {} /\ phase' = "slots"
  BY DEF PollerInit, slotVars, Held, Inactive
<1>3. \A g \in Fd : file'[g] = IF g = f THEN EPOLL ELSE file[g]
  BY <1>1 DEF Held, SocketsTyped
<1>4. SocketsTyped' /\ HasNumber' /\ Inactive' /\ NoneShared'
  BY <1>1, <1>2 DEF Held, SocketsTyped, HasNumber, Inactive, NoneShared
<1>5. StdinKept'
  BY <1>1, <1>3, LowestFree, Marks DEF Held, StdinKept, ZeroedFd
<1>6. ConnectionsHeld'
  BY <1>2, <1>3, Marks DEF Held, ConnectionsHeld
<1> QED
  BY <1>4, <1>5, <1>6 DEF Held

\* The steps that touch neither the table nor a slot.
LEMMA SameHeld ==
  ASSUME Held, UNCHANGED <<file, active, fd, hung>>,
         phase' \in {"create", "announce", "poller", "free"} => active = {}
  PROVE  Held'
<1>1. SocketsTyped' /\ HasNumber' /\ StdinKept' /\ Inactive'
  BY DEF Held, SocketsTyped, HasNumber, StdinKept, Inactive
<1>2. ConnectionsHeld' /\ NoneShared'
  BY DEF Held, ConnectionsHeld, NoneShared
<1> QED
  BY <1>1, <1>2 DEF Held

LEMMA EventLoopHeld ==
  ASSUME Held, EventLoop
  PROVE  Held'
<1>1. CASE PollerInit \/ PollerUpdate
  BY <1>1, PollerInitHeld, PollerUpdateHeld
<1>2. CASE Break
  BY <1>2, SameHeld DEF Break, slotVars
<1>3. CASE LoopExit
  <2>1. active' = {}
    BY <1>3 DEF LoopExit, CloseSlots, Held, SocketsTyped
  <2> QED
    BY <1>3, <2>1, CloseHeld DEF LoopExit
<1>4. ASSUME NEW c \in Slot, NoPeer(c) \/ Connect(c) \/ ConnectFails(c) \/ Trade(c) \/ TradeFails(c)
      PROVE  Held'
  <2>1. CASE Connect(c)
    BY <2>1, ConnectHeld
  <2>2. phase' \in {"slots", "poll"}
    BY <1>4 DEF NoPeer, Connect, ConnectFails, Trade, TradeFails, Turn, NextSlot
  <2>3. CASE NoPeer(c)
    BY <2>2, <2>3, InactiveHeld, Marks DEF NoPeer
  <2>4. CASE ConnectFails(c)
    BY <2>2, <2>4, InactiveHeld DEF ConnectFails
  <2>5. CASE Trade(c)
    BY <2>2, <2>5, SameHeld DEF Trade, slotVars
  <2>6. CASE TradeFails(c)
    BY <2>2, <2>6, CloseHeld DEF TradeFails
  <2> QED
    BY <1>4, <2>1, <2>3, <2>4, <2>5, <2>6
<1> QED
  BY <1>1, <1>2, <1>3, <1>4 DEF EventLoop

LEMMA StepHeld == Held /\ [Next]_vars => Held'
<1> SUFFICES ASSUME Held, [Next]_vars PROVE Held'
  OBVIOUS
<1>1. CASE TorrentCreate \/ TorrentRefused \/ NoAnnouncement \/ AnnounceWithoutPeers
  BY <1>1, SameHeld DEF TorrentCreate, TorrentRefused, NoAnnouncement, AnnounceWithoutPeers,
     Goto, slotVars, Held, Inactive
<1>2. CASE Announce \/ PollerFails \/ TorrentFree
  BY <1>2, SameHeld DEF Announce, PollerFails, TorrentFree, Goto, slotVars, Held, Inactive
<1>3. CASE Sigint
  BY <1>3, SameHeld DEF Sigint, Goto, slotVars, Held, Inactive
<1>4. CASE EventLoop
  BY <1>4, EventLoopHeld
<1>5. CASE UNCHANGED vars
  BY <1>5, SameHeld DEF vars, socketVars, slotVars, Held, Inactive
<1> QED
  BY <1>1, <1>2, <1>3, <1>4, <1>5 DEF Next, Main, Terminated

LEMMA HeldAlways == Spec => []Held
  BY InitHeld, StepHeld, PTL DEF Spec

-----------------------------------------------------------------------------

\* No connection is leaked, whoever closes which number (poller_update,
\* trans_handle_error and peer_conn_close).
THEOREM ConnectionsAlwaysHeld == Spec => []ConnectionsHeld
<1>1. Held => ConnectionsHeld
  BY DEF Held
<1> QED
  BY <1>1, HeldAlways, PTL

\* Without an error event no two slots share a number and none is stale; clearing
\* slots never closes the descriptor 0 they are left with.
THEOREM DescriptorsOwned == Spec => []OwnDescriptors
<1>1. Held => OwnDescriptors
  BY DEF Held, OwnDescriptors
<1> QED
  BY <1>1, HeldAlways, PTL

\* After SIGINT no connection is made, in whichever torrent.
THEOREM SigintIsFinal == Spec => SigintFinal
<1>1. [Next]_vars => [~running => active' \subseteq active]_vars
  <2> SUFFICES ASSUME [Next]_vars, ~running PROVE active' \subseteq active
    OBVIOUS
  <2>1. CASE \/ TorrentCreate \/ TorrentRefused \/ NoAnnouncement \/ AnnounceWithoutPeers
             \/ Announce \/ PollerFails \/ TorrentFree \/ Sigint
    BY <2>1 DEF TorrentCreate, TorrentRefused, NoAnnouncement, AnnounceWithoutPeers,
       Announce, PollerFails, TorrentFree, Sigint, slotVars
  <2>2. CASE EventLoop
    <3>1. \A c \in Slot : ~Turn(c)
      BY DEF Turn
    <3>2. PollerInit \/ Break \/ PollerUpdate \/ LoopExit
      BY <2>2, <3>1 DEF EventLoop, NoPeer, Connect, ConnectFails, Trade, TradeFails
    <3> QED
      BY <3>2 DEF PollerInit, Break, PollerUpdate, LoopExit, CloseSlots, slotVars
  <2>3. CASE UNCHANGED vars
    BY <2>3 DEF vars, socketVars, slotVars
  <2> QED
    BY <2>1, <2>2, <2>3 DEF Next, Main, Terminated
<1> QED
  BY <1>1, PTL DEF Spec, SigintFinal
-----------------------------------------------------------------------------
(* Induction, stated with sets *)

LEMMA LeastElement ==
  ASSUME NEW T \in SUBSET Nat, T # {}
  PROVE  \E n \in T : \A m \in T : n <= m
<1>1. PICK n \in T : \A m \in T : <<m, n>> \notin OpToRel(<, Nat)
  BY WFMin, NatLessThanWellFounded, Zenon
<1>2. \A m \in T : <<m, n>> \in Nat \X Nat /\ <<m, n>>[1] = m /\ <<m, n>>[2] = n
  OBVIOUS
<1>3. \A m \in T : ~(m < n)
  BY <1>1, <1>2 DEF OpToRel
<1> QED
  BY <1>3

\* What holds of 0, and of n + 1 whenever it holds of n, holds of every number.
LEMMA SetInduction ==
  ASSUME NEW S \in SUBSET Nat, 0 \in S, \A n \in S : n + 1 \in S
  PROVE  S = Nat
<1> SUFFICES ASSUME Nat \ S # {} PROVE FALSE
  OBVIOUS
<1>1. PICK n \in Nat \ S : \A m \in Nat \ S : n <= m
  BY LeastElement
<1>2. n - 1 \in S
  BY <1>1
<1> QED
  BY <1>2

-----------------------------------------------------------------------------
(* The peer list *)

\* The list of the first n peers: the last appended is the first element.
ListOf(n) ==
  [to |-> [k \in Link |-> IF k = HEAD THEN (IF n = 0 THEN NULL ELSE n)
                          ELSE IF 1 < k /\ k <= n THEN k - 1 ELSE NULL],
   prec |-> [p \in Peer |-> IF p = n THEN HEAD ELSE IF p < n THEN p + 1 ELSE NULL]]

LEMMA ListOfNone == ListOf(0) = EmptyList
<1>1. ListOf(0).to = [k \in Link |-> NULL]
  BY PeersAssumption DEF ListOf, Link, Peer, HEAD
<1>2. ListOf(0).prec = [p \in Peer |-> NULL]
  BY PeersAssumption DEF ListOf, Peer
<1> QED
  BY <1>1, <1>2 DEF ListOf, EmptyList

\* peerlist_append makes the list of the first n out of the one of n - 1.
LEMMA ListOfMore ==
  ASSUME NEW n \in 1 .. MaxPeers
  PROVE  Appended(ListOf(n - 1), n) = ListOf(n)
<1> DEFINE l == ListOf(n - 1)
<1>1. n \in Peer /\ n # HEAD /\ NULL # HEAD /\ NULL \notin Peer
  BY PeersAssumption DEF Peer, HEAD
<1>2. /\ \A k \in Link : l.to[k] = IF k = HEAD THEN (IF n = 1 THEN NULL ELSE n - 1)
                                   ELSE IF 1 < k /\ k <= n - 1 THEN k - 1 ELSE NULL
      /\ \A p \in Peer : l.prec[p] = IF p = n - 1 THEN HEAD
                                     ELSE IF p < n - 1 THEN p + 1 ELSE NULL
      /\ l.to = [k \in Link |-> l.to[k]]
  BY PeersAssumption DEF ListOf, Peer, Link, HEAD
<1> HIDE DEF l
<1>3. [l.to EXCEPT ![n] = l.to[HEAD], ![HEAD] = n] = ListOf(n).to
  <2> DEFINE to == [l.to EXCEPT ![n] = l.to[HEAD], ![HEAD] = n]
  <2>1. HEAD \in Link /\ n \in Link
    BY <1>1 DEF Link
  <2>2. /\ to = [k \in Link |-> to[k]]
        /\ \A k \in Link : to[k] = IF k = HEAD THEN n
                                   ELSE IF k = n THEN l.to[HEAD] ELSE l.to[k]
    BY <1>1, <1>2, <2>1
  <2> HIDE DEF to
  <2>4. ListOf(n).to = [k \in Link |-> ListOf(n).to[k]]
    BY DEF ListOf
  <2>3. \A k \in Link : to[k] = ListOf(n).to[k]
    <3> SUFFICES ASSUME NEW k \in Link PROVE to[k] = ListOf(n).to[k]
      OBVIOUS
    <3>1. ListOf(n).to[k] = IF k = HEAD THEN n
                            ELSE IF 1 < k /\ k <= n THEN k - 1 ELSE NULL
      BY <1>1, PeersAssumption DEF ListOf, HEAD
    <3>2. l.to[HEAD] = IF n = 1 THEN NULL ELSE n - 1
      BY <1>2, <2>1
    <3>3. CASE k = HEAD
      BY <2>2, <3>1, <3>3
    <3>4. CASE k # HEAD /\ k = n
      <4>1. to[k] = l.to[HEAD]
        BY <2>2, <3>4
      <4>2. ListOf(n).to[k] = IF 1 < n THEN n - 1 ELSE NULL
        BY <3>1, <3>4, PeersAssumption
      <4> QED
        BY <3>2, <4>1, <4>2, PeersAssumption
    <3>5. CASE k # HEAD /\ k # n
      <4>1. to[k] = l.to[k]
        BY <2>2, <3>5
      <4>2. l.to[k] = IF 1 < k /\ k <= n - 1 THEN k - 1 ELSE NULL
        BY <1>2, <3>5
      <4>3. k \in Int /\ (k <= n <=> k <= n - 1)
        BY <3>5, PeersAssumption DEF Link, Peer, HEAD
      <4> QED
        BY <3>1, <3>5, <4>1, <4>2, <4>3
    <3> QED
      BY <3>3, <3>4, <3>5
  <2>5. to = ListOf(n).to
    BY <2>2, <2>3, <2>4
  <2> QED
    BY <2>5 DEF to
<1>4. [q \in Peer |-> IF q = n THEN HEAD ELSE IF q = l.to[HEAD] THEN n ELSE l.prec[q]]
        = ListOf(n).prec
  <2>1. l.to[HEAD] = IF n = 1 THEN NULL ELSE n - 1
    BY <1>2 DEF Link
  <2> QED
    BY <1>1, <1>2, <2>1 DEF ListOf, Peer, HEAD
<1> QED
  BY <1>3, <1>4 DEF Appended, ListOf, l

\* The recursive function of Built is the only one that satisfies its equation.
LEMMA BuiltIsList ==
  ASSUME NEW count \in 0 .. MaxPeers
  PROVE  Built(count) = ListOf(count)
<1> DEFINE Grows(f) ==
      f = [k \in 0 .. count |-> IF k = 0 THEN EmptyList ELSE Appended(f[k - 1], k)]
<1> DEFINE built == CHOOSE f : Grows(f)
<1>1. Grows([k \in 0 .. count |-> ListOf(k)])
  <2> DEFINE g == [k \in 0 .. count |-> ListOf(k)]
  <2>1. \A k \in 0 .. count : k # 0 => k \in 1 .. MaxPeers /\ g[k - 1] = ListOf(k - 1)
    BY PeersAssumption
  <2> HIDE DEF g
  <2>2. \A k \in 0 .. count :
          ListOf(k) = IF k = 0 THEN EmptyList ELSE Appended(g[k - 1], k)
    BY <2>1, ListOfNone, ListOfMore
  <2> QED
    BY <2>2 DEF g
<1>2. Grows(built)
  BY <1>1, Zenon
<1> DEFINE S == {k \in Nat : k <= count => built[k] = ListOf(k)}
<1> HIDE DEF built
<1>3. 0 \in S
  BY <1>2, ListOfNone
<1>4. ASSUME NEW k \in S PROVE k + 1 \in S
  <2> SUFFICES ASSUME k + 1 <= count PROVE built[k + 1] = ListOf(k + 1)
    OBVIOUS
  <2>1. built[k] = ListOf(k) /\ k + 1 \in 1 .. MaxPeers
    BY PeersAssumption
  <2>2. built[k + 1] = Appended(built[k], k + 1)
    BY <1>2
  <2> QED
    BY <2>1, <2>2, ListOfMore
<1>5. S = Nat
  <2> HIDE DEF S
  <2> QED
    BY <1>3, <1>4, SetInduction DEF S
<1>6. built[count] = ListOf(count)
  BY <1>5, PeersAssumption
<1> QED
  BY <1>6, Zenon DEF built, Built

\* Walking along `next' meets the peers from the last appended to the first.
LEMMA NthOfList ==
  ASSUME NEW n \in 0 .. MaxPeers
  PROVE  \A k \in 1 .. MaxPeers : Nth(ListOf(n))[k] = IF k <= n THEN n + 1 - k ELSE NULL
<1> DEFINE to == ListOf(n).to
<1> DEFINE Follows(f) ==
      f = [k \in 1 .. MaxPeers |->
             IF k = 1 THEN to[HEAD] ELSE IF f[k - 1] = NULL THEN NULL ELSE to[f[k - 1]]]
<1> DEFINE nth == CHOOSE f : Follows(f)
<1> DEFINE place(k) == IF k <= n THEN n + 1 - k ELSE NULL
<1>1. /\ to[HEAD] = IF n = 0 THEN NULL ELSE n
      /\ \A p \in Peer : to[p] = IF 1 < p /\ p <= n THEN p - 1 ELSE NULL
      /\ NULL \notin Peer
  BY PeersAssumption DEF ListOf, Link, Peer, HEAD
<1> HIDE DEF to
<1>2. \A k \in 1 .. MaxPeers :
        place(k) = IF k = 1 THEN to[HEAD]
                   ELSE IF place(k - 1) = NULL THEN NULL ELSE to[place(k - 1)]
  BY <1>1, PeersAssumption DEF Peer
<1> HIDE DEF place
<1>3. Follows([k \in 1 .. MaxPeers |-> place(k)])
  <2> DEFINE g == [k \in 1 .. MaxPeers |-> place(k)]
  <2>1. \A k \in 1 .. MaxPeers : k # 1 => g[k - 1] = place(k - 1)
    BY PeersAssumption
  <2> HIDE DEF g
  <2> QED
    BY <1>2, <2>1 DEF g
<1>4. Follows(nth)
  BY <1>3, Zenon
<1> DEFINE S == {k \in Nat : k + 1 <= MaxPeers => nth[k + 1] = place(k + 1)}
<1> HIDE DEF nth
<1>5. 0 \in S
  BY <1>2, <1>4
<1>6. ASSUME NEW k \in S PROVE k + 1 \in S
  <2> SUFFICES ASSUME (k + 1) + 1 <= MaxPeers PROVE nth[(k + 1) + 1] = place((k + 1) + 1)
    OBVIOUS
  <2>1. nth[k + 1] = place(k + 1)
    BY PeersAssumption
  <2> DEFINE j == (k + 1) + 1
  <2>2. j \in 1 .. MaxPeers /\ j - 1 = k + 1 /\ j # 1
    BY PeersAssumption
  <2> HIDE DEF S, j
  <2>3. nth[j] = IF nth[j - 1] = NULL THEN NULL ELSE to[nth[j - 1]]
    BY <1>4, <2>2
  <2>4. place(j) = IF place(j - 1) = NULL THEN NULL ELSE to[place(j - 1)]
    BY <1>2, <2>2
  <2>5. nth[j] = place(j)
    BY <2>1, <2>2, <2>3, <2>4
  <2> QED
    BY <2>5 DEF j
<1>7. S = Nat
  <2> HIDE DEF S
  <2> QED
    BY <1>5, <1>6, SetInduction DEF S
<1>8. ASSUME NEW k \in 1 .. MaxPeers PROVE nth[k] = place(k)
  <2>1. k - 1 \in Nat /\ (k - 1) + 1 = k /\ k <= MaxPeers
    BY PeersAssumption
  <2>2. k - 1 \in Nat => (k - 1 \in S)
    BY <1>7
  <2> QED
    BY <2>1, <2>2
<1>9. Nth(ListOf(n)) = nth
  BY Zenon DEF nth, to, Nth
<1> QED
  BY <1>8, <1>9 DEF place

LEMMA WalkedOfList ==
  ASSUME NEW n \in 0 .. MaxPeers
  PROVE  Walked(ListOf(n)) = 1 .. n
<1>1. \A k \in 1 .. MaxPeers : Nth(ListOf(n))[k] = IF k <= n THEN n + 1 - k ELSE NULL
  BY NthOfList
<1>2. \A p \in 1 .. n : n + 1 - p \in 1 .. MaxPeers /\ n + 1 - (n + 1 - p) = p
  BY PeersAssumption
<1>3. NULL \notin 1 .. n
  BY PeersAssumption DEF Peer
<1> QED
  BY <1>1, <1>2, <1>3, PeersAssumption DEF Walked

-----------------------------------------------------------------------------
(* What event_loop and main leave of a torrent *)

\* The list is the one of the first n peers, each with its one reference.
ListOfPeers(n) ==
  /\ list = ListOf(n)
  /\ refs = [p \in Peer |-> IF p <= n THEN 1 ELSE 0]

ListKept == \E n \in 0 .. MaxPeers : ListOfPeers(n)

\* A slot points at a peer exactly while it is active.
PeersKept ==
  /\ connPeer \in [Slot -> Peer \cup {NULL}]
  /\ \A c \in Slot : IF c \in active THEN connPeer[c] \in Peer ELSE connPeer[c] = NULL
  /\ failed \subseteq Peer

ProgressTyped ==
  /\ phase \in {"create", "announce", "poller", "slots", "poll", "free", "exit", "crashed"}
  /\ cur \in Slot
  /\ torrent \in 1 .. NbTorrents + 1
  /\ phase # "exit" => torrent <= NbTorrents

FlagsTyped ==
  /\ running \in BOOLEAN
  /\ hung \in BOOLEAN
  /\ mode \in {"TORRENT_MODE", "METAINFO_PRINT", "DUMP_PEERS"}
  /\ handler \in BOOLEAN

\* Before torrent_create no peer is allocated.
NoneAllocated == phase = "create" => \A p \in Peer : refs[p] = 0

\* The inductive invariant, beside Held.
Kept == ListKept /\ PeersKept /\ ProgressTyped /\ FlagsTyped /\ NoneAllocated

-----------------------------------------------------------------------------

LEMMA InitKept == Init => Kept
<1> SUFFICES ASSUME Init PROVE Kept
  OBVIOUS
<1>1. ListOfPeers(0) /\ 0 \in 0 .. MaxPeers
  BY ListOfNone, PeersAssumption DEF Init, ListInit, ListOfPeers, Peer
<1>2. PeersKept
  BY DEF Init, SocketsInit, PeersKept
<1>3. ProgressTyped
  BY SocketsAssumption, SessionAssumption DEF Init, SocketsInit, ProgressTyped, Slot
<1>4. FlagsTyped
  BY DEF Init, SocketsInit, FlagsTyped
<1>5. NoneAllocated
  BY DEF Init, ListInit, NoneAllocated
<1> QED
  BY <1>1, <1>2, <1>3, <1>4, <1>5 DEF Kept, ListKept

\* Every step keeps the list, builds one or destroys one.
LEMMA StepListKept ==
  ASSUME Kept, [Next]_vars
  PROVE  ListKept' /\ NoneAllocated'
<1>1. CASE UNCHANGED listVars /\ (phase' = "create" => phase = "create")
  <2>1. ListKept'
    BY <1>1 DEF Kept, ListKept, ListOfPeers, listVars
  <2>2. NoneAllocated'
    BY <1>1 DEF Kept, NoneAllocated, listVars
  <2> QED
    BY <2>1, <2>2
<1>2. CASE Announce
  <2>1. PICK bytes \in Answers : PeerlistInit(bytes)
    BY <1>2 DEF Announce
  <2>2. NbPeers(bytes) \in 0 .. MaxPeers
    BY SessionAssumption, PeersAssumption DEF NbPeers
  <2>3. ListOfPeers(NbPeers(bytes))'
    BY <2>1, <2>2, BuiltIsList DEF PeerlistInit, NewCount, ListOfPeers
  <2>4. NoneAllocated'
    BY <1>2 DEF Announce, Goto, NoneAllocated
  <2> QED
    BY <2>2, <2>3, <2>4 DEF ListKept
<1>3. CASE TorrentFree
  <2>1. PICK n \in 0 .. MaxPeers : ListOfPeers(n)
    BY DEF Kept, ListKept
  <2>2. Walked(list) = 1 .. n
    BY <2>1, WalkedOfList DEF ListOfPeers
  <2>3. list' = EmptyList /\ refs' = [p \in Peer |-> 0]
    BY <1>3, <2>1, <2>2, PeersAssumption DEF TorrentFree, PeerlistDestroy, ListOfPeers, Peer
  <2>4. ListOfPeers(0)' /\ 0 \in 0 .. MaxPeers
    BY <2>3, ListOfNone, PeersAssumption DEF ListOfPeers, Peer
  <2> QED
    BY <2>3, <2>4 DEF ListKept, NoneAllocated
<1>4. CASE \/ TorrentCreate \/ TorrentRefused \/ NoAnnouncement \/ AnnounceWithoutPeers
           \/ PollerFails \/ Sigint \/ UNCHANGED vars
  BY <1>1, <1>4 DEF TorrentCreate, TorrentRefused, NoAnnouncement, AnnounceWithoutPeers,
     PollerFails, Sigint, Goto, vars, socketVars
<1>5. CASE EventLoop
  <2>1. CASE PollerInit \/ Break \/ PollerUpdate \/ LoopExit
    BY <1>1, <2>1 DEF PollerInit, Break, PollerUpdate, LoopExit
  <2>2. ASSUME NEW c \in Slot, NoPeer(c) \/ Connect(c) \/ ConnectFails(c) \/ Trade(c) \/ TradeFails(c)
        PROVE  UNCHANGED listVars /\ (phase' = "create" => phase = "create")
    BY <2>2 DEF NoPeer, Connect, ConnectFails, Trade, TradeFails, NextSlot
  <2> QED
    BY <1>1, <1>5, <2>1, <2>2 DEF EventLoop
<1> QED
  BY <1>2, <1>3, <1>4, <1>5 DEF Next, Main, Terminated

LEMMA ClosePeersKept ==
  ASSUME Held, Kept, NEW S \in SUBSET Slot, CloseSlots(S)
  PROVE  PeersKept'
<1>1. \A c \in S \cap active : connPeer[c] \in Peer
  BY DEF Kept, PeersKept
<1> QED
  BY <1>1 DEF CloseSlots, Kept, PeersKept

LEMMA StepPeersKept ==
  ASSUME Held, Kept, [Next]_vars
  PROVE  PeersKept'
<1>1. CASE UNCHANGED <<active, connPeer>> /\ (failed' = failed \/ failed' = {})
  BY <1>1 DEF Kept, PeersKept
<1>2. CASE \/ TorrentCreate \/ TorrentRefused \/ NoAnnouncement \/ AnnounceWithoutPeers
           \/ Announce \/ PollerFails \/ TorrentFree \/ Sigint \/ UNCHANGED vars
  BY <1>1, <1>2 DEF TorrentCreate, TorrentRefused, NoAnnouncement, AnnounceWithoutPeers,
     Announce, PollerFails, TorrentFree, Sigint, vars, socketVars, slotVars
<1>3. CASE PollerInit \/ Break \/ PollerUpdate
  BY <1>1, <1>3 DEF PollerInit, Break, PollerUpdate, slotVars
<1>4. CASE LoopExit
  BY <1>4, ClosePeersKept DEF LoopExit
<1>5. ASSUME NEW c \in Slot, NoPeer(c) \/ Connect(c) \/ ConnectFails(c) \/ Trade(c) \/ TradeFails(c)
      PROVE  PeersKept'
  <2>1. CASE NoPeer(c) \/ Trade(c)
    BY <1>1, <2>1 DEF NoPeer, Trade, slotVars
  <2>2. CASE Connect(c)
    <3>1. PICK p \in Peer : connPeer' = [connPeer EXCEPT ![c] = p]
      BY <2>2 DEF Connect
    <3>2. active' = active \cup {c} /\ failed' = failed
      BY <2>2 DEF Connect
    <3> QED
      BY <3>1, <3>2 DEF Kept, PeersKept
  <2>3. CASE ConnectFails(c)
    BY <2>3 DEF ConnectFails, Kept, PeersKept
  <2>4. CASE TradeFails(c)
    BY <2>4, ClosePeersKept DEF TradeFails
  <2> QED
    BY <1>5, <2>1, <2>2, <2>3, <2>4
<1> QED
  BY <1>2, <1>3, <1>4, <1>5 DEF Next, Main, Terminated, EventLoop

LEMMA NextSlotTyped ==
  ASSUME cur \in Slot, NextSlot
  PROVE  cur' \in Slot /\ phase' \in {phase, "poll"}
BY SocketsAssumption DEF NextSlot, Slot

LEMMA StepProgressTyped ==
  ASSUME Kept, [Next]_vars
  PROVE  ProgressTyped'
<1>1. CASE \/ TorrentCreate \/ TorrentRefused \/ NoAnnouncement \/ AnnounceWithoutPeers
           \/ Announce \/ PollerFails \/ Sigint \/ UNCHANGED vars
  BY <1>1 DEF TorrentCreate, TorrentRefused, NoAnnouncement, AnnounceWithoutPeers, Announce,
     PollerFails, Sigint, Goto, sessionVars, vars, socketVars, Kept, ProgressTyped
<1>2. CASE TorrentFree
  BY <1>2, SessionAssumption DEF TorrentFree, Goto, Kept, ProgressTyped
<1>3. ASSUME EventLoop, UNCHANGED sessionVars
      PROVE  ProgressTyped'
  <2>1. 1 \in Slot
    BY SocketsAssumption DEF Slot
  <2>2. CASE PollerInit \/ Break \/ PollerUpdate \/ LoopExit
    BY <1>3, <2>1, <2>2 DEF PollerInit, Break, PollerUpdate, LoopExit, sessionVars,
       Kept, ProgressTyped
  <2>3. ASSUME NEW c \in Slot, NoPeer(c) \/ Connect(c) \/ ConnectFails(c) \/ Trade(c) \/ TradeFails(c)
        PROVE  ProgressTyped'
    <3>1. phase = "slots" /\ NextSlot
      BY <2>3 DEF NoPeer, Connect, ConnectFails, Trade, TradeFails, Turn
    <3>2. cur' \in Slot /\ phase' \in {phase, "poll"}
      BY <3>1, NextSlotTyped DEF Kept, ProgressTyped
    <3> QED
      BY <1>3, <3>1, <3>2 DEF sessionVars, Kept, ProgressTyped
  <2> QED
    BY <1>3, <2>2, <2>3 DEF EventLoop
<1> QED
  BY <1>1, <1>2, <1>3 DEF Next, Main, Terminated

LEMMA StepFlagsTyped ==
  ASSUME Kept, [Next]_vars
  PROVE  FlagsTyped'
<1>1. CASE UNCHANGED <<running, hung, mode, handler>>
  BY <1>1 DEF Kept, FlagsTyped
<1>2. CASE \/ TorrentCreate \/ TorrentRefused \/ NoAnnouncement \/ AnnounceWithoutPeers
           \/ PollerFails \/ TorrentFree \/ UNCHANGED vars
  BY <1>1, <1>2 DEF TorrentCreate, TorrentRefused, NoAnnouncement, AnnounceWithoutPeers,
     PollerFails, TorrentFree, sessionVars, vars, socketVars
<1>3. CASE Announce
  BY <1>3, Zenon DEF Announce, Kept, FlagsTyped
<1>4. CASE Sigint
  BY <1>4 DEF Sigint, sessionVars, Kept, FlagsTyped
<1>5. ASSUME EventLoop, UNCHANGED sessionVars
      PROVE  FlagsTyped'
  <2>1. CASE PollerInit
    BY <1>5, <2>1 DEF PollerInit, sessionVars, Kept, FlagsTyped
  <2>2. CASE PollerUpdate
    BY <1>5, <2>2 DEF PollerUpdate, sessionVars, Kept, FlagsTyped
  <2>3. CASE Break \/ LoopExit
    BY <1>1, <1>5, <2>3 DEF Break, LoopExit, sessionVars
  <2>4. ASSUME NEW c \in Slot, NoPeer(c) \/ Connect(c) \/ ConnectFails(c) \/ Trade(c) \/ TradeFails(c)
        PROVE  UNCHANGED <<running, hung, mode, handler>>
    BY <1>5, <2>4 DEF NoPeer, Connect, ConnectFails, Trade, TradeFails, sessionVars
  <2> QED
    BY <1>1, <1>5, <2>1, <2>2, <2>3, <2>4 DEF EventLoop
<1> QED
  BY <1>1, <1>2, <1>3, <1>4, <1>5 DEF Next, Main, Terminated

LEMMA KeptAlways == Spec => [](Held /\ Kept)
<1>1. Held /\ Kept /\ [Next]_vars => Kept'
  BY StepListKept, StepPeersKept, StepProgressTyped, StepFlagsTyped DEF Kept
<1> QED
  BY <1>1, InitHeld, StepHeld, InitKept, PTL DEF Spec

-----------------------------------------------------------------------------

\* The types, and with them that no reference count goes below zero (the assertion
\* of rcount_deref): peerlist_destroy gives back what peerlist_init took.
THEOREM TypeCorrect == Spec => []TypeOK
<1>1. Held /\ Kept => TypeOK
  <2> SUFFICES ASSUME Held, Kept PROVE TypeOK
    OBVIOUS
  <2>1. PICK n \in 0 .. MaxPeers : ListOfPeers(n)
    BY DEF Kept, ListKept
  <2>2. list \in [to : [Link -> Peer \cup {NULL}], prec : [Peer -> Link \cup {NULL}]]
    <3>1. ListOf(n).to \in [Link -> Peer \cup {NULL}]
      BY PeersAssumption DEF ListOf, Link, Peer, HEAD
    <3>2. ListOf(n).prec \in [Peer -> Link \cup {NULL}]
      BY PeersAssumption DEF ListOf, Link, Peer, HEAD
    <3>3. ListOf(n) = [to |-> ListOf(n).to, prec |-> ListOf(n).prec]
      BY DEF ListOf
    <3> QED
      BY <2>1, <3>1, <3>2, <3>3 DEF ListOfPeers
  <2>3. refs \in [Peer -> Nat]
    BY <2>1 DEF ListOfPeers
  <2> QED
    BY <2>2, <2>3 DEF TypeOK, Held, SocketsTyped, Kept, PeersKept, ProgressTyped, FlagsTyped
<1> QED
  BY <1>1, KeptAlways, PTL

\* The list holds every allocated peer once, in the reverse of the tracker's order,
\* and the link each remembers leads to it (peerlist_append), however long it is.
THEOREM ListAlwaysLinked == Spec => []ListLinked
<1>1. Kept => ListLinked
  <2> SUFFICES ASSUME Kept PROVE ListLinked
    OBVIOUS
  <2>1. PICK n \in 0 .. MaxPeers : ListOfPeers(n)
    BY DEF Kept, ListKept
  <2>2. {p \in Peer : refs[p] > 0} = 1 .. n
    BY <2>1, PeersAssumption DEF ListOfPeers, Peer
  <2>3. Cardinality(1 .. n) = n
    BY FS_Interval, PeersAssumption
  <2>4. \A k \in 1 .. MaxPeers : Nth(list)[k] = IF k <= n THEN n + 1 - k ELSE NULL
    BY <2>1, NthOfList DEF ListOfPeers
  <2>5. \A p \in 1 .. n : ListOf(n).to[ListOf(n).prec[p]] = p
    BY PeersAssumption DEF ListOf, Link, Peer, HEAD
  <2>6. \A p \in Walked(list) : list.to[list.prec[p]] = p
    BY <2>1, <2>5, WalkedOfList DEF ListOfPeers
  <2> QED
    BY <2>2, <2>3, <2>4, <2>6 DEF ListLinked
<1> QED
  BY <1>1, KeptAlways, PTL

\* Nothing of a torrent is left when the next one begins: torrent_free has freed
\* every peer, and event_loop has given back every slot and connection.
THEOREM CleanStart == Spec => []StartsClean
<1>1. Held /\ Kept => StartsClean
  <2> SUFFICES ASSUME Held, Kept, phase = "create" PROVE StartsClean
    BY DEF StartsClean
  <2>1. active = {}
    BY DEF Held, Inactive
  <2>2. \A f \in Fd : file[f] \notin Slot
    BY <2>1 DEF Held, ConnectionsHeld
  <2>3. \A c \in Slot : connPeer[c] = NULL
    BY <2>1 DEF Kept, PeersKept
  <2> QED
    BY <2>2, <2>3 DEF StartsClean, Kept, NoneAllocated
<1> QED
  BY <1>1, KeptAlways, PTL
=============================================================================
