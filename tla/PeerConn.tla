------------------------------ MODULE PeerConn ------------------------------
(***************************************************************************)
(* The life cycle of a slot: peer_conn_init, peer_conn_close and           *)
(* peer_conn_clear of peer_conn.c, with the connect of peer.c.             *)
(***************************************************************************)
EXTENDS TorrentState

\* Faulty variants of Released and Eligible.
ReleasedKeepsPiece(S) == pieces
EligibleConnected == {q \in Peer : q \notin failed}

-----------------------------------------------------------------------------

\* The piece states after peer_conn_clear ran on the slots of S.
Released(S) ==
  [p \in Piece |-> IF \E c \in S : receiving[c] = p THEN "MISSING" ELSE pieces[p]]

\* close of the numbers in nums: whatever they stand for.
Closed(nums) == [f \in Fd |-> IF f \in nums THEN NULL ELSE file[f]]

\* Nothing is owed on the connections of the slots of S any more.
Gone(S) == [c \in Slot |-> IF c \in S THEN FreshRemote ELSE remote[c]]

\* peer_conn_close of every slot of S: the peers are charged with a failure, the
\* pieces being fetched are given back, the numbers are closed and the slots are
\* zeroed.  A number may be that of the connection of another slot, which loses it
\* with can_recv set or clear, and is not told.
CloseSlots(S) ==
  LET gone == {connPeer[c] : c \in S} \ {NULL}
      nums == {fd[c] : c \in S}
      robbed == {d \in Slot \ S : Linked(d) /\ fd[d] \in nums}
  IN
  /\ pieces' = Released(S)
  /\ failed' = failed \cup gone
  /\ peerConn' = [q \in Peer |-> IF q \in gone THEN NULL ELSE peerConn[q]]
  /\ active' = active \ S
  /\ connPeer' = [c \in Slot |-> IF c \in S THEN NULL ELSE connPeer[c]]
  /\ fd' = [c \in Slot |-> IF c \in S THEN NULL ELSE fd[c]]
  /\ file' = Closed(nums)
  /\ \E D \in SUBSET robbed : deaf' = (deaf \ S) \cup D
  /\ receiving' = [c \in Slot |-> IF c \in S THEN NULL ELSE receiving[c]]
  /\ conn' = [c \in Slot |-> IF c \in S THEN ClearedConn ELSE conn[c]]
  /\ remote' = Gone(S \cup robbed)

Close(c) == CloseSlots({c}) /\ UNCHANGED <<state, disk, bits>>

-----------------------------------------------------------------------------

\* The peers peer_conn_init may pick: not connected, never failed.
Eligible == {q \in Peer : peerConn[q] = NULL /\ q \notin failed}

\* socket takes the lowest free number.
Lowest(f) == file[f] = NULL /\ \A g \in Fd : file[g] = NULL => f <= g

\* The connection succeeds: handshake_send and handshake_receive set up both
\* transmissions.
Connect(c, q) ==
  /\ \E f \in Fd :
       /\ Lowest(f)
       /\ fd' = [fd EXCEPT ![c] = f]
       /\ file' = [file EXCEPT ![f] = c]
  /\ peerConn' = [peerConn EXCEPT ![q] = c]
  /\ connPeer' = [connPeer EXCEPT ![c] = q]
  /\ active' = active \cup {c}
  /\ conn' = [conn EXCEPT ![c] = [ClearedConn EXCEPT !.in = In("handshake"),
                                                    !.out = Out("handshake")]]
  /\ remote' = [remote EXCEPT ![c] = FreshRemote]
  /\ UNCHANGED <<failed, deaf>>

\* connect fails or its select times out.
Refuse(q) ==
  /\ "refuse" \in Faults
  /\ failed' = failed \cup {q}
  /\ UNCHANGED <<peerConn, connPeer, active, fdVars, conn, remote>>

\* peer_conn_init: the first eligible peer of the list, if there is one.
\* The peer_conn_clear it starts with finds the slot clear already.
PeerConnInit(c) ==
  /\ Turn(c, "slot")
  /\ running
  /\ c \notin active
  /\ \/ /\ Eligible = {}
        /\ UNCHANGED <<linkVars, conn, remote>>
     \/ \E q \in Eligible :
          /\ \A r \in Eligible : q <= r
          /\ Connect(c, q) \/ Refuse(q)
  /\ NextSlot
  /\ UNCHANGED <<torrentVars, bits, receiving, running>>
=============================================================================
