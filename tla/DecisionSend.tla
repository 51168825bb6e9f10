---------------------------- MODULE DecisionSend ----------------------------
(***************************************************************************)
(* The sending half of a slot: select_piece of decision.c, decision_send   *)
(* and its helpers, and the out_trans half of peer_conn_trade.  The        *)
(* callback of every send is decision_send, and transmit calls it again in *)
(* every iteration in which nothing is left to send.                       *)
(***************************************************************************)
EXTENDS PeerConn

\* Faulty variants of definitions below.
HasNoUnclaimed == \A p \in Piece : pieces[p] # "MISSING"
HasNoMissingNever == FALSE  \* has_missing begins as true
CandidatesFetched(q) == {p \in bits[q] : pieces[p] # "AVAILABLE"}
UpdateInterestSilent(c) == Out("none")
RequestedForgotten(c) == {}
MissingOffByOne(c) == (0 .. BlockCount[receiving[c]]) \ conn[c].blocks

-----------------------------------------------------------------------------

\* The condition under which select_piece declares the torrent complete.
HasNoMissing == \A p \in Piece : pieces[p] = "AVAILABLE"

Candidates(q) == {p \in bits[q] : pieces[p] = "MISSING"}

Rarity(p) == Cardinality({q \in Peer : p \in bits[q]})

\* select_piece: the candidate fewest peers have, the first one among equals.
Selects(q, p) ==
  /\ p \in Candidates(q)
  /\ \A r \in Candidates(q) :
       \/ Rarity(p) < Rarity(r)
       \/ Rarity(p) = Rarity(r) /\ p <= r

\* update_interest has a message to send only if the interest is a new one.
UpdateInterest(c) ==
  IF conn[c].interested THEN Out("none") ELSE Out("interested")

\* setup_piece: slot c takes piece p.
SetupPiece(c, p) ==
  /\ receiving[c] = NULL
  /\ Selects(connPeer[c], p)
  /\ receiving' = [receiving EXCEPT ![c] = p]
  /\ pieces' = [pieces EXCEPT ![p] = "FETCHING"]
  /\ conn' = [conn EXCEPT ![c] = [@ EXCEPT
                !.block = 0, !.blocks = {}, !.req_blocks = {},
                !.ask_blocks = TRUE, !.interested = TRUE,
                !.out = UpdateInterest(c)]]
  /\ UNCHANGED state

\* select_piece finds nothing this peer could send.
NothingToFetch(c) ==
  /\ receiving[c] = NULL
  /\ Candidates(connPeer[c]) = {}
  /\ state' = IF HasNoMissing THEN "T_COMPLETE" ELSE state
  /\ conn' = [conn EXCEPT ![c] = [@ EXCEPT !.block = 0, !.out = Out("none")]]
  /\ UNCHANGED <<pieces, receiving>>

-----------------------------------------------------------------------------

TimedOut(c) == conn[c].age >= RequestTimeout

\* decision_send looks at the blocks of the current piece.
AsksBlocks(c) ==
  /\ receiving[c] # NULL
  /\ ~conn[c].choking
  /\ conn[c].ask_blocks \/ TimedOut(c)

\* req_blocks, once a time-out has cleared it.
Requested(c) == IF TimedOut(c) THEN {} ELSE conn[c].req_blocks

MissingBlocks(c) == Block(receiving[c]) \ conn[c].blocks

FreshBlocks(c) == MissingBlocks(c) \ Requested(c)

\* The requests that fit in out_buf: the first RequestsMax fresh blocks.
Batch(c) ==
  {b \in FreshBlocks(c) :
     Cardinality({a \in FreshBlocks(c) : a < b}) < RequestsMax}

\* send_block_requests finds something to ask for.
SendBlockRequests(c) ==
  /\ AsksBlocks(c)
  /\ FreshBlocks(c) # {}
  /\ conn' = [conn EXCEPT ![c] = [@ EXCEPT
                !.req_blocks = Requested(c) \cup Batch(c),
                !.ask_blocks = FALSE, !.age = 0,
                !.out = [type |-> "request", reqs |-> {receiving[c]} \X Batch(c)]]]
  /\ UNCHANGED <<state, pieces, receiving>>

\* Everything missing has been asked for: waiting can help.
AwaitBlocks(c) ==
  /\ AsksBlocks(c)
  /\ FreshBlocks(c) = {}
  /\ MissingBlocks(c) # {}
  /\ conn' = [conn EXCEPT ![c].out = Out("none")]
  /\ UNCHANGED <<state, pieces, receiving>>

\* Nothing is missing.  piece_check runs, but its verdict is only logged.
FinishPiece(c) ==
  /\ AsksBlocks(c)
  /\ MissingBlocks(c) = {}
  /\ pieces' = [pieces EXCEPT ![receiving[c]] = "AVAILABLE"]
  /\ receiving' = [receiving EXCEPT ![c] = NULL]
  /\ conn' = [conn EXCEPT ![c] = [@ EXCEPT !.req_blocks = Requested(c),
                                           !.block = 0, !.out = Out("none")]]
  /\ UNCHANGED state

\* Nothing to decide.
Idle(c) ==
  /\ state # "T_RUNNING" \/ (receiving[c] # NULL /\ ~AsksBlocks(c))
  /\ conn' = [conn EXCEPT ![c].out = Out("none")]
  /\ UNCHANGED <<state, pieces, receiving>>

Decide(c) ==
  \/ /\ state = "T_RUNNING"
     /\ \/ \E p \in Piece : SetupPiece(c, p)
        \/ NothingToFetch(c)
        \/ SendBlockRequests(c)
        \/ AwaitBlocks(c)
        \/ FinishPiece(c)
  \/ Idle(c)

-----------------------------------------------------------------------------

\* What the other end learns when out_trans has been sent completely, and heeds of
\* the requests in it.
Delivered(c, heeded) ==
  LET asked(r) == IF remote[c].owed[r] < MaxOwed THEN remote[c].owed[r] + 1
                                                 ELSE MaxOwed
  IN [owed |-> [r \in Request |-> IF r \in heeded THEN asked(r)
                                                  ELSE remote[c].owed[r]],
      told |-> remote[c].told \/ conn[c].out.type = "interested"]

\* A peer that chokes us may ignore the requests that come.  What is sent on the
\* connection of another slot reaches the peer of that one.
Reaches(c) ==
  IF Private(c)
  THEN \E heeded \in {conn[c].out.reqs} \cup (IF conn[c].choking THEN {{}} ELSE {}) :
         remote' = [remote EXCEPT ![c] = Delivered(c, heeded)]
  ELSE UNCHANGED remote

SendTurn(c) == Turn(c, "out") /\ NextSlot /\ UNCHANGED running

\* The slot was closed by its in_trans, or the socket takes no more bytes.
SkipSend(c) ==
  /\ SendTurn(c)
  /\ c \notin active \/ conn[c].out.type # "none"
  /\ UNCHANGED <<torrentVars, linkVars, bits, receiving, conn, remote>>

\* send fails: the peer is gone, the number has been closed, or the connection it
\* stands for now is broken.
SendFails(c) ==
  /\ SendTurn(c)
  /\ c \in active
  /\ conn[c].out.type # "none"
  /\ MayOccur(c, "disconnect")
  /\ Close(c)

\* The last byte is sent, or there was none to send: decision_send runs.
Send(c) ==
  /\ SendTurn(c)
  /\ c \in active
  /\ conn[c].out.type = "none" \/ Open(c)
  /\ Reaches(c)
  /\ Decide(c)
  /\ UNCHANGED <<disk, bits, linkVars>>

HandleOut(c) == SkipSend(c) \/ SendFails(c) \/ Send(c)
=============================================================================
