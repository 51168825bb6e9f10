----------------------------- MODULE MCEventLoop -----------------------------
(***************************************************************************)
(* Values of the constants of EventLoop for TLC.                           *)
(***************************************************************************)
EXTENDS EventLoop

\* Two pieces, the last one shorter, as the last piece of a torrent is.
MCBlockCount == [p \in Piece |-> IF p = 0 THEN 2 ELSE 1]

\* The first piece takes two batches of two requests.
MCLongBlockCount == [p \in Piece |-> IF p = 0 THEN 3 ELSE 1]

\* Pieces of one block, where other things are what multiplies the states.
MCOneBlock == [p \in Piece |-> 1]

\* Seeders only.
MCContentAll == [q \in Peer |-> Piece]

\* Every peer has all pieces but one.
MCContentSplit == [q \in Peer |-> {p \in Piece : p # q % NbPieces}]
=============================================================================
