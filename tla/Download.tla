------------------------------ MODULE Download ------------------------------
(***************************************************************************)
(* What a leech promises, without connections or messages: workers claim   *)
(* pieces nobody else works on, and either acquire the piece they claimed  *)
(* or abandon it.  Acquired pieces stay, and the download is complete only *)
(* when all of them are.  EventLoop implements this module.                *)
(***************************************************************************)
CONSTANTS
  Worker,  \* the slots of event_loop
  Piece,   \* the pieces of the torrent
  None     \* no piece

VARIABLES
  acquired,  \* the pieces in state PIECE_AVAILABLE
  claim,     \* the piece each worker is at, or None
  complete   \* T_COMPLETE was reached

vars == <<acquired, claim, complete>>

TypeOK ==
  /\ acquired \subseteq Piece
  /\ claim \in [Worker -> Piece \cup {None}]
  /\ complete \in BOOLEAN

\* A download may resume one that was interrupted.
Init ==
  /\ acquired \in SUBSET Piece
  /\ claim = [w \in Worker |-> None]
  /\ complete = FALSE

Claimed == {p \in Piece : \E w \in Worker : claim[w] = p}

\* The pieces left to claim.
Open == Piece \ (acquired \cup Claimed)

\* select_piece and setup_piece.
Claim(w, p) ==
  /\ claim[w] = None
  /\ p \in Open
  /\ claim' = [claim EXCEPT ![w] = p]
  /\ UNCHANGED <<acquired, complete>>

\* The last lines of decision_send.
Acquire(w) ==
  /\ claim[w] # None
  /\ acquired' = acquired \cup {claim[w]}
  /\ claim' = [claim EXCEPT ![w] = None]
  /\ UNCHANGED complete

\* peer_conn_close of the slots in W.
Abandon(W) ==
  /\ claim' = [w \in Worker |-> IF w \in W THEN None ELSE claim[w]]
  /\ UNCHANGED <<acquired, complete>>

\* select_piece finds no piece missing.
Finish ==
  /\ acquired = Piece
  /\ complete' = TRUE
  /\ UNCHANGED <<acquired, claim>>

Next ==
  \/ \E w \in Worker, p \in Piece : Claim(w, p)
  \/ \E w \in Worker : Acquire(w)
  \/ \E W \in SUBSET Worker : Abandon(W)
  \/ Finish

Spec == Init /\ [][Next]_vars
=============================================================================
