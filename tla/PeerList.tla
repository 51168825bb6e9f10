------------------------------ MODULE PeerList ------------------------------
(***************************************************************************)
(* The peer list of peerlist.c: a linked list whose elements also point at *)
(* the link that leads to them, with one reference each (rcount.c).        *)
(***************************************************************************)
EXTENDS Integers, FiniteSets

CONSTANTS
  MaxPeers,  \* bound on the length of a peer list
  NULL

Peer == 1 .. MaxPeers   \* in the order of the tracker's answer

ASSUME PeersAssumption == MaxPeers \in Nat /\ NULL \notin Peer \cup {0}

\* The links of a list: &peerlist->peers, and &peer->next of each peer.
HEAD == 0
Link == {HEAD} \cup Peer

VARIABLES
  list,  \* peerlist->peers, and next and prec of each peer
  refs   \* the count of each peer's rcount_meta, 0 when it is not allocated

listVars == <<list, refs>>

EmptyList == [to |-> [k \in Link |-> NULL], prec |-> [p \in Peer |-> NULL]]

ListInit == list = EmptyList /\ refs = [p \in Peer |-> 0]

\* Faulty variants of definitions below.
WalkedFromSecond(l) == {p \in Peer : \E q \in Peer : l.to[q] = p}
Uncounted == 0

-----------------------------------------------------------------------------

\* peer_create and peerlist_append: p becomes the first element.
Appended(l, p) ==
  [to |-> [l.to EXCEPT ![p] = l.to[HEAD], ![HEAD] = p],
   prec |-> [q \in Peer |-> IF q = p THEN HEAD
                            ELSE IF q = l.to[HEAD] THEN p ELSE l.prec[q]]]

\* The list after `count' appends.
Built(count) ==
  LET built[k \in 0 .. count] ==
        IF k = 0 THEN EmptyList ELSE Appended(built[k - 1], k)
  IN built[count]

\* The count rcount_malloc begins with.
NewCount == 1

\* The entries of 6 bytes in a string of `bytes' bytes; a rest is ignored.
NbPeers(bytes) == bytes \div 6

\* peerlist_init, of a string of `bytes' bytes.
PeerlistInit(bytes) ==
  /\ list' = Built(NbPeers(bytes))
  /\ refs' = [p \in Peer |-> IF p <= NbPeers(bytes) THEN NewCount ELSE 0]

\* The elements a walk along `next' meets, by their place in it.
Nth(l) ==
  LET nth[k \in 1 .. MaxPeers] ==
        IF k = 1 THEN l.to[HEAD]
        ELSE IF nth[k - 1] = NULL THEN NULL ELSE l.to[nth[k - 1]]
  IN nth

Walked(l) == {Nth(l)[k] : k \in 1 .. MaxPeers} \ {NULL}

\* peerlist_destroy: rcount_deref of every element.
PeerlistDestroy ==
  /\ list' = EmptyList
  /\ refs' = [p \in Peer |-> IF p \in Walked(list) THEN refs[p] - 1 ELSE refs[p]]

-----------------------------------------------------------------------------

\* Every peer that is allocated is in the list, once, the last of the answer
\* first, and the link it remembers leads to it (peerlist_append).
ListLinked ==
  LET count == Cardinality({p \in Peer : refs[p] > 0}) IN
  /\ \A k \in 1 .. MaxPeers :
       Nth(list)[k] = IF k <= count THEN count + 1 - k ELSE NULL
  /\ \A p \in Walked(list) : list.to[list.prec[p]] = p
=============================================================================
