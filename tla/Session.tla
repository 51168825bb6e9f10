------------------------------- MODULE Session -------------------------------
(***************************************************************************)
(* main of bittorrent.c after its options: torrent_mode, dump_peers_mode   *)
(* and metainfo_print over the torrents of the command line.  Each is      *)
(* created, announced to its tracker, given to event_loop and freed, all   *)
(* in one process: g_running and the descriptor table outlive a torrent.   *)
(***************************************************************************)
EXTENDS Sockets

CONSTANTS
  NbTorrents,  \* argc
  Answers      \* lengths of the peers string the tracker may answer with

ASSUME SessionAssumption ==
  /\ NbTorrents \in Nat \ {0}
  /\ Answers \subseteq Nat
  /\ \A bytes \in Answers : NbPeers(bytes) <= MaxPeers

VARIABLES
  mode,     \* g_btopts.btmode
  torrent,  \* the index in argv
  handler   \* whether the handler of SIGINT is registered

vars == <<socketVars, listVars, mode, torrent, handler>>
sessionVars == <<mode, torrent, handler>>

Init ==
  /\ ListInit
  /\ SocketsInit
  /\ phase = "create"
  /\ mode \in {"TORRENT_MODE", "METAINFO_PRINT", "DUMP_PEERS"}
  /\ torrent = 1
  /\ handler = FALSE

Goto(place) == phase' = place

-----------------------------------------------------------------------------

\* torrent_create.
TorrentCreate ==
  /\ phase = "create"
  /\ Goto(IF mode = "METAINFO_PRINT" THEN "free" ELSE "announce")
  /\ UNCHANGED <<file, slotVars, running, cur, hung, listVars, sessionVars>>

\* A file that cannot be used ends the program (errx), with the torrents to come.
TorrentRefused ==
  /\ phase = "create"
  /\ Goto("exit")
  /\ UNCHANGED <<file, slotVars, running, cur, hung, listVars, sessionVars>>

\* tracker_announce returns NULL: no answer, or none that is bencode.
NoAnnouncement ==
  /\ phase = "announce"
  /\ Goto("free")
  /\ UNCHANGED <<file, slotVars, running, cur, hung, listVars, sessionVars>>

\* peerlist_init dereferences what bdict_find returned, and a tracker that refuses
\* to answer sends no peers.
AnnounceWithoutPeers ==
  /\ phase = "announce"
  /\ Goto("crashed")
  /\ UNCHANGED <<file, slotVars, running, cur, hung, listVars, sessionVars>>

\* tracker_announce and peerlist_init.  torrent_mode registers the handler and goes
\* on with event_loop; dump_peers_mode prints the list.
Announce ==
  /\ phase = "announce"
  /\ \E bytes \in Answers : PeerlistInit(bytes)
  /\ handler' = (handler \/ mode = "TORRENT_MODE")
  /\ Goto(IF mode = "TORRENT_MODE" THEN "poller" ELSE "free")
  /\ UNCHANGED <<file, slotVars, running, cur, hung, mode, torrent>>

\* poller_init fails: torrent_mode returns what event_loop does, and frees nothing.
PollerFails ==
  /\ phase = "poller"
  /\ Goto("exit")
  /\ UNCHANGED <<file, slotVars, running, cur, hung, listVars, sessionVars>>

\* torrent_free, and the next torrent.
TorrentFree ==
  /\ phase = "free"
  /\ PeerlistDestroy
  /\ failed' = {}
  /\ torrent' = torrent + 1
  /\ Goto(IF torrent < NbTorrents THEN "create" ELSE "exit")
  /\ UNCHANGED <<file, active, fd, connPeer, running, cur, hung, mode, handler>>

\* SIGINT: before the first event_loop it still kills the process.
Sigint ==
  /\ phase \notin {"exit", "crashed"}
  /\ running
  /\ IF handler THEN running' = FALSE /\ UNCHANGED phase
     ELSE Goto("exit") /\ UNCHANGED running
  /\ UNCHANGED <<file, slotVars, cur, hung, listVars, sessionVars>>

Terminated == phase \in {"exit", "crashed"} /\ UNCHANGED vars

Main ==
  \/ TorrentCreate \/ TorrentRefused \/ NoAnnouncement \/ AnnounceWithoutPeers
  \/ Announce \/ PollerFails \/ TorrentFree
  \/ EventLoop /\ UNCHANGED sessionVars

Next == Main \/ Sigint \/ Terminated

\* The program goes on by itself except in tracker_announce: curl_easy_perform is
\* given no time-out, and a tracker may keep its answer for ever.
Spec == Init /\ [][Next]_vars /\ WF_vars(phase # "announce" /\ Main)

-----------------------------------------------------------------------------
(* Properties *)

\* The types; no reference count goes below zero (the assertion in rcount_deref).
TypeOK ==
  /\ list \in [to : [Link -> Peer \cup {NULL}], prec : [Peer -> Link \cup {NULL}]]
  /\ refs \in [Peer -> Nat]
  /\ file \in [Fd -> Slot \cup {FREE, STDIN, EPOLL}]
  /\ active \subseteq Slot
  /\ fd \in [Slot -> Fd \cup {NoFd}]
  /\ connPeer \in [Slot -> Peer \cup {NULL}]
  /\ failed \subseteq Peer
  /\ running \in BOOLEAN
  /\ phase \in {"create", "announce", "poller", "slots", "poll", "free", "exit", "crashed"}
  /\ cur \in Slot
  /\ hung \in BOOLEAN
  /\ mode \in {"TORRENT_MODE", "METAINFO_PRINT", "DUMP_PEERS"}
  /\ torrent \in 1 .. NbTorrents + 1
  /\ handler \in BOOLEAN

\* A torrent begins with nothing left of the one before: no peer, no slot that
\* points at one, no connection; event_loop and torrent_free have given back all
\* but the descriptors of epoll.
StartsClean ==
  phase = "create" =>
    /\ \A p \in Peer : refs[p] = 0
    /\ \A c \in Slot : connPeer[c] = NULL
    /\ \A f \in Fd : file[f] \notin Slot

\* After SIGINT no connection is made any more, in this torrent or a later one.
SigintFinal == [][~running => active' \subseteq active]_vars

\* No tracker keeps the program waiting for ever.
TrackersReturn == []<>(phase # "announce")

\* SIGINT ends the program, whichever torrent and state it meets, provided that the
\* trackers of the torrents to come do not keep it: once the handler is registered,
\* SIGINT only sets g_running, and nothing looks at that in tracker_announce.
SigintEnds == TrackersReturn => (~running ~> phase \in {"exit", "crashed"})
=============================================================================
