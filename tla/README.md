# MyBittorrent in TLA+

Specifications, model checking and proofs for the BitTorrent leech of this
repository. File names below are relative to the repository: `src/` holds the
C files and `includes/` the headers.

## The system

The program downloads one torrent. `torrent_mode` parses the `.torrent` file
(bencode), maps the files it describes into memory, checks which pieces are
already there, asks the tracker for peers and runs `event_loop` until the
torrent is complete or SIGINT arrives. There is one thread; everything
concurrent happens between the slots of the event loop, the remote peers and
the signal handler.

| Component | State it keeps | Operations | Correct when |
| --- | --- | --- | --- |
| Event loop (`event_loop.c`, `signal_handler.c`) | the table of slots, `g_running`, the tick | one iteration: every slot in order, then the poller; exit | it returns after SIGINT or completion and leaves nothing connected |
| Connection slots (`peer_conn.c`) | `active`, `peer`, `receiving`, the two transmissions, interest and choke flags | `peer_conn_init`, `_trade`, `_close`, `_clear` | slot and peer agree; piece and peer are given back however the connection ends; a failed peer is not retried |
| Piece choice and requests (`decision.c`, `decision_send.c`) | piece states, `blocks`, `req_blocks`, `ask_blocks`, `last_req_tick` | `select_piece`, `setup_piece`, `update_interest`, `send_block_requests`, finishing a piece | a piece is handed out once, asked for completely, once per time-out, and finished when it is all there |
| Message reception (`receive_*.c`) | `in_buf`, the part being received | size, type, one handler per message, the three callbacks of a piece | blocks land in their place and are marked only then; the stream stays in step |
| Handshake (`handshake.c`) | `in_buf`, `out_buf` | send, receive | messages only after the handshake; nothing unsent is overwritten |
| Transmissions and poller (`transmission.c`, `transmitters.c`, `poller.c`) | `transmitted`, `total`, `can_recv`, `can_send`, the epoll set | `transmit`, `pollfd_recv`, `pollfd_send`, `poller_update` | each callback once per transmission; no lost wake-up; descriptors owned by one slot until the poller closes one |
| Pieces and files (`piece.c`, `filelist.c`, `file.c`, `fmap.c`) | piece table, file offsets, `exist` | `pieces_create`, `piece_check`, `piece_get_buffer` | piece offsets map to the right bytes; what exists is checked on start |
| Tracker and peer list (`tracker.c`, `announce.c`, `peerlist.c`, `peer.c`, `rcount.c`) | the list of peers, a reference count each | one HTTP announce, append, walk, destroy | every peer of the answer is in the list once, and is released once |
| Bitset (`bitset.c`, `bitset_clear.c`) | the bytes of `peer->pieces` and of `piece->blocks` | clear, get, set, update | a bit says what was last written to it, whole bytes included |
| Bencode (`bencode*.c`), dbuf, path | parsed values and buffers | parse, find, build a path | agree with their definitions |
| Session (`bittorrent.c`, `torrent.c`, `btopts.c`) | the torrent under way, what outlives it: descriptors, `g_running`, the handler | options, set-up, tear-down of one torrent after the other | a torrent begins with nothing left of the one before |
| Statistics, logs, server stub | | | |

The components share state rather than exchange messages: a slot points at its
peer and at the piece it fetches, the peer points back, and the state of a
piece is the only thing that keeps two slots from fetching it both. `transmit`
runs the callback of a transmission when its last byte has passed; the callback
sets up the next one. `decision_send` is the callback of every send and is run
again in each iteration in which there is nothing to send.

What is hard in it: connections that break in any state of their two
transmissions; requests repeated after a time-out while the first answer is on
its way; a piece finished or given back between two parts of a block; the error
event that closes a descriptor behind the back of its slot, whose number the next
connection gets; messages whose sizes and handlers must agree byte by byte; SIGINT
in the middle of an iteration; noticing completion. `PROJECT.json` lists each of these at its
line, with the properties that cover it.

## The modules

`TorrentState` - `PeerConn` - `DecisionSend` - `Receive` - `EventLoop` form one
specification, each extending the one before it: the state, then the operations
of one source file or group of files, then the loop that composes them.
`Download` is the abstract specification `EventLoop` implements;
`EventLoop_proofs`, `Blocks_proofs` and `Answers_proofs`, each extending the one before
it, hold the theorems. `MCEventLoop` gives the constants values.

Five parts are modelled on their own, each at the level of detail that the event
loop leaves out:

* `FileMap`: how pieces and blocks lie in the files. `multifile_init`,
  `pieces_create` and `piece_check` over what an earlier run left, then the blocks
  of one piece through `piece_get_buffer` and the callbacks of a piece message.
* `Transport`: the bytes of the transmissions, `EAGAIN`, and the edge-triggered
  poller. `Channel` is the abstract specification of its receiving side, and
  `Transport_proofs` holds its theorems.
* `Bencode`: the parser and `bdict_find`, against the definition of bencode;
  `MCBencode` gives it values. It is an algorithm, so a behaviour is one call. The
  loops of lists and dictionaries and `bencode_dest_parse` call each other; `Loops` is the
  table of what each loop makes of the text from each position on.
* `Framing`, over `Bitset`: the sizes that pass between the handlers of `receive_*.c`
  and `handshake.c`, against the sizes the messages on the wire really have, and
  what is written to the two buffers and to the bitset of the peer. `MCFraming`
  gives it messages.
* `PeerList` - `Sockets` - `Session`, each extending the one before it: the linked
  list and its reference counts, the descriptor table under the slots of
  `event_loop`, and `main` over several torrents in one process.

`FileMap_proofs`, `Bencode_proofs`, `Framing_proofs` (with those on `Bitset`) and
`Session_proofs` hold the theorems about these.

State and code of the event loop:

| Variable | In the code |
| --- | --- |
| `state`, `pieces`, `disk` | `torrent->state`, `torrent->pieces[i].state`, the mapped bytes (per block: right or not) |
| `bits`, `failed`, `peerConn` | `peer->pieces`, `peer->fail_count != 0`, `peer->conn` |
| `active`, `connPeer`, `receiving` | `conn->active`, `conn->peer`, `conn->receiving.piece` |
| `fd`, `file` | `conn->socket.fd`, and the descriptor table of the process: the slot that opened the connection a number stands for |
| `deaf` | the slots whose connection is gone with `can_recv` clear: no event will set it again |
| `conn` | the other fields of `struct peer_conn` that are ever read; `age` is `tick - last_req_tick`, capped; `in` and `out` are the transmission under way |
| `running`, `phase`, `cur` | `g_running`, and the program counter of `event_loop` |
| `remote` | not in the code: which requests the other end of the slot's own connection has not answered (`owed`), and whether it was told our interest (`told`) |

One step is one half of `peer_conn_trade` (at most one callback), one
`peer_conn_init`, or one `poller_update`; SIGINT may come between any two
(`signal_handler.c` only clears the flag, so finer interleavings show nothing
new). Every early return is a disjunct: a transmission may wait (`SkipSend`,
`RecvWaits`), fail (`SendFails`, `RecvFails`) or complete.

Abstractions, and what they leave out:

* Bytes of a transmission: only its completion runs code. The parts of a message
  whose handler runs at the end (size, type, id of a have, bytes of a bitfield)
  are one step, because what arrives is chosen at that step. The header of a
  piece message, its index and offset, and its data are separate steps, since
  `decision_send` runs between them and changes what the next one reads.
* Block contents: right or wrong (`good`). A block of a piece that spans two
  files is received in two parts (`ReceivePart`).
* Descriptors: `poller_update` closes the number of a slot on an error event and
  leaves the slot as it is (`poller.c:67`). `socket` gives the lowest free number to
  the next connection, so the slot may come to hold the number of another one
  (`Open` but not `Linked`; a slot is `Private` while nobody shares its number). Such a
  slot goes on with whatever the number stands for: it takes bytes of the other
  connection, sends on it, fails with it, or sees `EAGAIN`, which clears `can_recv` for
  ever, as epoll reports to the slot that opened the connection (`deaf`). When either
  of the two closes, the other loses the connection as well (`robbed`). What comes over
  a shared connection is anybody's: any message, any block, right or wrong, and an
  index out of the torrent (`ConvCrash`), whatever `Faults` says (`MayOccur`). `can_recv`
  is kept for slots without their connection only; for the others it is the subject of
  `Transport`. That each of the two may take the bytes in the middle of a message is covered by
  taking every message for any other, and sizes are left to `Framing`.
* Time: `last_req_tick` is an age in ticks, which grows with each `poller_update`. Without
  the fault `slow` it stops short of the time-out as long as a block is awaited, since that
  is what answering in time means. A choke may drop what is awaited, and then the age
  goes on to the time-out and the blocks are asked for again (`TimePasses`).
* `last_req_tick == 0` (nothing asked yet) is the same as a time-out, as
  `req_blocks` is empty then.
* At most `MaxOwed` copies of one block are owed by a peer at a time.
* The remote peers follow the protocol: they answer only requests they received,
  announce only what they have and send well-formed messages; while they choke us
  they may ignore a request. `Faults` switches on what may go wrong all the same (no
  run uses `corrupt`, see below):

| Fault | Meaning |
| --- | --- |
| `refuse`, `disconnect` | connect fails; an open connection breaks at a recv or a send |
| `hangup` | epoll reports an error and `poller_update` closes the descriptor behind the back of the slot |
| `choke`, `optimistic`, `interest` | the peer chokes us (dropping its requests or not), unchokes us unasked, tells its own interest |
| `corrupt` | a block has wrong bytes |
| `slow` | an answer may take longer than `BLOCK_REQUEST_TIMEOUT` |
| `sigint`, `eintr` | SIGINT arrives; `epoll_wait` is interrupted by something else (a stop and continue) |

State and code of the other modules:

| Variable | In the code |
| --- | --- |
| `FileMap`: `sizes`, `exist` | `files[f].size` and `.exist`; the offsets are `Offset` |
| `psize`, `pieces` | `torrent->piece_size`, the table of pieces |
| `i`, `dl` | the index and the `struct data_loop` of `pieces_create` |
| `slot`, `msg` | the piece and the `blocks` bitset of one slot, its `s_btpiece` (`start` is the `begin` it came with) |
| `right`, `written`, `carried` | not in the code: the mapped bytes that are right, those written by blocks, and the offsets that the messages for the slot's piece covered |
| `Transport`: `active`, `in`, `out`, `pfd` | `conn->active`, the two transmissions, `can_recv` and `can_send` |
| `cur`, `at` | the program counter of `event_loop` |
| `sock`, `ready` | the kernel's: the buffers and end of a connection, the ready list of epoll |
| `Bencode`: `text`, `result` | the buffer of `bencode_parse` and what it returns; a `s_dbuf` is a position in `text` |
| `Framing`: `half` | the program counter of `peer_conn_trade`, for one slot |
| `at`, `n` | the callback of `in_trans` and its `total` |
| `size`, `begin` | `header.size` and `begin` of the message in `in_buf`, whatever its type |
| `receiving`, `out`, `outBuf` | `conn->receiving.piece`, what `out_trans` sends, what `out_buf` holds |
| `bits` | `peer->pieces`, byte by byte |
| `msg`, `left`, `announced` | not in the code: the message on the wire, its bytes not taken yet, and what the haves and bitfields of each peer said |
| `PeerList`: `list`, `refs` | the links `next` and `prec`, and the counts of `rcount_meta` |
| `Sockets`: `file` | the descriptor table of the process; a connection is named by the slot that registered it with epoll |
| `fd`, `connPeer`, `active`, `failed` | fields of the slots and peers as in the event loop, `fd` being `conn->socket.fd` |
| `hung` | not in the code: `poller_update` has closed a descriptor in this `event_loop` |
| `Session`: `phase`, `torrent`, `mode`, `handler` | the program counter of `main`, the index in `argv`, the mode of the options, whether SIGINT is handled |

Abstractions in them:

* `FileMap` has bytes that are right or wrong; a piece hashes to its `sha` exactly
  if all its bytes are right, and a file that had to be created has none. Sizes that
  overflow are left out. One slot is enough, as its blocks only meet the piece it
  holds; a block of another piece arrives too. A message may begin at any offset and
  have any length, from none to one byte more than a piece: nothing in
  `receive_piece.c` checks that it is the block that was asked for.
* `Transport` counts bytes. A callback only sets up a next transmission of some
  length: which one is the business of `Receive` and `DecisionSend`. The kernel is
  external: a descriptor joins the end of the ready list whenever bytes, the end
  of the stream or an error arrive, and when a full send buffer gets room;
  `epoll_wait` takes at most `MAX_EVENTS` from its head.
  A number that `poller_update` closed stays free here until its slot fails; numbers that are
  given out again are in the event loop and in `Sockets`.
* `Bencode` leaves out the failure of `malloc` and the overflow of `t_bint`: the numbers
  and the lengths that are written are at most `MaxBint`. The values nest at most
  `MaxDepth` deep, as `Data` builds them level by level; the parser has no such limit.
* `Framing` has one slot, as slots share nothing that is read from the stream.
  `decision_send` is reduced to what it may do to `receiving` and `out_buf`; in
  return it may do it at any time, so the piece that is received changes between any
  two parts of a message. A size is that of the message that comes, so a message of
  any of the sizes in `Messages` may follow any other; but the index of a block is
  taken to be in the torrent, and `choke`, `unchoke` and the interests to be one
  byte long (the code checks neither, see below). Connections that cannot be opened
  are in `Sockets`.
* `Sockets` leaves out what passes over the connections: a slot trades, and its
  connection breaks or not. A slot that holds a number its poller closed may meet a
  free number, or the connection another slot has opened meanwhile; both are
  followed. Completion ends the loop in `EventLoop`; here `LoopExit` may happen at
  any time.
* `Session` has the lengths of the peers strings and not the addresses. The HTTP
  request and the creation of the torrent succeed or fail.

## What is checked

| Run | Question | Faults | Bounds |
| --- | --- | --- | --- |
| `timely` | With answers in time, is every block that arrives expected, once, for the current piece (`AnswersExpected`)? Then `receive_piece_conv` never meets a slot without a piece. Is no honest peer dropped (`HonestKept`)? | choke, interest | 2 slots, 2 peers, pieces of 3 and 1 blocks, two requests per batch, time-out of 2 ticks |
| `failures` | Do slots, peers and pieces always agree (`SlotOwnsPiece`, `PeerLink`), where slots and descriptor numbers are used again? Is every claimed piece finished or given back (`FetchingEnds`)? Does the loop return after SIGINT and after completion (`Stops`)? | disconnect, hangup, sigint, eintr | 2 slots, 3 peers, 1 piece of 1 block |
| `late` | Can late and repeated answers make two connections write one piece, or mark a block that is not there? | slow, optimistic, refuse | pieces of 2 and 1 blocks, one request per batch, up to two copies of an answer |
| `completes` | Do responsive peers lead to completion, and are they told our interest? | none | 3 pieces, no peer has all |
| `ends` | Is `Download` implemented (and so every available piece kept), is completion sound (`CompleteSound`) and noticed as long as some slot can look for a piece (`CompletionNoticed`)? Does each of several pieces end (`FetchingEnds`)? | disconnect, hangup, sigint, eintr | 2 slots, 2 peers, pieces of 2 and 1 blocks |
| `filemap` | Do pieces cover the torrent (`PiecesCoverTorrent`), is an available piece right (`AvailableIsRight`), does a restart find what is there (`ResumeFindsRightPieces`), does what arrives land in its place and come to an end (`BlocksInPlace`, `BlocksEnd`)? | messages that begin anywhere, of any length, of another piece; a wrong byte on disk | 3 files of 0 to 2 bytes, pieces of 1 to 3 bytes, blocks of 2 |
| `wakeups` | Is an event pending whenever a cleared flag is out of date (`NoLostWakeup`)? Does a message go out in parts (`SendsComplete`)? | end of stream and reset between any two calls | 1 slot, transmissions of up to 4 bytes through buffers of 3 |
| `channel` | Is every byte that arrives taken, and a closed connection dropped after its last byte (`ImplementsChannel`)? | end of stream, reset | 2 slots, one event per `epoll_wait`, buffers of 2 bytes |
| `framing` | Does each handler take exactly the bytes of its message (`StreamInStep`), into a buffer that holds them (`WithinBuffers`, `OutBufIntact`)? Does a peer have what it announced (`BitsAsAnnounced`)? Does a message come to its end (`MessageEnds`)? | a recv or a send that fails at any byte, sizes that are too small or too large, types that do not exist | 2 peers, 9 pieces (a bitset of two bytes), 21 messages |
| `session` | Is every open connection in the hands of its slot, whoever closed which number (`ConnectionsHeld`)? Are numbers not shared before the poller closes one, and is standard input never closed (`OwnDescriptors`)? Is nothing left for the next torrent (`StartsClean`)? Does SIGINT end the program, if no tracker stays silent (`SigintEnds`)? | refuse, disconnect, hangup, SIGINT anywhere, refused files, no answer | 2 torrents, 3 slots, lists of up to 4 peers, descriptors 0 to 4 |
| `bencode` | Is a value read back as written (`RoundTrip`), a cut text refused (`TruncatedRefused`), are ranges and lookups exact (`RangesExact`, `LookupExact`)? | the text cut at any place | 3 integers, 3 strings, 3 keys, flat values of 2 items and those inside another (`MaxDepth = 2`); `MaxBint = 999` is above all of them |

Two slots are enough for most interactions, as slots only meet in a piece, in a
peer, in a descriptor number or in the exit. Two pieces of different lengths make the bound of one wrong
for the other; one request per batch makes a piece take several. In `timely` a choke
drops one of two batches, and the time-out that follows asks for the blocks again.
Three peers are what it takes for a number to be used again while another
slot holds it: one whose connection is hung up, one that fails, and one that
connects next (`failures`). A piece of one block is enough there, as what a slot
does with a shared number does not depend on its block; `ends` has two pieces, one of
two blocks, and two peers, with which no number is shared.

In `filemap` a piece may span three files, lie inside one, or end with one, with
empty files before, between and after; a piece may be shorter than a block, as long,
or longer. In `wakeups` a transmission takes several calls and the buffer holds
more than one event tells of. `channel` needs two slots and `MaxEvents = 1`, so that
one of two ready descriptors is left for the next `epoll_wait`. The values of
`bencode` have numbers of two digits and signs, strings whose characters look like
bencode and whose length has two digits, keys that begin with each other, and
each kind of value before, after and inside another.

`LookupExact` is stated for dictionaries in which no other key is the beginning
of the name, because `bdict_find` compares as many characters as the key in the
dictionary has: it would take a key `inf` for `info`.

`framing` needs a second byte of the bitset, so that a bitfield may be shorter than
the set, and messages below, at and above each bound of a handler. In `session` a list
of four peers makes a number pass from a slot that still holds it to another one and
back. With three slots and descriptors up to 4 the table is full in the second
torrent, which begins with one number less, as `poller_destroy` closes nothing.

One run ends in a violation of something the repository says of itself
(`PROJECT.json`, "findings"): in `late_answer` a second copy of a block meets no
current piece and a NULL pointer is dereferenced, where the code warns only.

More disagreements met on the way have no run:

* `decision_send.c:141` makes a piece that fails its check available all the same
  (its comment says to remove that; `TODO` line 31 asks for the check). `EventLoop` has it
  under the fault `corrupt`.
* `receive_piece_cleanup` marks the block a message begins in, however few bytes came
  (`receive_piece.c:23-29`): an empty message marks a block that was never written. So
  `AvailableIsRight` supposes that the blocks of a received piece came whole (`Whole`).
* A slot whose number `poller_update` closed may wait for ever with its piece, or read and
  mark what belongs to another connection, see above.
* `receive_interested.c:22` writes the interest of the peer into the flag that
  stands for ours, so that `update_interest` may never tell ours: `InterestExpressed`
  fails when peers are interested.
* With slow answers `HonestKept` fails as well: the second copy of a block is measured
  against another piece (`receive_piece.c:87`) and its honest sender dropped.
* `ResumeFindsRightPieces` holds only for a complete set of files: one missing file
  hides right pieces of the files after it, up to the next file that ends with a
  piece (`piece.c:94`), though TODO:30 says that existing files are checked.
* `handshake_receive_full` (`handshake.c:40`) reads the length of the protocol name
  from `out_buf`, where our own is, so that any length of the peer passes
  (`ReceivePlen`). The rest of the handshake lands in `out_buf` as well.
* Messages of a fixed length other than `have` are taken at their word: with another
  size the bytes after the type are read as the next message. The same holds for the
  index of a block, which no handler compares with the number of pieces.
* A tracker that refuses to answer sends no `peers`, and `peerlist.c:16` dereferences
  what `bdict_find` did not find (`AnnounceWithoutPeers`).

Fairness. `Spec` has weak fairness of the loop alone: sockets do not block and
`epoll_wait` has a time-out, so some step of the loop always follows. `FairSpec`
adds that the other ends keep going (`Responsive`): strong fairness of sends and
of arrivals that tell something new, because a slot waits in infinitely many
iterations. This is an assumption on the peers; a connection may still break at
any time in the runs that allow it, and nothing is assumed of a connection that slots
share. `failures` and `ends` run under `Spec`: `Stops` needs nothing of the peers,
and `FetchingEnds` names `Responsive` as its premise. `FetchingEnds` excepts the slots
that `poller_update` led astray (`Astray`): those that share a number, and those
that lost their connection with `can_recv` clear. They may wait for ever with their piece, as
`receiving` has no time-out of its own. A slot that finds its number free fails at its next
call and gives the piece back; so does one that is led astray and fails.

`Transport` has the same two levels: weak fairness of the loop, and in `FairSpec`
of each peer reading what it is sent, while nothing obliges it to send. `FileMap`
has weak fairness of `receive_piece_iter` alone, as bytes of a block that is under
way keep coming; whether another block comes is open. `Bencode` has none. `Framing` has weak
fairness of the loop and, in `FairSpec`, strong fairness of `RecvHandled`: a peer goes on
with what it began to send, or breaks the connection. `Session` has weak fairness
of `Main` except while the tracker is asked, since the program goes on by itself but
`curl_easy_perform` is given no time-out (`announce.c:42`). After the first torrent the
handler of SIGINT is registered and only clears a flag, so a silent tracker
holds the program in spite of the signal: `SigintEnds` has the premise that every announce
returns (`TrackersReturn`), and is false without it.

Deadlock is checked in the runs of the event loop, of `Transport`, `Framing` and
`Session`: after the end of `event_loop`, or of the process, only `Terminated`
remains. `FileMap` and
`Bencode` stop when their work is done.

## What is proved

`EventLoop_proofs` proves, for all numbers of slots, peers, pieces and blocks,
and any `Faults`, under the named assumptions of `TorrentState` on the constants:
`TypeCorrect`, `OwnershipHolds`, `PeerLinkHolds`, `CompleteHolds`,
`AvailableKept` and `Refinement`.

The argument: `StepKinds` shows that, for the marks, slots and peers, every step
of the loop is one of seven kinds (a close of some slots, a connection, a
refusal, taking a piece, finding none, finishing one, nothing). The inductive
invariant `Inv` joins the type invariant, the ownership of pieces, the links
between slots and peers and the soundness of completion. They need each other:
that a close frees exactly the pieces of the slots it closes needs that no two
slots share a piece; that a released piece cannot undo completion needs that a
held piece is not available; that a new connection keeps the links needs that an
inactive slot has no peer. Each kind of step preserves `Inv`, and the same kinds
map to the actions of `Download`. `Inv` also has `Numbered`: an active slot holds a
number, and the connection behind a number is that of a slot which holds it. None of these
needs that numbers are not shared. Without error events they never are (`NumbersKept`, from
`Alone`: every slot has its connection for itself); with them the theorems below
that speak of bytes have the premise `[]NoneShared`, or speak of `Private` slots.

`Blocks_proofs` proves `OneWriterHolds` of any behaviour, shared numbers included. Its
invariant `WriterInv` says that a slot which writes into the file of a piece holds the
piece, or the piece is available (`IntoHeld`): a slot starts to write only into the piece it
holds, and leaves a piece behind only by closing, which ends the writing, or by
finishing it, so a piece that is being written is never handed out again.
`MarksBacked` holds when no answer is corrupt and no number is shared, whatever
else goes wrong. A request is under way while it is sent, owed or answered. `ReqInv` says
of it what `WriterInv` says of a write (`Settled`). `ByteInv` adds that what arrives is right
(`Genuine`), that a block lies in its piece (`Bounded`), and that the block being
received goes to its file, and is the one that will be marked, as long as the slot
keeps the piece (`Destined`). A piece becomes available only with all its blocks
marked, and no other step takes bytes away.

`Answers_proofs` proves what holds where answers come within
`BLOCK_REQUEST_TIMEOUT` (`"slow" \notin Faults`): `AnswersInTime` and, where no number
is shared, that `receive_piece_conv` never meets a slot without a piece (`NoNullPiece`).
`AnswerInv` says of each slot that has its connection for itself (`Clean`) that of each
request one copy exists, sent, owed or answered (`Once`), that it is for a missing
block of the current piece (`Wanted`), and that `last_req_tick` is that old only when
nothing is awaited (`Timely`): so no block is asked for again while an answer may come,
and a piece is not finished while one is on its way. A slot that shares its number
may end as the only one that holds it, but its connection is gone then, so no slot becomes
`Private` but by connecting. If connections
hold as well (`Peaceful`), no honest peer is given up (`HonestPeersKept`): no block is out
of bounds, and no call fails. `InterestTold` proves that peers are told our interest, when
none of them sends its own (`"interest" \notin Faults`); with it the code does not keep
this, see above.

`Transport_proofs` proves `TypeCorrect` and `WakeupsKept`, for any number of slots,
any `MAX_EVENTS`, any length of transmissions and any size of the buffers, under
`TransportAssumption`. `NoLostWakeup` is inductive with the type invariant, slot by
slot: a flag is cleared only when the socket is not ready, every change that makes
it ready lists it, and `poller_update` unlists only descriptors whose flags it
then sets, or which it closes. Lemmas say that the ready list loses nobody but a
descriptor that is closed. `ChannelSafe` proves the refinement of `Channel` but for its
fairness: its invariant says that an active slot has an open socket, or one that
`poller_update` closed on a reset, and an inactive slot none (`Backed`).

`Framing_proofs` proves first, for any index of a `Bitset`, that clearing leaves no bit (`ClearedBits`),
that setting a bit changes that one alone (`SetBit`), and which bits come from a
bitfield that is written over a bitset (`UpdateBits`). The shifts of the code turn
into arithmetic on the byte and the place in it; `OwnBit` says that two indices
share both only if they are equal. It then proves, for any messages, sizes of pieces, blocks and files,
`TypeCorrect`, `StreamAlwaysInStep`, `BuffersHold`, `BitsKeptAsAnnounced` and `OutBufKept`. Two
inductive invariants carry them. `InStep` joins the types with `BytesLeft`, which
says for each callback how many bytes of the message are still on the wire, in
terms of the size the handlers have left in `in_buf` (this is what each handler
relies on and none checks), with `BodyChecked`, what has been checked of a body by the
time its bytes come, and with `SlotClear`. `Announced` adds that the bitset of a peer
not yet tried is clear, that nothing is announced before the handshake, and the
state of `out_buf`. The three theorems on bits are all that is used of `Bitset`.

`FileMap_proofs` proves, for any number of files, any sizes, any piece length and any
size of the blocks, the five invariants of the run `filemap`: `TypeCorrect`,
`TorrentCovered`, `AvailableRight`, `RightPiecesFound` and `BlocksAlwaysInPlace`.
The bytes of the torrent are numbered from 0; `HomeOfByte` says that `Home` numbers
the bytes of the files one to one, so the bytes of a piece are those of an interval
(`Segment`). `BytesReadOfPiece` and `WalkFindsByte` show that what `piece_check` reads and
where `piece_get_buffer` walks to are the intervals they should be, across any number of
ends of files and empty files. The inductive invariant has two halves. `CutKept` is
that of `pieces_create`: the pieces cut so far and the rest in `dl->size` are together
what the loop has gone through (`LoopKept`), so `dl->piece_file` is never behind the
piece that begins in it. `FetchKept` is that of the blocks: what is left of the block
under way fits its piece once a part of it was taken (`MsgKept`), and the piece of the
slot is nobody else's (`SlotFetches`). `AvailableIsRight` and `BlocksInPlace` are
inductive with it: what was written is what arrived, a piece is done when each of its
blocks is marked, and blocks that came whole cover the piece (`BlocksCoverPiece`). For `RightPiecesFound`, `Found` says that `dl->exist` stays true while
no file is missing. `EveryTurnAdvances` is the safety half of `BlocksEnd`: no turn of
the receiving loop leaves as many bytes to come as there were.

`Session_proofs` proves, for any number of slots, torrents and descriptors,
`TypeCorrect`, `ConnectionsAlwaysHeld`, `DescriptorsOwned`, `SigintIsFinal`,
`ListAlwaysLinked` and `CleanStart`. The inductive invariant `Held` adds to the three
properties of descriptors that the number of an active slot is a real one and not
zero, and that an inactive slot has none. Without it a connection could be lost:
that the lowest free number is not held by another connection needs
`ConnectionsHeld`, and that closing a number that was given out again loses no
connection needs that the slot of that connection still names it. `Kept` adds that
the list is the one of its first peers (`ListOf`, the list as a formula), how far
the list may have come in each phase, and that nothing is allocated where a torrent begins;
`NthOfList` and `WalkedOfList` say what walking such a list finds. The shape of the list
(`ListLinked`) follows from `ListOf` and has no run of its own.

`Bencode_proofs` proves the four properties of the run `bencode` for any characters,
any `MaxBint` and any depth of nesting: `ReadBack`, `CutRefused`, `RangesAlwaysExact`
and `LookupsExact`. One lemma for each part of the grammar (`UintRead`, `StrRead`,
`IntRead`, `ItemsRead`, `PairsRead`) says what the parser makes of a text that agrees with the
encoding at a position for as long as it goes on: if all of the encoding fits, the value and
the position behind it, and if the text ends before, nothing. So whole and cut texts
are one case, and what is inside a list may be cut as well. `DataRead` puts the parts
together by induction on the levels of `Data`, and those of lists and dictionaries by
induction on the items that are left. Ranges come with it: `AllRead` also says that every value
within the one read has its own encoding in its range. The inductive invariant `ReadInv`
says that the text is the encoding or a part of it from its beginning, and that the result is
one of these two. `LookupsExact` only needs that the keys of the result are
those of a value, and that a set of places has a first one.

A recursive function (`f[n \in Nat]`) can be reasoned about where a recursive
operator cannot. Its defining equation needs that the function exists, and what holds of
all its values needs induction; both follow from `SetInduction`, that a set of
numbers with 0 that is closed under + 1 is `Nat`, which `LeastElement` proves from the
library's theorem that < is well-founded on `Nat`. So `Offset` and `Walk` of `FileMap`,
the lists of `PeerList` and the parser of `Bencode` are recursive functions. That `Loops`
exists is not obvious, as its entry for a position refers to others that the parser
computes: `LoopForward` says that these lie behind it, since every item takes at least one
character, and `LoopsEquation` follows by induction on what is left of the text.

Only model-checked: the liveness properties (`Completes`, `FetchingEnds`, `Stops`,
`CompletionNoticed`, `BlocksEnd`, `SendsComplete`, `MessageEnds`, `SigintEnds` and the
fairness of `ImplementsChannel`), which are out of the prover's reach.

## Plan

All the modules planned are written, and all the invariants the passing runs check are
proved.

Not modelled: formatting and logs, the printer of bencode, the statistics, the
parsing of options and the text of the HTTP request (straight-line code without
state), the server (an empty stub), the failure of `malloc`, the signal a second
send on a broken connection raises, the unused `buf.c`, `block_write`,
`peer_conn_free` and `rcount_ref`, and the system calls below the sockets and the
mapping of files.
