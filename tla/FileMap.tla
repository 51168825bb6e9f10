------------------------------- MODULE FileMap -------------------------------
(***************************************************************************)
(* The map between the bytes of a torrent and the bytes of its files:      *)
(* multifile_init, the loop of pieces_create with piece_check on what a    *)
(* previous run left, and the way of the blocks of one piece through       *)
(* piece_get_buffer and receive_piece_iter.                                *)
(*                                                                         *)
(* A byte of a file is a pair <<file, position>>.  A piece hashes to its   *)
(* sha exactly if all the bytes piece_check reads are right.  A file that  *)
(* path_map had to create has no right byte; messages bring right bytes,   *)
(* but a message may begin anywhere and have any length, none included.    *)
(* Files, pieces and blocks count from 0, as in the code.                  *)
(***************************************************************************)
EXTENDS Integers, FiniteSetsExt

CONSTANTS
  NbFiles,      \* the files of the torrent
  MaxFileSize,  \* bound on the size of a file
  PieceSizes,   \* the values of "piece length" tried
  MaxBlockSize  \* MAX_BLOCK_SIZE

ASSUME SizesAssumption ==
  /\ NbFiles \in Nat \ {0}
  /\ MaxFileSize \in Nat
  /\ PieceSizes \subseteq Nat \ {0}
  /\ MaxBlockSize \in Nat \ {0}

File == 0 .. NbFiles - 1

VARIABLES
  sizes,   \* files[f].size
  exist,   \* files[f].exist
  right,   \* the mapped bytes that have the right value
  psize,   \* torrent->piece_size
  pieces,  \* the table of pieces, as far as it is filled in
  i, dl,   \* the file and the struct data_loop of pieces_create
  pc,      \* "enter" or "carve" file i; "idle", "block"; "done", "closed"
  slot,    \* the piece a slot fetches, and its bitset of blocks
  msg,     \* the piece message under way (s_btpiece), and where it began
  written, \* the bytes that received blocks were written to
  carried  \* the bytes of the slot's piece that whole messages claimed to carry

layoutVars == <<sizes, exist, psize>>
loopVars   == <<i, dl>>
slotVars   == <<slot, msg, written, carried>>
vars == <<layoutVars, loopVars, slotVars, right, pieces, pc>>

\* slot.piece before a piece is selected.
NoPiece == -1

\* files[f].offset, as the loop of multifile_init adds the sizes up.
Offset(f) ==
  LET offset[g \in 0 .. NbFiles] == IF g = 0 THEN 0 ELSE offset[g - 1] + sizes[g - 1]
  IN offset[f]

Total == Offset(NbFiles)

\* Faulty variants of definitions below.
RoundedDown(size) == size \div MaxBlockSize
FirstFileOnly(table, p) ==
  LET f == table[p].file
      off == p * psize
      end == Min({off + table[p].size, Offset(f) + sizes[f]})
  IN {<<f, x - Offset(f)>> : x \in Max({Offset(f), off}) .. end - 1}
NextFileAlways(left) == i + 1
ExistUnlessRest == dl.size = 0
PartOffByOne(f, o) == Min({msg.left, pieces[msg.index].size - msg.begin, sizes[f] - o - 1})
PartPastFile(f, o) == Min({msg.left, pieces[msg.index].size - msg.begin})

-----------------------------------------------------------------------------

REQUIRED_BLOCKS(size) == (size + MaxBlockSize - 1) \div MaxBlockSize

BLOCK_SIZE(size, b) ==
  IF (b + 1) * MaxBlockSize <= size THEN MaxBlockSize ELSE size % MaxBlockSize

\* piece_init.
NewPiece(file, size) ==
  [file |-> file, size |-> size, block_count |-> REQUIRED_BLOCKS(size), state |-> "MISSING"]

\* What piece_check hashes of piece p: from the file of the piece on, the part
\* of every file that lies between the limits of the piece.
BytesRead(table, p) ==
  LET off == p * psize
      target == off + table[p].size
      part(f) == Max({Offset(f), off}) .. Min({target, Offset(f) + sizes[f]}) - 1
      read == {f \in table[p].file .. NbFiles - 1 : Offset(f) < target}
  IN UNION {{<<f, x - Offset(f)>> : x \in part(f)} : f \in read}

\* piece_check, at the start: a piece that hashes right is available.
Check(table, p) ==
  IF BytesRead(table, p) \subseteq right
  THEN [table EXCEPT ![p].state = "AVAILABLE"]
  ELSE table

\* Any sizes, empty files among them; each file there or just created; at most
\* one byte of the files that were there wrong.
Init ==
  /\ sizes \in [File -> 0 .. MaxFileSize]
  /\ Total > 0
  /\ exist \in [File -> BOOLEAN]
  /\ psize \in PieceSizes
  /\ LET kept == {b \in File \X (0 .. MaxFileSize - 1) : exist[b[1]] /\ b[2] < sizes[b[1]]}
     IN \E wrong \in {{}} \cup {{b} : b \in kept} : right = kept \ wrong
  /\ pieces = << >>
  /\ i = 0
  /\ dl = [cur_piece |-> 0, size |-> 0, piece_file |-> 0, exist |-> TRUE]
  /\ pc = "enter"
  /\ slot = [piece |-> NoPiece, blocks |-> {}]
  /\ msg = [index |-> 0, start |-> 0, begin |-> 0, left |-> 0]
  /\ written = {}
  /\ carried = {}

-----------------------------------------------------------------------------

\* pieces_create fills in the next piece, of the given size, and checks it if
\* the files it began in were there.
AddPiece(size) ==
  LET table == [p \in DOMAIN pieces \cup {dl.cur_piece} |->
                  IF p = dl.cur_piece THEN NewPiece(dl.piece_file, size) ELSE pieces[p]]
  IN pieces' = IF dl.exist THEN Check(table, dl.cur_piece) ELSE table

\* The for loop: dl.size grows by the size of file i.
EnterFile ==
  /\ pc = "enter"
  /\ i < NbFiles
  /\ sizes[i] > 0
  /\ dl' = [dl EXCEPT !.size = @ + sizes[i]]
  /\ pc' = "carve"
  /\ UNCHANGED <<layoutVars, slotVars, right, pieces, i>>

SkipEmptyFile ==
  /\ pc = "enter"
  /\ i < NbFiles
  /\ sizes[i] = 0
  /\ i' = i + 1
  /\ UNCHANGED <<layoutVars, slotVars, right, pieces, dl, pc>>

\* The file the next piece starts in, with `left' bytes of file i to come.
NextFile(left) == IF left = 0 THEN i + 1 ELSE i

\* The while loop: one more whole piece.
CarvePiece ==
  /\ pc = "carve"
  /\ dl.size >= psize
  /\ AddPiece(psize)
  /\ LET left == dl.size - psize
     IN dl' = [dl EXCEPT !.cur_piece = @ + 1, !.size = left, !.piece_file = NextFile(left)]
  /\ UNCHANGED <<layoutVars, slotVars, right, i, pc>>

\* dl.exist after file i: whether the files of the next piece were there so far.
ExistAfter == dl.size = 0 \/ (dl.exist /\ exist[i])

LeaveFile ==
  /\ pc = "carve"
  /\ dl.size < psize
  /\ dl' = [dl EXCEPT !.exist = ExistAfter]
  /\ i' = i + 1
  /\ pc' = "enter"
  /\ UNCHANGED <<layoutVars, slotVars, right, pieces>>

\* After the loop: what remains is the last piece.
LastPiece ==
  /\ pc = "enter"
  /\ i = NbFiles
  /\ pc' = "idle"
  /\ IF dl.size > 0 THEN AddPiece(dl.size) ELSE UNCHANGED pieces
  /\ UNCHANGED <<layoutVars, loopVars, slotVars, right>>

-----------------------------------------------------------------------------

\* setup_piece: the slot gets a piece that is missing.
Select(p) ==
  /\ pc = "idle"
  /\ slot.piece = NoPiece
  /\ pieces[p].state = "MISSING"
  /\ pieces' = [pieces EXCEPT ![p].state = "FETCHING"]
  /\ slot' = [slot EXCEPT !.piece = p]
  /\ UNCHANGED <<layoutVars, loopVars, right, pc, msg, written, carried>>

\* The block that receive_piece_conv takes the offset for.
BlockAt(begin) == begin \div MaxBlockSize

\* receive_piece and receive_piece_conv, up to its bound check, which is the one of
\* the slot's piece: some bytes of piece p, from `begin' on.  Nobody checks that a
\* message begins where a block does, that it is as long as the block, or that the
\* block was asked for.  More than one byte too many is like one.
BlockArrives(p, begin) ==
  /\ pc = "idle"
  /\ slot.piece # NoPiece
  /\ \E left \in 0 .. pieces[p].size + 1 :
       msg' = [index |-> p, start |-> begin, begin |-> begin, left |-> left]
  /\ pc' = IF BlockAt(begin) >= pieces[slot.piece].block_count THEN "closed" ELSE "block"
  /\ UNCHANGED <<layoutVars, loopVars, right, pieces, slot, written, carried>>

\* The loop of piece_get_buffer: the file and the position in it of the byte
\* o bytes after the start of file f.  There is no file NbFiles: a walk that came
\* there would have passed the end of the table.
Walk[f \in 0 .. NbFiles] ==
  [o \in Nat |-> IF f < NbFiles /\ o >= sizes[f] THEN Walk[f + 1][o - sizes[f]]
                 ELSE <<f, o>>]

\* What the next receive_piece_iter sets up, MIN of the message, the piece and
\* the file.
PartSize(f, o) == Min({msg.left, pieces[msg.index].size - msg.begin, sizes[f] - o})

\* receive_piece_iter on a block of the slot's piece: the next part goes where
\* piece_get_buffer says.
ReceivePart ==
  /\ pc = "block"
  /\ msg.left > 0
  /\ msg.left + msg.begin <= pieces[msg.index].size
  /\ msg.index = slot.piece
  /\ LET first == pieces[msg.index].file
         at == Walk[first][msg.begin + msg.index * psize - Offset(first)]
         part == PartSize(at[1], at[2])
         bytes == {<<at[1], x>> : x \in at[2] .. at[2] + part - 1}
     IN /\ written' = written \cup bytes
        /\ right' = right \cup bytes
        /\ msg' = [msg EXCEPT !.left = @ - part, !.begin = @ + part]
  /\ UNCHANGED <<layoutVars, loopVars, pieces, pc, slot, carried>>

\* receive_piece_iter on a block of another piece: all of it is discarded.
DiscardBlock ==
  /\ pc = "block"
  /\ msg.left > 0
  /\ msg.left + msg.begin <= pieces[msg.index].size
  /\ msg.index # slot.piece
  /\ msg' = [msg EXCEPT !.left = 0, !.begin = @ + msg.left]
  /\ UNCHANGED <<layoutVars, loopVars, right, pieces, pc, slot, written, carried>>

\* receive_piece_iter refuses what would pass the end of the piece.
RefuseBlock ==
  /\ pc = "block"
  /\ msg.left > 0
  /\ msg.left + msg.begin > pieces[msg.index].size
  /\ pc' = "closed"
  /\ UNCHANGED <<layoutVars, loopVars, slotVars, right, pieces>>

\* receive_piece_cleanup: the block is marked, however little of it came.
BlockReceived ==
  /\ pc = "block"
  /\ msg.left = 0
  /\ IF msg.index = slot.piece
     THEN /\ slot' = [slot EXCEPT !.blocks = @ \cup {BlockAt(msg.start)}]
          /\ carried' = carried \cup (msg.start .. msg.begin - 1)
     ELSE UNCHANGED <<slot, carried>>
  /\ pc' = "idle"
  /\ UNCHANGED <<layoutVars, loopVars, right, pieces, msg, written>>

\* decision_send, with no block missing: whatever piece_check says, the piece
\* is available.
FinishPiece ==
  /\ pc = "idle"
  /\ slot.piece # NoPiece
  /\ slot.blocks = 0 .. pieces[slot.piece].block_count - 1
  /\ pieces' = [pieces EXCEPT ![slot.piece].state = "AVAILABLE"]
  /\ pc' = "done"
  /\ UNCHANGED <<layoutVars, loopVars, slotVars, right>>

Next ==
  \/ EnterFile \/ SkipEmptyFile \/ CarvePiece \/ LeaveFile \/ LastPiece
  \/ \E p \in DOMAIN pieces :
       \/ Select(p)
       \/ \E begin \in 0 .. psize : BlockArrives(p, begin)
  \/ ReceivePart \/ DiscardBlock \/ RefuseBlock \/ BlockReceived \/ FinishPiece

\* receive_piece_iter is run again as long as bytes arrive; nothing obliges
\* the peer to send another block.
Spec == Init /\ [][Next]_vars /\ WF_vars(ReceivePart \/ DiscardBlock \/ RefuseBlock \/ BlockReceived)

-----------------------------------------------------------------------------
(***************************************************************************)
(* Properties.  Home is the reference: byte x of the torrent is in the     *)
(* only file whose part of the torrent holds x.                            *)
(***************************************************************************)

Home(x) ==
  LET f == CHOOSE g \in File : x \in Offset(g) .. Offset(g) + sizes[g] - 1
  IN <<f, x - Offset(f)>>

PieceBytes(p) == {Home(x) : x \in p * psize .. Min({(p + 1) * psize, Total}) - 1}

\* The bytes of the slot's piece that make up block b, as send_block_requests asks
\* for them.
Asked(b) ==
  LET at == b * MaxBlockSize
  IN at .. at + BLOCK_SIZE(pieces[slot.piece].size, b) - 1

\* Every block that is marked came as it was asked for.
Whole == \A b \in slot.blocks : Asked(b) \subseteq carried

\* The bytes of the slot's piece that arrived: those of whole messages, and of the
\* one under way.
Arrived ==
  carried \cup (IF pc = "block" /\ msg.index = slot.piece
                THEN msg.start .. msg.begin - 1 ELSE {})

Carved == pc \notin {"enter", "carve"}

AllThere == \A f \in File : sizes[f] > 0 => exist[f]

\* The types of the variables (struct data_loop, s_piece, s_btpiece).
TypeOK ==
  /\ sizes \in [File -> 0 .. MaxFileSize]
  /\ exist \in [File -> BOOLEAN]
  /\ psize \in PieceSizes
  /\ i \in 0 .. NbFiles
  /\ \A p \in DOMAIN pieces :
       /\ pieces[p].file \in 0 .. NbFiles - 1
       /\ pieces[p].size \in 1 .. psize
       /\ pieces[p].block_count \in 1 .. pieces[p].size
       /\ pieces[p].state \in {"MISSING", "FETCHING", "AVAILABLE"}
  /\ dl.size \in Nat /\ dl.exist \in BOOLEAN
  /\ pc \in {"enter", "carve", "idle", "block", "done", "closed"}
  /\ slot.piece \in DOMAIN pieces \cup {NoPiece}
  /\ msg.left \in 0 .. psize + 1
  /\ carried \subseteq 0 .. psize - 1

\* The loop of pieces_create cuts the torrent without gap or overlap: there are
\* as many pieces as the torrent has, each of its length, and what piece_check
\* hashes of each is the bytes of the piece and no other, whatever empty and
\* short files it spans.
PiecesCoverTorrent ==
  Carved =>
    /\ DOMAIN pieces = {p \in 0 .. Total : p * psize < Total}
    /\ \A p \in DOMAIN pieces : BytesRead(pieces, p) = PieceBytes(p)

\* A piece is available only if all its bytes are right on disk, whether it was
\* found on start or received, provided that the blocks came whole: what piece_check
\* reads, what BLOCK_SIZE asks for and what piece_get_buffer writes agree.
AvailableIsRight ==
  \A p \in DOMAIN pieces :
    pieces[p].state = "AVAILABLE" /\ (p = slot.piece => Whole)
      => PieceBytes(p) \subseteq right

\* A restart over a complete set of files misses no piece that is right: it is
\* never fetched again.
ResumeFindsRightPieces ==
  Carved /\ AllThere =>
    \A p \in DOMAIN pieces :
      PieceBytes(p) \subseteq right /\ PieceBytes(p) \cap written = {}
        => pieces[p].state = "AVAILABLE"

\* What arrives lands in its place, wherever it begins and however short it is: the
\* bytes written are those of the offsets that arrived of the slot's piece, no more
\* and no less, and none lies outside the piece.  (Whether they make up the block that
\* receive_piece_cleanup marks is up to the peer.)
BlocksInPlace ==
  /\ slot.piece = NoPiece => written = {}
  /\ slot.piece # NoPiece =>
       /\ written = {Home(slot.piece * psize + x) : x \in Arrived}
       /\ written \subseteq PieceBytes(slot.piece)

\* receive_piece_iter comes to the end of every block: each turn takes at least
\* a byte, also at the end of a file and across empty ones.
BlocksEnd == (pc = "block") ~> (pc # "block")
=============================================================================
