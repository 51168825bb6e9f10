---------------------------- MODULE FileMap_proofs ----------------------------
(***************************************************************************)
(* Where the bytes of a torrent go, for any number of files, sizes, piece  *)
(* lengths and block size: first the invariants, then what the recursive   *)
(* functions of FileMap compute, then one lemma for every step.            *)
(***************************************************************************)
EXTENDS FileMap, TLAPS, WellFoundedInduction

\* The constants of a run, which no step changes.
Layout ==
  /\ sizes \in [File -> 0 .. MaxFileSize]
  /\ exist \in [File -> BOOLEAN]
  /\ psize \in PieceSizes

\* The bytes from a to b - 1 of the torrent.
Segment(a, b) == {Home(x) : x \in a .. b - 1}

\* What of the torrent pieces_create has gone through.
Covered == IF pc = "carve" THEN Offset(i + 1) ELSE Offset(i)

LoopTyped ==
  /\ i \in 0 .. NbFiles
  /\ dl \in [cur_piece : Nat, size : Nat, piece_file : 0 .. NbFiles, exist : BOOLEAN]
  /\ pc \in {"enter", "carve", "idle", "block", "done", "closed"}
  /\ pc = "carve" => i < NbFiles /\ sizes[i] > 0
  /\ Carved => i = NbFiles

\* The next piece begins after the ones that are there, in the file dl.piece_file or
\* behind it; less than a piece is left over when a file is entered.
LoopKept ==
  /\ dl.cur_piece * psize + dl.size = Covered
  /\ Offset(dl.piece_file) <= dl.cur_piece * psize
  /\ dl.size < IF pc = "carve" THEN psize + sizes[i] ELSE psize

\* The last piece is there once the loop is over.
Count == IF Carved /\ dl.size > 0 THEN dl.cur_piece + 1 ELSE dl.cur_piece

PieceKept(p) ==
  /\ pieces[p] \in [file : File, size : 1 .. psize, block_count : Nat,
                    state : {"MISSING", "FETCHING", "AVAILABLE"}]
  /\ Offset(pieces[p].file) <= p * psize
  /\ pieces[p].size = IF p < dl.cur_piece THEN psize ELSE dl.size
  /\ pieces[p].block_count = REQUIRED_BLOCKS(pieces[p].size)

TableKept == DOMAIN pieces = 0 .. Count - 1 /\ \A p \in DOMAIN pieces : PieceKept(p)

\* Over a complete set of files every piece with right bytes is found, as long as no
\* block has been written to it.
Found ==
  AllThere =>
    /\ dl.exist
    /\ \A p \in DOMAIN pieces :
         PieceBytes(p) \subseteq right /\ PieceBytes(p) \cap written = {}
           => pieces[p].state = "AVAILABLE"

SlotTyped ==
  /\ slot \in [piece : Int, blocks : SUBSET Nat]
  /\ slot.piece \in DOMAIN pieces \cup {NoPiece}
  /\ slot.piece = NoPiece => slot.blocks = {} /\ carried = {}
  /\ slot.piece # NoPiece => carried \subseteq 0 .. pieces[slot.piece].size - 1
  /\ ~Carved => slot.piece = NoPiece
  /\ written \subseteq right

\* The piece of the slot becomes available only when it is finished.
SlotFetches == slot.piece # NoPiece /\ pc # "done" => pieces[slot.piece].state = "FETCHING"

MsgTyped == msg \in [index : Nat, start : Nat, begin : Nat, left : 0 .. psize + 1]

\* A message of which a part was taken is one that fits in its piece: what is refused
\* has brought nothing.
MsgKept ==
  pc = "block" =>
    /\ slot.piece # NoPiece
    /\ msg.index \in DOMAIN pieces
    /\ msg.start <= msg.begin
    /\ msg.start < msg.begin => msg.begin + msg.left <= pieces[msg.index].size

\* The inductive invariant.
CutKept == Layout /\ LoopTyped /\ LoopKept /\ TableKept
FetchKept ==
  SlotTyped /\ SlotFetches /\ MsgTyped /\ MsgKept /\ BlocksInPlace /\ AvailableIsRight /\ Found

-----------------------------------------------------------------------------
(* Induction, stated with sets *)

LEMMA LeastElement ==
  ASSUME NEW T \in SUBSET Nat, T # {}
  PROVE  \E n \in T : \A m \in T : n <= m
<1>1. PICK n \in T : \A m \in T : <<m, n>> \notin OpToRel(<, Nat)
  BY WFMin, NatLessThanWellFounded, Zenon
<1>2. \A m \in T : <<m, n>> \in Nat \X Nat /\ <<m, n>>[1] = m /\ <<m, n>>[2] = n
  OBVIOUS
<1>3. \A m \in T : ~(m < n)
  BY <1>1, <1>2 DEF OpToRel
<1> QED
  BY <1>3

\* What holds of 0, and of n + 1 whenever it holds of n, holds of every number.
LEMMA SetInduction ==
  ASSUME NEW S \in SUBSET Nat, 0 \in S, \A n \in S : n + 1 \in S
  PROVE  S = Nat
<1> SUFFICES ASSUME Nat \ S # {} PROVE FALSE
  OBVIOUS
<1>1. PICK n \in Nat \ S : \A m \in Nat \ S : n <= m
  BY LeastElement
<1>2. n - 1 \in S
  BY <1>1
<1> QED
  BY <1>2

-----------------------------------------------------------------------------
(* Arithmetic *)

LEMMA MinOfTwo ==
  ASSUME NEW a \in Int, NEW b \in Int
  PROVE  Min({a, b}) = IF a <= b THEN a ELSE b
<1>1. \E x \in {a, b} : \A y \in {a, b} : x <= y
  OBVIOUS
<1>2. Min({a, b}) \in {a, b} /\ \A y \in {a, b} : Min({a, b}) <= y
  BY <1>1 DEF Min
<1> QED
  BY <1>2

LEMMA MaxOfTwo ==
  ASSUME NEW a \in Int, NEW b \in Int
  PROVE  Max({a, b}) = IF a <= b THEN b ELSE a
<1>1. \E x \in {a, b} : \A y \in {a, b} : x >= y
  OBVIOUS
<1>2. Max({a, b}) \in {a, b} /\ \A y \in {a, b} : Max({a, b}) >= y
  BY <1>1 DEF Max
<1> QED
  BY <1>2

LEMMA MinOfThree ==
  ASSUME NEW a \in Int, NEW b \in Int, NEW c \in Int
  PROVE  /\ Min({a, b, c}) \in {a, b, c}
         /\ Min({a, b, c}) <= a /\ Min({a, b, c}) <= b /\ Min({a, b, c}) <= c
<1>1. \E x \in {a, b, c} : \A y \in {a, b, c} : x <= y
  OBVIOUS
<1>2. Min({a, b, c}) \in {a, b, c} /\ \A y \in {a, b, c} : Min({a, b, c}) <= y
  BY <1>1 DEF Min
<1> QED
  BY <1>2

LEMMA TimesMonotone ==
  ASSUME NEW a \in Nat, NEW b \in Nat, NEW k \in Nat, a <= b
  PROVE  a * k <= b * k
<1>1. (b - a) * k >= 0
  BY SMT
<1>2. b * k = a * k + (b - a) * k
  BY SMT
<1> QED
  BY <1>1, <1>2

LEMMA TimesNext ==
  ASSUME NEW a \in Int, NEW k \in Int
  PROVE  a * k \in Int /\ (a + 1) * k = a * k + k
BY SMT

LEMMA TimesNat ==
  ASSUME NEW a \in Nat, NEW k \in Nat
  PROVE  a * k \in Nat /\ (k > 0 => a <= a * k)
BY SMT

LEMMA Division ==
  ASSUME NEW a \in Nat, NEW k \in Nat \ {0}
  PROVE  /\ a \div k \in Nat /\ a % k \in 0 .. k - 1
         /\ a = ((a \div k) * k) + (a % k)
BY SMT

-----------------------------------------------------------------------------
(* The offsets of multifile_init *)

LEMMA OffsetEquation ==
  ASSUME Layout
  PROVE  /\ Offset(0) = 0
         /\ \A f \in File : Offset(f + 1) = Offset(f) + sizes[f]
<1> DEFINE Adds(g, n) ==
      g = [f \in 0 .. n |-> IF f = 0 THEN 0 ELSE g[f - 1] + sizes[f - 1]]
<1> DEFINE S == {n \in Nat : \E g : Adds(g, n)}
<1>1. 0 \in S
  <2>1. Adds([f \in 0 .. 0 |-> 0], 0)
    OBVIOUS
  <2> QED
    BY <2>1
<1>2. ASSUME NEW n \in S PROVE n + 1 \in S
  <2>1. PICK g : Adds(g, n)
    OBVIOUS
  <2> DEFINE h == [f \in 0 .. n + 1 |-> IF f = n + 1 THEN g[n] + sizes[n] ELSE g[f]]
  <2>2. \A f \in 0 .. n : h[f] = g[f]
    OBVIOUS
  <2>3. \A f \in 0 .. n + 1 : h[f] = IF f = 0 THEN 0 ELSE h[f - 1] + sizes[f - 1]
    <3> SUFFICES ASSUME NEW f \in 0 .. n + 1
                 PROVE  h[f] = IF f = 0 THEN 0 ELSE h[f - 1] + sizes[f - 1]
      OBVIOUS
    <3>1. CASE f = n + 1
      BY <2>2, <3>1
    <3>2. CASE f # n + 1
      <4>1. f \in 0 .. n /\ (f # 0 => f - 1 \in 0 .. n)
        BY <3>2
      <4>2. g[f] = IF f = 0 THEN 0 ELSE g[f - 1] + sizes[f - 1]
        BY <2>1, <4>1
      <4> QED
        BY <2>2, <4>1, <4>2
    <3> QED
      BY <3>1, <3>2
  <2>4. h = [f \in 0 .. n + 1 |-> h[f]]
    OBVIOUS
  <2> HIDE DEF h
  <2>5. Adds(h, n + 1)
    BY <2>3, <2>4
  <2> QED
    BY <2>5
<1>3. S = Nat
  <2> HIDE DEF S
  <2> QED
    BY <1>1, <1>2, SetInduction DEF S
<1> DEFINE offset == CHOOSE g : Adds(g, NbFiles)
<1>4. Adds(offset, NbFiles)
  <2>1. NbFiles \in S
    BY <1>3, SizesAssumption
  <2>2. \E g : Adds(g, NbFiles)
    BY <2>1
  <2> QED
    BY <2>2, Zenon
<1>5. \A f : Offset(f) = offset[f]
  BY Zenon DEF Offset
<1> HIDE DEF offset
<1>6. \A f \in 0 .. NbFiles : offset[f] = IF f = 0 THEN 0 ELSE offset[f - 1] + sizes[f - 1]
  BY <1>4
<1>7. offset[0] = 0
  BY <1>6, SizesAssumption
<1>8. ASSUME NEW f \in File PROVE offset[f + 1] = offset[f] + sizes[f]
  <2>1. f + 1 \in 0 .. NbFiles /\ f + 1 # 0 /\ (f + 1) - 1 = f
    BY SizesAssumption DEF File
  <2> QED
    BY <1>6, <2>1
<1> QED
  BY <1>5, <1>7, <1>8

LEMMA OffsetNat ==
  ASSUME Layout
  PROVE  /\ \A f \in 0 .. NbFiles : Offset(f) \in Nat
         /\ \A f \in File : Offset(f) <= Offset(f + 1) /\ sizes[f] \in Nat
<1> DEFINE S == {f \in Nat : f <= NbFiles => Offset(f) \in Nat}
<1>1. \A f \in File : sizes[f] \in Nat
  BY SizesAssumption DEF Layout
<1>2. 0 \in S
  BY OffsetEquation
<1>3. ASSUME NEW f \in S PROVE f + 1 \in S
  BY <1>1, OffsetEquation, SizesAssumption DEF File
<1>4. S = Nat
  <2> HIDE DEF S
  <2> QED
    BY <1>2, <1>3, SetInduction DEF S
<1>5. \A f \in 0 .. NbFiles : Offset(f) \in Nat
  BY <1>4, SizesAssumption
<1> QED
  BY <1>1, <1>5, OffsetEquation, SizesAssumption DEF File

LEMMA OffsetMonotone ==
  ASSUME Layout, NEW f \in 0 .. NbFiles, NEW g \in 0 .. NbFiles, f <= g
  PROVE  Offset(f) <= Offset(g)
<1> DEFINE S == {d \in Nat : f + d <= NbFiles => Offset(f) <= Offset(f + d)}
<1>1. 0 \in S
  BY OffsetNat
<1>2. ASSUME NEW d \in S PROVE d + 1 \in S
  <2> SUFFICES ASSUME f + d + 1 <= NbFiles PROVE Offset(f) <= Offset(f + (d + 1))
    OBVIOUS
  <2>1. f + d \in File /\ f + d + 1 \in 0 .. NbFiles /\ f + (d + 1) = (f + d) + 1
    BY SizesAssumption DEF File
  <2>2. Offset(f) <= Offset(f + d) /\ Offset(f) \in Nat
    BY OffsetNat, SizesAssumption
  <2>3. Offset(f + d) <= Offset((f + d) + 1)
    BY <2>1, OffsetNat
  <2>4. Offset(f + d) \in Nat /\ Offset((f + d) + 1) \in Nat
    BY <2>1, OffsetNat, SizesAssumption DEF File
  <2> QED
    BY <2>1, <2>2, <2>3, <2>4
<1>3. S = Nat
  <2> HIDE DEF S
  <2> QED
    BY <1>1, <1>2, SetInduction DEF S
<1>4. \A d \in Nat : f + d <= NbFiles => Offset(f) <= Offset(f + d)
  BY <1>3
<1> HIDE DEF S
<1>5. g - f \in Nat /\ f + (g - f) = g
  BY SizesAssumption
<1>6. f + (g - f) <= NbFiles => Offset(f) <= Offset(f + (g - f))
  BY <1>4, <1>5
<1> QED
  BY <1>5, <1>6

-----------------------------------------------------------------------------
(* The file of a byte *)

LEMMA FileOfByte ==
  ASSUME Layout, NEW x \in 0 .. Total - 1
  PROVE  \E f \in File : Offset(f) <= x /\ x < Offset(f) + sizes[f]
<1> DEFINE After == {f \in 0 .. NbFiles : x < Offset(f)}
<1>1. NbFiles \in After
  BY OffsetNat, SizesAssumption DEF Total
<1>2. After \in SUBSET Nat
  OBVIOUS
<1> HIDE DEF After
<1>3. PICK g \in After : \A h \in After : g <= h
  BY <1>1, <1>2, LeastElement
<1>4. g \in 0 .. NbFiles /\ x < Offset(g) /\ g # 0
  BY OffsetEquation DEF After
<1>5. g - 1 \in File /\ g - 1 \in 0 .. NbFiles /\ g - 1 \notin After
  BY <1>3, <1>4, SizesAssumption DEF File
<1>6. Offset(g - 1) <= x
  BY <1>5, OffsetNat DEF After
<1>7. Offset(g) = Offset(g - 1) + sizes[g - 1]
  BY <1>4, <1>5, OffsetEquation
<1> QED
  BY <1>4, <1>5, <1>6, <1>7

LEMMA FileUnique ==
  ASSUME Layout, NEW x \in Int, NEW f \in File, NEW g \in File,
         Offset(f) <= x, x < Offset(f) + sizes[f],
         Offset(g) <= x, x < Offset(g) + sizes[g]
  PROVE  f = g
<1>1. ASSUME NEW a \in File, NEW b \in File, a < b PROVE Offset(a) + sizes[a] <= Offset(b)
  <2>1. a + 1 \in 0 .. NbFiles /\ b \in 0 .. NbFiles /\ a + 1 <= b
    BY <1>1, SizesAssumption DEF File
  <2>2. Offset(a + 1) = Offset(a) + sizes[a]
    BY OffsetEquation
  <2> QED
    BY <2>1, <2>2, OffsetMonotone
<1>2. f \in Int /\ g \in Int /\ Offset(f) \in Int /\ Offset(g) \in Int
      /\ sizes[f] \in Int /\ sizes[g] \in Int
  BY OffsetNat, SizesAssumption DEF File
<1>3. ~(f < g) /\ ~(g < f)
  BY <1>1, <1>2
<1> QED
  BY <1>2, <1>3

\* Home takes a byte of the torrent to its file, and every byte of a file is met.
LEMMA HomeOfByte ==
  ASSUME Layout, NEW f \in File, NEW x \in Int, Offset(f) <= x, x < Offset(f) + sizes[f]
  PROVE  x \in 0 .. Total - 1 /\ Home(x) = <<f, x - Offset(f)>>
<1>1. /\ f \in 0 .. NbFiles /\ f + 1 \in 0 .. NbFiles /\ NbFiles \in 0 .. NbFiles
      /\ f + 1 <= NbFiles
  BY SizesAssumption DEF File
<1>2. Offset(f) \in Nat /\ Offset(f + 1) \in Nat /\ Offset(NbFiles) \in Nat /\ sizes[f] \in Nat
  BY <1>1, OffsetNat
<1>3. Offset(f + 1) = Offset(f) + sizes[f] /\ Offset(f + 1) <= Offset(NbFiles)
  BY <1>1, OffsetEquation, OffsetMonotone
<1>4. x \in 0 .. Total - 1
  BY <1>2, <1>3 DEF Total
<1>5. \A g \in File : x \in Offset(g) .. Offset(g) + sizes[g] - 1 <=> g = f
  <2> SUFFICES ASSUME NEW g \in File
               PROVE  x \in Offset(g) .. Offset(g) + sizes[g] - 1 <=> g = f
    OBVIOUS
  <2>1. g \in 0 .. NbFiles /\ Offset(g) \in Int /\ sizes[g] \in Int
    BY OffsetNat, SizesAssumption DEF File
  <2>2. x \in Offset(g) .. Offset(g) + sizes[g] - 1 => g = f
    BY <2>1, FileUnique
  <2> QED
    BY <2>1, <2>2
<1>6. (CHOOSE g \in File : x \in Offset(g) .. Offset(g) + sizes[g] - 1) = f
  BY <1>5
<1> QED
  BY <1>4, <1>6 DEF Home

LEMMA InSegment ==
  ASSUME NEW a, NEW b, NEW x \in a .. b - 1
  PROVE  Home(x) \in Segment(a, b)
BY DEF Segment

LEMMA SegmentWithin ==
  ASSUME NEW a, NEW b, NEW S, \A x \in a .. b - 1 : Home(x) \in S
  PROVE  Segment(a, b) \subseteq S
BY DEF Segment

-----------------------------------------------------------------------------
(* piece_check reads the bytes of the piece *)

LEMMA BytesReadOfPiece ==
  ASSUME Layout, NEW table, NEW p \in Nat,
         table[p].file \in File, table[p].size \in Nat,
         Offset(table[p].file) <= p * psize, p * psize + table[p].size <= Total
  PROVE  BytesRead(table, p) = Segment(p * psize, p * psize + table[p].size)
<1> DEFINE off == p * psize
<1> DEFINE target == off + table[p].size
<1> DEFINE first == table[p].file
<1> DEFINE part(f) == Max({Offset(f), off}) .. Min({target, Offset(f) + sizes[f]}) - 1
<1> DEFINE read == {f \in first .. NbFiles - 1 : Offset(f) < target}
<1>1. off \in Nat /\ target \in Nat /\ Offset(first) <= off /\ target <= Total /\ first \in File
  BY TimesNat, SizesAssumption DEF Layout
<1>2. BytesRead(table, p) = UNION {{<<f, x - Offset(f)>> : x \in part(f)} : f \in read}
  BY DEF BytesRead
<1>3. Segment(off, target) = {Home(x) : x \in off .. target - 1}
  BY DEF Segment
<1>4. \A f \in File : Offset(f) \in Nat /\ sizes[f] \in Nat
  BY OffsetNat, SizesAssumption DEF File
<1>5. \A f \in first .. NbFiles - 1 : f \in File
  BY <1>1, SizesAssumption DEF File
<1> HIDE DEF off, target, first
<1>6. \A f \in File : part(f) = {x \in off .. target - 1 : Offset(f) <= x /\ x < Offset(f) + sizes[f]}
  <2> SUFFICES ASSUME NEW f \in File
               PROVE  part(f) = {x \in off .. target - 1 : Offset(f) <= x /\ x < Offset(f) + sizes[f]}
    OBVIOUS
  <2>1. /\ Max({Offset(f), off}) = IF Offset(f) <= off THEN off ELSE Offset(f)
        /\ Min({target, Offset(f) + sizes[f]})
             = IF target <= Offset(f) + sizes[f] THEN target ELSE Offset(f) + sizes[f]
    BY <1>1, <1>4, MinOfTwo, MaxOfTwo
  <2> QED
    BY <1>1, <1>4, <2>1
<1> HIDE DEF part
<1>7. \A f \in File : \A x \in part(f) : x \in off .. target - 1 /\ Home(x) = <<f, x - Offset(f)>>
  BY <1>1, <1>6, HomeOfByte
<1>8. \A x \in off .. target - 1 : \E f \in read : x \in part(f)
  <2> SUFFICES ASSUME NEW x \in off .. target - 1 PROVE \E f \in read : x \in part(f)
    OBVIOUS
  <2>1. Total \in Nat
    BY OffsetNat, SizesAssumption DEF Total
  <2>2. PICK f \in File : Offset(f) <= x /\ x < Offset(f) + sizes[f]
    BY <1>1, <2>1, FileOfByte
  <2>3. x \in part(f)
    BY <1>6, <2>2
  <2>4. first <= f
    <3> SUFFICES ASSUME f + 1 <= first PROVE FALSE
      BY <1>1, SizesAssumption DEF File
    <3>1. f + 1 \in 0 .. NbFiles /\ first \in 0 .. NbFiles
      BY <1>1, SizesAssumption DEF File
    <3>2. Offset(f) + sizes[f] <= Offset(first)
      BY <3>1, OffsetMonotone, OffsetEquation
    <3> QED
      BY <1>1, <1>4, <2>2, <3>2
  <2>5. f \in first .. NbFiles - 1 /\ Offset(f) < target
    BY <1>1, <1>4, <2>2, <2>4, SizesAssumption DEF File
  <2> QED
    BY <2>3, <2>5
<1>9. \A f \in read : f \in File
  BY <1>5
<1> HIDE DEF read
<1>10. BytesRead(table, p) = {Home(x) : x \in off .. target - 1}
  <2>1. ASSUME NEW b \in BytesRead(table, p) PROVE b \in {Home(x) : x \in off .. target - 1}
    <3>1. PICK f \in read : b \in {<<f, x - Offset(f)>> : x \in part(f)}
      BY <1>2
    <3>2. PICK x \in part(f) : b = <<f, x - Offset(f)>>
      BY <3>1
    <3> QED
      BY <1>7, <1>9, <3>2
  <2>2. ASSUME NEW x \in off .. target - 1 PROVE Home(x) \in BytesRead(table, p)
    <3>1. PICK f \in read : x \in part(f)
      BY <1>8
    <3>2. Home(x) = <<f, x - Offset(f)>>
      BY <1>7, <1>9, <3>1
    <3> QED
      BY <1>2, <3>1, <3>2
  <2> QED
    BY <2>1, <2>2
<1> QED
  BY <1>3, <1>10 DEF off, target

-----------------------------------------------------------------------------
(* piece_get_buffer finds the file of a byte *)

LEMMA WalkFindsByte ==
  ASSUME Layout, NEW f \in File, NEW o \in Nat, Offset(f) + o < Total
  PROVE  \E g \in File, q \in Nat :
           Walk[f][o] = <<g, q>> /\ q < sizes[g] /\ Offset(g) + q = Offset(f) + o
<1> DEFINE Loops(w) ==
      w = [g \in 0 .. NbFiles |->
             [q \in Nat |-> IF g < NbFiles /\ q >= sizes[g] THEN w[g + 1][q - sizes[g]]
                            ELSE <<g, q>>]]
<1> DEFINE at(x) == IF x < Total THEN Home(x) ELSE <<NbFiles, x - Total>>
<1> DEFINE place(g, q) == at(Offset(g) + q)
<1>1. /\ \A g \in 0 .. NbFiles : Offset(g) \in Nat
      /\ \A g \in 0 .. NbFiles : g < NbFiles =>
           /\ g \in File /\ g + 1 \in 0 .. NbFiles
           /\ sizes[g] \in Nat /\ Offset(g + 1) = Offset(g) + sizes[g]
  BY OffsetNat, OffsetEquation, SizesAssumption DEF File
<1>2. \A g \in 0 .. NbFiles, q \in Nat :
        place(g, q) = IF g < NbFiles /\ q >= sizes[g] THEN place(g + 1, q - sizes[g]) ELSE <<g, q>>
  <2> SUFFICES ASSUME NEW g \in 0 .. NbFiles, NEW q \in Nat
               PROVE  place(g, q) = IF g < NbFiles /\ q >= sizes[g]
                                    THEN place(g + 1, q - sizes[g]) ELSE <<g, q>>
    OBVIOUS
  <2>1. CASE g < NbFiles /\ q >= sizes[g]
    <3>1. Offset(g + 1) + (q - sizes[g]) = Offset(g) + q
      BY <1>1, <2>1
    <3> HIDE DEF at
    <3>2. place(g + 1, q - sizes[g]) = place(g, q)
      BY <3>1
    <3> HIDE DEF place
    <3> QED
      BY <2>1, <3>2
  <2>2. CASE g < NbFiles /\ ~(q >= sizes[g])
    <3>1. g \in File /\ Offset(g) + q \in Int /\ Offset(g) <= Offset(g) + q
          /\ Offset(g) + q < Offset(g) + sizes[g]
      BY <1>1, <2>2
    <3>2. Offset(g) + q \in 0 .. Total - 1 /\ Home(Offset(g) + q) = <<g, (Offset(g) + q) - Offset(g)>>
      BY <3>1, HomeOfByte
    <3>3. Offset(g) + q < Total /\ (Offset(g) + q) - Offset(g) = q
      BY <1>1, <3>2, SizesAssumption DEF Total
    <3> QED
      BY <2>2, <3>2, <3>3
  <2>3. CASE ~(g < NbFiles)
    <3>1. g = NbFiles /\ Offset(g) = Total /\ Total \in Nat
      BY <1>1, <2>3, SizesAssumption DEF Total
    <3>2. ~(Offset(g) + q < Total) /\ (Offset(g) + q) - Total = q
      BY <3>1
    <3>3. place(g, q) = <<NbFiles, (Offset(g) + q) - Total>>
      BY <3>2
    <3> QED
      BY <2>3, <3>1, <3>2, <3>3
  <2> QED
    BY <2>1, <2>2, <2>3
<1> HIDE DEF place, at
<1>3. Loops([g \in 0 .. NbFiles |-> [q \in Nat |-> place(g, q)]])
  <2> DEFINE w == [g \in 0 .. NbFiles |-> [q \in Nat |-> place(g, q)]]
  <2>1. \A g \in 0 .. NbFiles, q \in Nat :
          g < NbFiles /\ q >= sizes[g] => w[g + 1][q - sizes[g]] = place(g + 1, q - sizes[g])
    <3> SUFFICES ASSUME NEW g \in 0 .. NbFiles, NEW q \in Nat, g < NbFiles, q >= sizes[g]
                 PROVE  w[g + 1][q - sizes[g]] = place(g + 1, q - sizes[g])
      OBVIOUS
    <3>1. g + 1 \in 0 .. NbFiles /\ q - sizes[g] \in Nat
      BY <1>1
    <3> QED
      BY <3>1
  <2> HIDE DEF w
  <2>2. \A g \in 0 .. NbFiles, q \in Nat :
          place(g, q) = IF g < NbFiles /\ q >= sizes[g] THEN w[g + 1][q - sizes[g]] ELSE <<g, q>>
    BY <1>2, <2>1
  <2>3. w = [g \in 0 .. NbFiles |->
               [q \in Nat |-> IF g < NbFiles /\ q >= sizes[g] THEN w[g + 1][q - sizes[g]]
                              ELSE <<g, q>>]]
    BY <2>2 DEF w
  <2> QED
    BY <2>3 DEF w
<1> DEFINE walk == CHOOSE w : Loops(w)
<1>4. Loops(walk)
  BY <1>3, Zenon
<1>5. Walk = walk
  BY Zenon DEF Walk
<1> HIDE DEF walk
<1>6. \A g \in 0 .. NbFiles, q \in Nat :
        walk[g][q] = IF g < NbFiles /\ q >= sizes[g] THEN walk[g + 1][q - sizes[g]] ELSE <<g, q>>
  <2> SUFFICES ASSUME NEW g \in 0 .. NbFiles
               PROVE  \A q \in Nat :
                        walk[g][q] = IF g < NbFiles /\ q >= sizes[g]
                                     THEN walk[g + 1][q - sizes[g]] ELSE <<g, q>>
    OBVIOUS
  <2>1. walk[g] = [q \in Nat |-> IF g < NbFiles /\ q >= sizes[g]
                                 THEN walk[g + 1][q - sizes[g]] ELSE <<g, q>>]
    BY <1>4
  <2> QED
    BY <2>1, Zenon
<1> HIDE DEF Loops
<1> DEFINE S == {d \in Nat : d <= NbFiles =>
                   \A q \in Nat : walk[NbFiles - d][q] = place(NbFiles - d, q)}
<1>7. 0 \in S
  <2>1. NbFiles - 0 \in 0 .. NbFiles /\ ~(NbFiles - 0 < NbFiles)
    BY SizesAssumption
  <2> QED
    BY <1>2, <1>6, <2>1
<1>8. ASSUME NEW d \in S PROVE d + 1 \in S
  <2> SUFFICES ASSUME d + 1 <= NbFiles, NEW q \in Nat
               PROVE  walk[NbFiles - (d + 1)][q] = place(NbFiles - (d + 1), q)
    OBVIOUS
  <2> DEFINE g == NbFiles - (d + 1)
  <2>1. \A r \in Nat : walk[NbFiles - d][r] = place(NbFiles - d, r)
    BY SizesAssumption
  <2>2. g \in 0 .. NbFiles /\ g < NbFiles /\ g + 1 = NbFiles - d
    BY SizesAssumption
  <2> HIDE DEF g, S
  <2>3. q >= sizes[g] => q - sizes[g] \in Nat
    BY <1>1, <2>2
  <2>4. walk[g][q] = place(g, q)
    BY <1>2, <1>6, <2>1, <2>2, <2>3
  <2> QED
    BY <2>4 DEF g
<1>9. S = Nat
  <2> HIDE DEF S
  <2> QED
    BY <1>7, <1>8, SetInduction DEF S
<1>10. walk[f][o] = place(f, o)
  <2>1. \A d \in Nat : d <= NbFiles => \A q \in Nat : walk[NbFiles - d][q] = place(NbFiles - d, q)
    BY <1>9
  <2> HIDE DEF S
  <2>2. NbFiles - f \in Nat /\ NbFiles - f <= NbFiles /\ NbFiles - (NbFiles - f) = f
    BY SizesAssumption DEF File
  <2> QED
    BY <2>1, <2>2
<1> DEFINE x == Offset(f) + o
<1>11. x \in 0 .. Total - 1 /\ place(f, o) = Home(x)
  <2>1. f \in 0 .. NbFiles /\ NbFiles \in 0 .. NbFiles
    BY SizesAssumption DEF File
  <2> QED
    BY <1>1, <2>1 DEF place, at, Total
<1> HIDE DEF x
<1>12. PICK g \in File : Offset(g) <= x /\ x < Offset(g) + sizes[g]
  BY <1>11, FileOfByte
<1>13. Offset(g) \in Nat /\ sizes[g] \in Nat /\ x \in Int
  BY <1>11, <1>12, OffsetNat, SizesAssumption DEF File
<1>14. Home(x) = <<g, x - Offset(g)>>
  BY <1>12, <1>13, HomeOfByte
<1>15. x - Offset(g) \in Nat /\ x - Offset(g) < sizes[g] /\ Offset(g) + (x - Offset(g)) = x
  BY <1>12, <1>13
<1>16. Walk[f][o] = <<g, x - Offset(g)>>
  BY <1>5, <1>10, <1>11, <1>14
<1> QED
  BY <1>12, <1>15, <1>16 DEF x

-----------------------------------------------------------------------------
(* The blocks of a piece *)

LEMMA RequiredBlocks ==
  ASSUME NEW size \in Nat \ {0}
  PROVE  /\ REQUIRED_BLOCKS(size) \in 1 .. size
         /\ \A b \in Nat : b < REQUIRED_BLOCKS(size) <=> b * MaxBlockSize < size
<1> DEFINE M == MaxBlockSize
<1> DEFINE n == size + M - 1
<1> DEFINE q == n \div M
<1>1. M \in Nat \ {0} /\ n \in Nat
  BY SizesAssumption
<1>2. q \in Nat /\ n = (q * M) + (n % M) /\ n % M \in 0 .. M - 1 /\ q * M \in Nat
  BY <1>1, Division, TimesNat
<1>3. REQUIRED_BLOCKS(size) = q
  BY DEF REQUIRED_BLOCKS
<1> HIDE DEF q
<1>4. size <= q * M /\ q * M <= size + M - 1
  BY <1>1, <1>2
<1>5. q >= 1
  <2>1. 0 * M = 0
    BY <1>1
  <2> QED
    BY <1>1, <1>2, <1>4, <2>1
<1>6. q <= size
  <2> SUFFICES ASSUME size + 1 <= q PROVE FALSE
    BY <1>2
  <2>1. (size + 1) * M <= q * M
    BY <1>1, <1>2, TimesMonotone
  <2>2. (size + 1) * M = size * M + M /\ size * M \in Nat /\ size <= size * M
    BY <1>1, TimesNext, SMT
  <2> QED
    BY <1>1, <1>2, <1>4, <2>1, <2>2
<1>7. ASSUME NEW b \in Nat PROVE b < q <=> b * M < size
  <2>1. b * M \in Nat /\ (b + 1) * M = b * M + M
    BY <1>1, TimesNat, TimesNext
  <2>2. ASSUME b < q PROVE b * M < size
    <3>1. (b + 1) * M <= q * M
      BY <1>1, <1>2, <2>2, TimesMonotone
    <3> QED
      BY <1>1, <1>2, <1>4, <2>1, <3>1
  <2>3. ASSUME q <= b PROVE size <= b * M
    <3>1. q * M <= b * M
      BY <1>1, <1>2, <2>3, TimesMonotone
    <3> QED
      BY <1>1, <1>2, <1>4, <2>1, <3>1
  <2> QED
    BY <1>2, <2>1, <2>2, <2>3
<1> QED
  BY <1>2, <1>3, <1>5, <1>6, <1>7

\* BLOCK_SIZE asks for what is left of the piece, or for a whole block.
LEMMA BlockSize ==
  ASSUME NEW size \in Nat, NEW b \in Nat, b * MaxBlockSize < size
  PROVE  /\ BLOCK_SIZE(size, b) \in 0 .. MaxBlockSize
         /\ \/ (b + 1) * MaxBlockSize = b * MaxBlockSize + BLOCK_SIZE(size, b)
            \/ size = b * MaxBlockSize + BLOCK_SIZE(size, b)
<1> DEFINE M == MaxBlockSize
<1>1. M \in Nat \ {0}
  BY SizesAssumption
<1>2. b * M \in Nat /\ (b + 1) * M = b * M + M
  BY <1>1, TimesNat, TimesNext
<1>3. CASE (b + 1) * M <= size
  BY <1>1, <1>2, <1>3 DEF BLOCK_SIZE
<1>4. CASE ~((b + 1) * M <= size)
  <2> DEFINE q == size \div M
  <2>1. q \in Nat /\ size = (q * M) + (size % M) /\ size % M \in 0 .. M - 1 /\ q * M \in Nat
    BY <1>1, Division, TimesNat
  <2>2. BLOCK_SIZE(size, b) = size % M
    BY <1>4 DEF BLOCK_SIZE
  <2> HIDE DEF q
  <2>3. (q + 1) * M = q * M + M
    BY <1>1, <2>1, TimesNext
  <2>4. q = b
    <3>1. ASSUME q + 1 <= b PROVE FALSE
      <4>1. (q + 1) * M <= b * M
        BY <1>1, <2>1, <3>1, TimesMonotone
      <4> QED
        BY <1>1, <1>2, <2>1, <2>3, <4>1
    <3>2. ASSUME b + 1 <= q PROVE FALSE
      <4>1. (b + 1) * M <= q * M
        BY <1>1, <2>1, <3>2, TimesMonotone
      <4> QED
        BY <1>1, <1>2, <1>4, <2>1, <4>1
    <3> QED
      BY <2>1, <3>1, <3>2
  <2> QED
    BY <1>1, <2>1, <2>2, <2>4
<1> QED
  BY <1>3, <1>4

-----------------------------------------------------------------------------
(* The bytes of a piece *)

LEMMA PieceBytesOf ==
  ASSUME Layout, NEW p \in Nat, NEW size \in 0 .. psize, p * psize + size <= Total,
         size = psize \/ p * psize + size = Total
  PROVE  /\ Min({(p + 1) * psize, Total}) = p * psize + size
         /\ PieceBytes(p) = Segment(p * psize, p * psize + size)
<1>1. psize \in Nat /\ Total \in Nat
  BY OffsetNat, SizesAssumption DEF Layout, Total
<1>2. (p + 1) * psize = p * psize + psize /\ p * psize \in Nat
  BY <1>1, TimesNat, TimesNext
<1>3. Min({(p + 1) * psize, Total}) = IF (p + 1) * psize <= Total THEN (p + 1) * psize ELSE Total
  BY <1>1, <1>2, MinOfTwo
<1>4. Min({(p + 1) * psize, Total}) = p * psize + size
  BY <1>1, <1>2, <1>3
<1> QED
  BY <1>4 DEF PieceBytes, Segment

LEMMA CoveredBound ==
  ASSUME Layout, LoopTyped
  PROVE  Covered \in Nat /\ Covered <= Total /\ Total \in Nat /\ (Carved => Covered = Total)
<1>1. i \in 0 .. NbFiles /\ NbFiles \in 0 .. NbFiles /\ (pc = "carve" => i + 1 \in 0 .. NbFiles)
  BY SizesAssumption DEF LoopTyped
<1>2. CASE pc = "carve"
  BY <1>1, <1>2, OffsetNat, OffsetMonotone DEF Covered, Total, Carved
<1>3. CASE pc # "carve"
  BY <1>1, <1>3, OffsetNat, OffsetMonotone DEF Covered, Total, LoopTyped
<1> QED
  BY <1>2, <1>3

\* The pieces that are there lie within the torrent.
LEMMA PieceWithin ==
  ASSUME CutKept, NEW p \in DOMAIN pieces
  PROVE  /\ p \in Nat /\ pieces[p].size \in 1 .. psize
         /\ p * psize + pieces[p].size <= Total
         /\ pieces[p].size = psize \/ p * psize + pieces[p].size = Total
<1>1. psize \in Nat \ {0} /\ Covered \in Nat /\ Covered <= Total /\ Total \in Nat
      /\ (Carved => Covered = Total)
  BY CoveredBound, SizesAssumption DEF CutKept, Layout
<1>2. dl.cur_piece \in Nat /\ dl.size \in Nat /\ dl.cur_piece * psize + dl.size = Covered
  BY DEF CutKept, LoopTyped, LoopKept
<1>3. p \in Nat /\ (p < dl.cur_piece \/ (p = dl.cur_piece /\ Carved))
  BY <1>2 DEF CutKept, TableKept, Count
<1>4. pieces[p].size \in 1 .. psize /\ pieces[p].size = IF p < dl.cur_piece THEN psize ELSE dl.size
  BY DEF CutKept, TableKept, PieceKept
<1>5. CASE p < dl.cur_piece
  <2>1. (p + 1) * psize <= dl.cur_piece * psize
    BY <1>1, <1>2, <1>3, <1>5, TimesMonotone
  <2>2. (p + 1) * psize = p * psize + psize /\ p * psize \in Nat /\ dl.cur_piece * psize \in Nat
    BY <1>1, <1>2, <1>3, TimesNat, TimesNext
  <2> QED
    BY <1>1, <1>2, <1>3, <1>4, <1>5, <2>1, <2>2
<1>6. CASE p = dl.cur_piece /\ Carved
  BY <1>1, <1>2, <1>3, <1>4, <1>6
<1> QED
  BY <1>3, <1>5, <1>6

LEMMA BytesOfPiece ==
  ASSUME CutKept, NEW p \in DOMAIN pieces
  PROVE  /\ Min({(p + 1) * psize, Total}) = p * psize + pieces[p].size
         /\ PieceBytes(p) = Segment(p * psize, p * psize + pieces[p].size)
<1>1. /\ p \in Nat /\ pieces[p].size \in 0 .. psize
      /\ p * psize + pieces[p].size <= Total
      /\ pieces[p].size = psize \/ p * psize + pieces[p].size = Total
  BY PieceWithin, SizesAssumption DEF CutKept, Layout
<1> QED
  BY <1>1, PieceBytesOf DEF CutKept

-----------------------------------------------------------------------------
(* What a step leaves alone *)

LEMMA StepLayout == [Next]_vars => UNCHANGED layoutVars
BY DEF Next, vars, EnterFile, SkipEmptyFile, CarvePiece, LeaveFile, LastPiece, Select,
   BlockArrives, ReceivePart, DiscardBlock, RefuseBlock, BlockReceived, FinishPiece

LEMMA SameLayout ==
  ASSUME UNCHANGED layoutVars
  PROVE  /\ Layout => Layout'
         /\ Total' = Total /\ (AllThere' <=> AllThere)
         /\ \A f : Offset(f)' = Offset(f)
         /\ \A a, b : Segment(a, b)' = Segment(a, b)
         /\ \A p : PieceBytes(p)' = PieceBytes(p)
         /\ \A x : Home(x)' = Home(x)
<1>1. sizes' = sizes /\ exist' = exist /\ psize' = psize
  BY DEF layoutVars
<1>2. \A f : Offset(f)' = Offset(f)
  BY <1>1 DEF Offset
<1>3. \A x : Home(x)' = Home(x)
  BY <1>1, <1>2 DEF Home
<1>4. Total' = Total
  BY <1>2 DEF Total
<1>5. \A a, b : Segment(a, b)' = Segment(a, b)
  BY <1>3 DEF Segment
<1>6. \A p : PieceBytes(p)' = PieceBytes(p)
  BY <1>1, <1>3, <1>4 DEF PieceBytes
<1>7. (Layout => Layout') /\ (AllThere' <=> AllThere)
  BY <1>1 DEF Layout, AllThere
<1> QED
  BY <1>2, <1>3, <1>4, <1>5, <1>6, <1>7

-----------------------------------------------------------------------------
(* pieces_create *)

LEMMA InitCut == Init => CutKept
<1> SUFFICES ASSUME Init PROVE CutKept
  OBVIOUS
<1>1. Layout
  BY DEF Init, Layout
<1>2. psize \in Nat \ {0} /\ 0 * psize = 0 /\ Offset(0) = 0
  BY <1>1, OffsetEquation, SizesAssumption DEF Layout
<1>3. LoopTyped /\ ~Carved
  BY SizesAssumption DEF Init, LoopTyped, Carved
<1>4. LoopKept
  BY <1>2 DEF Init, LoopKept, Covered
<1>5. TableKept
  BY <1>3 DEF Init, TableKept, Count
<1> QED
  BY <1>1, <1>3, <1>4, <1>5 DEF CutKept

\* A piece is added behind the others; it is available if piece_check was called and
\* its bytes are right.
LEMMA AddedPiece ==
  ASSUME CutKept, ~Carved, NEW size \in 1 .. psize, AddPiece(size),
         dl.cur_piece * psize + size <= Total,
         size = psize \/ dl.cur_piece * psize + size = Total
  PROVE  /\ DOMAIN pieces' = 0 .. dl.cur_piece
         /\ \A p \in 0 .. dl.cur_piece - 1 : pieces'[p] = pieces[p]
         /\ dl.piece_file \in File
         /\ pieces'[dl.cur_piece] =
              [file |-> dl.piece_file, size |-> size, block_count |-> REQUIRED_BLOCKS(size),
               state |-> IF dl.exist /\ PieceBytes(dl.cur_piece) \subseteq right
                         THEN "AVAILABLE" ELSE "MISSING"]
<1> DEFINE c == dl.cur_piece
<1> DEFINE new == NewPiece(dl.piece_file, size)
<1> DEFINE table == [p \in DOMAIN pieces \cup {c} |-> IF p = c THEN new ELSE pieces[p]]
<1>1. c \in Nat /\ dl.piece_file \in 0 .. NbFiles /\ Offset(dl.piece_file) <= c * psize
      /\ psize \in Nat \ {0} /\ Layout
  BY SizesAssumption DEF CutKept, LoopTyped, LoopKept, Layout
<1>2. DOMAIN pieces = 0 .. c - 1
  BY DEF CutKept, TableKept, Count
<1>3. DOMAIN table = 0 .. c
  BY <1>1, <1>2
<1>4. \A p \in 0 .. c - 1 : table[p] = pieces[p]
  BY <1>1, <1>2
<1>5. table[c] = new
  BY <1>1, <1>2
<1>6. new = [file |-> dl.piece_file, size |-> size, block_count |-> REQUIRED_BLOCKS(size),
             state |-> "MISSING"]
  BY DEF NewPiece
<1>7. pieces' = IF dl.exist THEN Check(table, c) ELSE table
  BY DEF AddPiece
<1> HIDE DEF c, table, new
<1>8. dl.piece_file \in File
  <2> SUFFICES ASSUME dl.piece_file = NbFiles PROVE FALSE
    BY <1>1, SizesAssumption DEF File
  <2>1. Total <= c * psize /\ c * psize \in Nat /\ Total \in Nat
    BY <1>1, TimesNat, OffsetNat, SizesAssumption DEF Total
  <2> QED
    BY <2>1 DEF c
<1>9. BytesRead(table, c) = PieceBytes(c)
  <2>1. table[c].file = dl.piece_file /\ table[c].size = size
    BY <1>5, <1>6
  <2>2. size \in Nat /\ size \in 0 .. psize
    BY <1>1
  <2>3. BytesRead(table, c) = Segment(c * psize, c * psize + size)
    BY <1>1, <1>8, <2>1, <2>2, BytesReadOfPiece DEF c
  <2>4. PieceBytes(c) = Segment(c * psize, c * psize + size)
    BY <1>1, <2>2, PieceBytesOf DEF c
  <2> QED
    BY <2>3, <2>4
<1>10. pieces' = IF dl.exist /\ PieceBytes(c) \subseteq right
                 THEN [table EXCEPT ![c].state = "AVAILABLE"] ELSE table
  BY <1>7, <1>9 DEF Check
<1>11. DOMAIN pieces' = 0 .. c /\ \A p \in 0 .. c - 1 : pieces'[p] = pieces[p]
  BY <1>1, <1>3, <1>4, <1>10
<1>12. pieces'[c] = IF dl.exist /\ PieceBytes(c) \subseteq right
                    THEN [new EXCEPT !.state = "AVAILABLE"] ELSE new
  BY <1>1, <1>3, <1>5, <1>10
<1>13. [new EXCEPT !.state = "AVAILABLE"] =
         [file |-> dl.piece_file, size |-> size, block_count |-> REQUIRED_BLOCKS(size),
          state |-> "AVAILABLE"]
  BY <1>6
<1>14. pieces'[c] =
         [file |-> dl.piece_file, size |-> size, block_count |-> REQUIRED_BLOCKS(size),
          state |-> IF dl.exist /\ PieceBytes(c) \subseteq right THEN "AVAILABLE" ELSE "MISSING"]
  BY <1>6, <1>12, <1>13
<1> QED
  BY <1>8, <1>11, <1>14 DEF c

\* A piece that carve_piece or the end of pieces_create adds leaves the table in order.
LEMMA AddedTable ==
  ASSUME CutKept, ~Carved, UNCHANGED layoutVars, NEW size \in 1 .. psize, AddPiece(size),
         dl.cur_piece * psize + size <= Total,
         size = psize \/ dl.cur_piece * psize + size = Total,
         Count' = dl.cur_piece + 1,
         \/ dl'.cur_piece = dl.cur_piece + 1 /\ size = psize
         \/ dl' = dl /\ size = dl.size
  PROVE  TableKept'
<1> DEFINE c == dl.cur_piece
<1>1. /\ DOMAIN pieces' = 0 .. c
      /\ \A p \in 0 .. c - 1 : pieces'[p] = pieces[p]
      /\ dl.piece_file \in File
      /\ pieces'[c] = [file |-> dl.piece_file, size |-> size, block_count |-> REQUIRED_BLOCKS(size),
                       state |-> IF dl.exist /\ PieceBytes(c) \subseteq right
                                 THEN "AVAILABLE" ELSE "MISSING"]
  BY AddedPiece
<1>2. c \in Nat /\ dl.size \in Nat /\ psize \in Nat \ {0} /\ Offset(dl.piece_file) <= c * psize
  BY SizesAssumption DEF CutKept, LoopTyped, LoopKept, Layout
<1>3. psize' = psize /\ \A f : Offset(f)' = Offset(f)
  BY SameLayout DEF layoutVars
<1>4. ASSUME NEW p \in 0 .. c - 1 PROVE PieceKept(p)'
  <2>1. p \in DOMAIN pieces /\ PieceKept(p)
    BY DEF CutKept, TableKept, Count
  <2>2. p < dl.cur_piece /\ p < dl'.cur_piece
    BY <1>2
  <2> QED
    BY <1>1, <1>3, <2>1, <2>2 DEF PieceKept
<1>5. ASSUME NEW p, p = c PROVE PieceKept(p)'
  <2>1. REQUIRED_BLOCKS(size) \in Nat
    BY <1>2, RequiredBlocks
  <2>2. pieces'[c] \in [file : File, size : 1 .. psize', block_count : Nat,
                        state : {"MISSING", "FETCHING", "AVAILABLE"}]
    BY <1>1, <1>3, <2>1
  <2>3. pieces'[c].file = dl.piece_file /\ pieces'[c].size = size
        /\ pieces'[c].block_count = REQUIRED_BLOCKS(size)
    BY <1>1
  <2>4. size = IF c < dl'.cur_piece THEN psize' ELSE dl'.size
    BY <1>2, <1>3
  <2>5. \A f : f = dl.piece_file => Offset(f)' <= c * psize
    BY <1>2, <1>3
  <2> QED
    BY <1>3, <1>5, <2>2, <2>3, <2>4, <2>5 DEF PieceKept
<1>6. DOMAIN pieces' = 0 .. Count' - 1
  BY <1>1, <1>2
<1>7. \A p \in 0 .. c : p \in 0 .. c - 1 \/ p = c
  BY <1>2
<1>8. ASSUME NEW p \in 0 .. c PROVE PieceKept(p)'
  BY <1>4, <1>5, <1>7
<1> QED
  BY <1>1, <1>6, <1>8 DEF TableKept

\* The table is as it was, but for the states of its pieces.
LEMMA SameTable ==
  ASSUME CutKept, UNCHANGED layoutVars, Count' = Count,
         dl'.cur_piece = dl.cur_piece, dl'.size = dl.size \/ ~Carved,
         DOMAIN pieces' = DOMAIN pieces,
         \A p \in DOMAIN pieces :
           \/ pieces'[p] = pieces[p]
           \/ \E s \in {"FETCHING", "AVAILABLE"} : pieces'[p] = [pieces[p] EXCEPT !.state = s]
  PROVE  TableKept'
<1>1. psize' = psize /\ \A f : Offset(f)' = Offset(f)
  BY SameLayout DEF layoutVars
<1>2. dl.cur_piece \in Nat
  BY DEF CutKept, LoopTyped
<1>3. ASSUME NEW p \in DOMAIN pieces PROVE PieceKept(p)'
  <2>1. PieceKept(p)
    BY DEF CutKept, TableKept
  <2>2. p < dl.cur_piece \/ (Carved /\ dl'.size = dl.size)
    BY <1>2 DEF CutKept, TableKept, Count
  <2>3. /\ pieces'[p] \in [file : File, size : 1 .. psize, block_count : Nat,
                           state : {"MISSING", "FETCHING", "AVAILABLE"}]
        /\ pieces'[p].file = pieces[p].file /\ pieces'[p].size = pieces[p].size
        /\ pieces'[p].block_count = pieces[p].block_count
    BY <2>1 DEF PieceKept
  <2> QED
    BY <1>1, <2>1, <2>2, <2>3 DEF PieceKept
<1> QED
  BY <1>3 DEF CutKept, TableKept

LEMMA EnterCut ==
  ASSUME CutKept, EnterFile \/ SkipEmptyFile
  PROVE  CutKept'
<1>1. /\ UNCHANGED layoutVars /\ pieces' = pieces /\ dl'.cur_piece = dl.cur_piece
      /\ pc = "enter" /\ i < NbFiles /\ i \in 0 .. NbFiles /\ i \in File
  BY SizesAssumption DEF EnterFile, SkipEmptyFile, CutKept, LoopTyped, File
<1>2. sizes' = sizes /\ psize' = psize /\ Layout' /\ \A f : Offset(f)' = Offset(f)
  BY <1>1, SameLayout DEF layoutVars, CutKept
<1>3. /\ psize \in Nat \ {0} /\ sizes[i] \in Nat /\ dl.size \in Nat /\ dl.cur_piece \in Nat
      /\ dl.cur_piece * psize \in Nat
      /\ Offset(i + 1) = Offset(i) + sizes[i] /\ Offset(i) \in Nat
  BY <1>1, OffsetEquation, OffsetNat, TimesNat, SizesAssumption DEF CutKept, Layout, LoopTyped
<1>4. /\ dl.cur_piece * psize + dl.size = Offset(i) /\ dl.size < psize
      /\ Offset(dl.piece_file) <= dl.cur_piece * psize
  BY <1>1 DEF CutKept, LoopKept, Covered
<1>5. CASE EnterFile
  <2>1. /\ dl' = [dl EXCEPT !.size = dl.size + sizes[i]] /\ pc' = "carve" /\ i' = i
        /\ sizes[i] > 0
    BY <1>5 DEF EnterFile
  <2>2. /\ dl' \in [cur_piece : Nat, size : Nat, piece_file : 0 .. NbFiles, exist : BOOLEAN]
        /\ dl'.cur_piece = dl.cur_piece /\ dl'.size = dl.size + sizes[i]
        /\ dl'.piece_file = dl.piece_file
    BY <1>3, <2>1 DEF CutKept, LoopTyped
  <2>3. LoopTyped'
    BY <1>1, <1>2, <2>1, <2>2 DEF LoopTyped, Carved
  <2>4. Covered' = Offset(i + 1)
    BY <1>2, <2>1 DEF Covered
  <2>5. LoopKept'
    BY <1>2, <1>3, <1>4, <2>1, <2>2, <2>4 DEF LoopKept
  <2>6. TableKept'
    BY <1>1, <2>1, <2>2, SameTable DEF Count, Carved
  <2> QED
    BY <1>2, <2>3, <2>5, <2>6 DEF CutKept
<1>6. CASE SkipEmptyFile
  <2>1. dl' = dl /\ pc' = "enter" /\ i' = i + 1 /\ sizes[i] = 0
    BY <1>6 DEF SkipEmptyFile
  <2>2. LoopTyped'
    BY <1>1, <2>1, SizesAssumption DEF LoopTyped, Carved, CutKept
  <2>3. Covered' = Offset(i + 1)
    BY <1>2, <2>1 DEF Covered
  <2>4. LoopKept'
    BY <1>2, <1>3, <1>4, <2>1, <2>3 DEF LoopKept
  <2>5. TableKept'
    BY <1>1, <2>1, SameTable DEF Count, Carved
  <2> QED
    BY <1>2, <2>2, <2>4, <2>5 DEF CutKept
<1> QED
  BY <1>5, <1>6

LEMMA CarveFacts ==
  ASSUME CutKept, CarvePiece
  PROVE  /\ i \in File /\ psize \in Nat \ {0} /\ sizes[i] \in Nat
         /\ dl.size \in Nat /\ dl.cur_piece \in Nat /\ dl.cur_piece * psize \in Nat
         /\ (dl.cur_piece + 1) * psize = dl.cur_piece * psize + psize
         /\ Offset(i + 1) = Offset(i) + sizes[i] /\ Offset(i) \in Nat
         /\ dl.cur_piece * psize + dl.size = Offset(i + 1)
         /\ psize <= dl.size /\ dl.size < psize + sizes[i]
         /\ dl.cur_piece * psize + psize <= Total
<1>1. pc = "carve" /\ dl.size >= psize
  BY DEF CarvePiece
<1>2. /\ i \in File /\ psize \in Nat \ {0} /\ dl.size \in Nat /\ dl.cur_piece \in Nat
  BY <1>1, SizesAssumption DEF CutKept, Layout, LoopTyped, File
<1>3. /\ sizes[i] \in Nat /\ Offset(i + 1) = Offset(i) + sizes[i] /\ Offset(i) \in Nat
  BY <1>2, OffsetEquation, OffsetNat, SizesAssumption DEF CutKept, File
<1>4. /\ dl.cur_piece * psize + dl.size = Offset(i + 1)
      /\ dl.size < psize + sizes[i]
  BY <1>1 DEF CutKept, LoopKept, Covered
<1>5. Offset(i + 1) <= Total /\ Total \in Nat
  BY <1>1, CoveredBound DEF CutKept, Covered
<1>6. (dl.cur_piece + 1) * psize = dl.cur_piece * psize + psize /\ dl.cur_piece * psize \in Nat
  BY <1>2, TimesNat, TimesNext
<1> QED
  BY <1>1, <1>2, <1>3, <1>4, <1>5, <1>6

LEMMA CarveCut ==
  ASSUME CutKept, CarvePiece
  PROVE  CutKept'
<1> DEFINE left == dl.size - psize
<1>1. /\ UNCHANGED layoutVars /\ pc = "carve" /\ pc' = pc /\ i' = i /\ AddPiece(psize)
      /\ dl' = [dl EXCEPT !.cur_piece = dl.cur_piece + 1, !.size = left,
                          !.piece_file = NextFile(left)]
  BY DEF CarvePiece
<1>2. sizes' = sizes /\ psize' = psize /\ Layout' /\ \A f : Offset(f)' = Offset(f)
  BY <1>1, SameLayout DEF layoutVars, CutKept
<1>3. left \in Nat /\ left < sizes[i] /\ i \in File /\ i + 1 \in 0 .. NbFiles /\ i \in 0 .. NbFiles
  BY CarveFacts, SizesAssumption DEF File
<1>4. NextFile(left) = IF left = 0 THEN i + 1 ELSE i
  BY DEF NextFile
<1>5. Offset(NextFile(left)) <= (dl.cur_piece + 1) * psize
  <2>1. CASE left = 0
    BY <1>4, <2>1, CarveFacts
  <2>2. CASE left # 0
    BY <1>3, <1>4, <2>2, CarveFacts
  <2> QED
    BY <2>1, <2>2
<1>6. NextFile(left) \in 0 .. NbFiles
  BY <1>3, <1>4
<1> DEFINE file == NextFile(left)
<1>7. /\ dl' \in [cur_piece : Nat, size : Nat, piece_file : 0 .. NbFiles, exist : BOOLEAN]
      /\ dl'.cur_piece = dl.cur_piece + 1 /\ dl'.size = left /\ dl'.piece_file = file
  <2>1. dl' = [dl EXCEPT !.cur_piece = dl.cur_piece + 1, !.size = left, !.piece_file = file]
    BY <1>1
  <2>2. left \in Nat /\ file \in 0 .. NbFiles /\ dl.cur_piece + 1 \in Nat
    BY <1>3, <1>6, CarveFacts
  <2>3. dl \in [cur_piece : Nat, size : Nat, piece_file : 0 .. NbFiles, exist : BOOLEAN]
    BY DEF CutKept, LoopTyped
  <2> HIDE DEF left, file
  <2> QED
    BY <2>1, <2>2, <2>3
<1>8. LoopTyped'
  BY <1>1, <1>2, <1>7 DEF LoopTyped, Carved, CutKept
<1>9. Covered' = Offset(i + 1)
  BY <1>1, <1>2 DEF Covered
<1>10. LoopKept'
  <2>1. dl'.cur_piece * psize' + dl'.size = Covered'
    BY <1>2, <1>7, <1>9, CarveFacts
  <2>2. \A f : f = dl'.piece_file => Offset(f)' <= dl'.cur_piece * psize'
    BY <1>2, <1>5, <1>7
  <2>3. dl'.size < psize' + sizes'[i']
    BY <1>1, <1>2, <1>3, <1>7, CarveFacts
  <2> QED
    BY <1>1, <2>1, <2>2, <2>3 DEF LoopKept
<1>11. TableKept'
  <2>1. psize \in 1 .. psize
    BY CarveFacts
  <2>2. Count' = dl.cur_piece + 1 /\ ~Carved
    BY <1>1, <1>7 DEF Count, Carved
  <2> QED
    BY <1>1, <1>7, <2>1, <2>2, CarveFacts, AddedTable
<1> QED
  BY <1>2, <1>8, <1>10, <1>11 DEF CutKept

LEMMA LeaveCut ==
  ASSUME CutKept, LeaveFile
  PROVE  CutKept'
<1>1. /\ UNCHANGED layoutVars /\ pieces' = pieces /\ pc = "carve" /\ pc' = "enter" /\ i' = i + 1
      /\ dl' = [dl EXCEPT !.exist = ExistAfter] /\ dl.size < psize
  BY DEF LeaveFile
<1>2. sizes' = sizes /\ psize' = psize /\ Layout' /\ \A f : Offset(f)' = Offset(f)
  BY <1>1, SameLayout DEF layoutVars, CutKept
<1>3. i \in File
  BY <1>1, SizesAssumption DEF CutKept, LoopTyped, File
<1>4. ExistAfter \in BOOLEAN
  BY <1>3 DEF ExistAfter, CutKept, LoopTyped, Layout
<1>5. /\ dl' \in [cur_piece : Nat, size : Nat, piece_file : 0 .. NbFiles, exist : BOOLEAN]
      /\ dl'.cur_piece = dl.cur_piece /\ dl'.size = dl.size /\ dl'.piece_file = dl.piece_file
  BY <1>1, <1>4 DEF CutKept, LoopTyped
<1>6. LoopTyped'
  BY <1>1, <1>3, <1>5, SizesAssumption DEF LoopTyped, Carved, CutKept, File
<1>7. Covered' = Covered
  BY <1>1, <1>2 DEF Covered
<1>8. LoopKept'
  <2>1. \A f : f = dl'.piece_file => Offset(f)' <= dl'.cur_piece * psize'
    BY <1>2, <1>5 DEF CutKept, LoopKept
  <2> QED
    BY <1>1, <1>2, <1>5, <1>7, <2>1 DEF CutKept, LoopKept
<1>9. TableKept'
  BY <1>1, <1>5, SameTable DEF Count, Carved
<1> QED
  BY <1>2, <1>6, <1>8, <1>9 DEF CutKept

LEMMA LastFacts ==
  ASSUME CutKept, LastPiece
  PROVE  /\ dl.cur_piece * psize + dl.size = Total /\ dl.size \in 0 .. psize
         /\ dl.size < psize /\ dl.cur_piece \in Nat /\ ~Carved
<1>1. pc = "enter" /\ i = NbFiles
  BY DEF LastPiece
<1>2. dl.size \in Nat /\ dl.cur_piece \in Nat /\ psize \in Nat
  BY SizesAssumption DEF CutKept, Layout, LoopTyped
<1>3. dl.cur_piece * psize + dl.size = Total /\ dl.size < psize
  BY <1>1 DEF CutKept, LoopKept, Covered, Total
<1> QED
  BY <1>1, <1>2, <1>3 DEF Carved

LEMMA LastCut ==
  ASSUME CutKept, LastPiece
  PROVE  CutKept'
<1>1. /\ UNCHANGED <<layoutVars, loopVars>> /\ pc = "enter" /\ pc' = "idle" /\ i = NbFiles
      /\ IF dl.size > 0 THEN AddPiece(dl.size) ELSE UNCHANGED pieces
  BY DEF LastPiece
<1>2. dl' = dl /\ i' = i
  BY <1>1 DEF loopVars
<1>3. sizes' = sizes /\ psize' = psize /\ Layout' /\ \A f : Offset(f)' = Offset(f)
  BY <1>1, SameLayout DEF layoutVars, CutKept
<1>4. LoopTyped'
  BY <1>1, <1>2, <1>3 DEF LoopTyped, Carved, CutKept
<1>5. LoopKept'
  <2>1. Covered' = Covered
    BY <1>1, <1>2, <1>3 DEF Covered
  <2> QED
    BY <1>1, <1>2, <1>3, <2>1 DEF CutKept, LoopKept
<1>6. TableKept'
  <2>1. CASE dl.size > 0
    <3>1. dl.size \in 1 .. psize /\ dl.cur_piece * psize + dl.size <= Total /\ Total \in Nat
      BY <2>1, LastFacts, CoveredBound DEF CutKept
    <3>2. Count' = dl.cur_piece + 1
      BY <1>1, <1>2, <2>1 DEF Count, Carved
    <3> QED
      BY <1>1, <1>2, <2>1, <3>1, <3>2, LastFacts, AddedTable
  <2>2. CASE ~(dl.size > 0)
    <3>1. Count' = Count
      BY <1>1, <1>2, <2>2 DEF Count, Carved
    <3> QED
      BY <1>1, <1>2, <2>2, <3>1, SameTable
  <2> QED
    BY <2>1, <2>2
<1> QED
  BY <1>3, <1>4, <1>5, <1>6 DEF CutKept

\* Fetching changes nothing of a piece but its state.
LEMMA FetchCut ==
  ASSUME CutKept, Carved, Carved', pc' \in {"idle", "block", "done", "closed"},
         UNCHANGED <<layoutVars, loopVars>>,
         \/ pieces' = pieces
         \/ \E p \in DOMAIN pieces, s \in {"FETCHING", "AVAILABLE"} :
              pieces' = [pieces EXCEPT ![p].state = s]
  PROVE  CutKept'
<1>1. dl' = dl /\ i' = i
  BY DEF loopVars
<1>2. sizes' = sizes /\ psize' = psize /\ Layout' /\ \A f : Offset(f)' = Offset(f)
  BY SameLayout DEF layoutVars, CutKept
<1>3. LoopTyped'
  BY <1>1 DEF LoopTyped, Carved, CutKept
<1>4. LoopKept'
  <2>1. Covered' = Covered
    BY <1>1, <1>2 DEF Covered, Carved
  <2> QED
    BY <1>1, <1>2, <2>1 DEF CutKept, LoopKept, Carved
<1>5. Count' = Count
  BY <1>1 DEF Count
<1>6. /\ DOMAIN pieces' = DOMAIN pieces
      /\ \A p \in DOMAIN pieces :
           \/ pieces'[p] = pieces[p]
           \/ \E s \in {"FETCHING", "AVAILABLE"} : pieces'[p] = [pieces[p] EXCEPT !.state = s]
  OBVIOUS
<1>7. TableKept'
  BY <1>1, <1>5, <1>6, SameTable
<1> QED
  BY <1>2, <1>3, <1>4, <1>7 DEF CutKept

LEMMA CutStep ==
  ASSUME CutKept, SlotTyped, [Next]_vars
  PROVE  CutKept'
<1>1. CASE EnterFile \/ SkipEmptyFile
  BY <1>1, EnterCut
<1>2. CASE CarvePiece
  BY <1>2, CarveCut
<1>3. CASE LeaveFile
  BY <1>3, LeaveCut
<1>4. CASE LastPiece
  BY <1>4, LastCut
<1>5. ASSUME NEW p \in DOMAIN pieces, Select(p) \/ \E begin \in 0 .. psize : BlockArrives(p, begin)
      PROVE  CutKept'
  <2>1. CASE Select(p)
    BY <2>1, FetchCut DEF Select, Carved
  <2>2. ASSUME NEW begin \in 0 .. psize, BlockArrives(p, begin) PROVE CutKept'
    BY <2>2, FetchCut DEF BlockArrives, Carved
  <2> QED
    BY <1>5, <2>1, <2>2
<1>6. CASE ReceivePart
  BY <1>6, FetchCut DEF ReceivePart, Carved
<1>7. CASE DiscardBlock
  BY <1>7, FetchCut DEF DiscardBlock, Carved
<1>8. CASE RefuseBlock
  BY <1>8, FetchCut DEF RefuseBlock, Carved
<1>9. CASE BlockReceived
  BY <1>9, FetchCut DEF BlockReceived, Carved
<1>10. CASE FinishPiece
  <2>1. slot.piece \in DOMAIN pieces /\ pieces' = [pieces EXCEPT ![slot.piece].state = "AVAILABLE"]
    BY <1>10 DEF FinishPiece, SlotTyped
  <2>2. /\ pc = "idle" /\ pc' = "done" /\ UNCHANGED <<layoutVars, loopVars>>
    BY <1>10 DEF FinishPiece
  <2> QED
    BY <2>1, <2>2, FetchCut DEF Carved
<1>11. CASE UNCHANGED vars
  <2>1. /\ sizes' = sizes /\ exist' = exist /\ psize' = psize /\ i' = i /\ dl' = dl
        /\ pieces' = pieces /\ pc' = pc
    BY <1>11 DEF vars, layoutVars, loopVars
  <2>2. Layout' /\ \A f : Offset(f)' = Offset(f)
    BY <2>1, SameLayout DEF layoutVars, CutKept
  <2>3. Covered' = Covered /\ Count' = Count
    BY <2>1, <2>2 DEF Covered, Count, Carved
  <2>4. LoopTyped' /\ LoopKept'
    BY <2>1, <2>2, <2>3 DEF LoopTyped, LoopKept, Carved, CutKept
  <2>5. TableKept'
    BY <2>1, <2>3, SameTable DEF layoutVars
  <2> QED
    BY <2>2, <2>4, <2>5 DEF CutKept
<1> QED
  BY <1>1, <1>2, <1>3, <1>4, <1>5, <1>6, <1>7, <1>8, <1>9, <1>10, <1>11 DEF Next

-----------------------------------------------------------------------------
(* What piece_check finds *)

LEMMA InitFetch == Init => FetchKept
<1> SUFFICES ASSUME Init PROVE FetchKept
  OBVIOUS
<1>1. pieces = << >> /\ DOMAIN pieces = {}
  BY DEF Init
<1>2. SlotTyped
  BY <1>1 DEF Init, SlotTyped, NoPiece
<1>3. MsgTyped
  <2>1. psize \in Nat
    BY SizesAssumption DEF Init
  <2> QED
    BY <2>1 DEF Init, MsgTyped
<1>4. MsgKept /\ BlocksInPlace /\ SlotFetches
  BY DEF Init, MsgKept, BlocksInPlace, SlotFetches
<1>5. AvailableIsRight /\ Found
  BY <1>1 DEF Init, AvailableIsRight, Found
<1> QED
  BY <1>2, <1>3, <1>4, <1>5 DEF FetchKept

\* As long as pieces are cut, no block has come; a piece that is added is available
\* only if it is right, and whenever it is if its files were there.
LEMMA CutFetch ==
  ASSUME CutKept, FetchKept,
         EnterFile \/ SkipEmptyFile \/ CarvePiece \/ LeaveFile \/ LastPiece
  PROVE  FetchKept'
<1>1. /\ UNCHANGED <<layoutVars, slotVars, right>> /\ ~Carved /\ pc' # "block"
      /\ pc' \in {"enter", "carve", "idle"}
  BY DEF EnterFile, SkipEmptyFile, CarvePiece, LeaveFile, LastPiece, Carved
<1>2. /\ slot' = slot /\ msg' = msg /\ written' = written /\ right' = right
      /\ carried' = carried /\ psize' = psize
  BY <1>1 DEF slotVars, layoutVars
<1>3. slot.piece = NoPiece /\ slot.blocks = {} /\ written = {} /\ carried = {}
  BY <1>1 DEF FetchKept, SlotTyped, BlocksInPlace
<1>4. SlotTyped' /\ SlotFetches'
  BY <1>2, <1>3 DEF FetchKept, SlotTyped, SlotFetches
<1>5. MsgTyped' /\ MsgKept'
  BY <1>1, <1>2 DEF FetchKept, MsgTyped, MsgKept
<1>6. BlocksInPlace'
  BY <1>2, <1>3 DEF BlocksInPlace
<1>7. /\ \A p : PieceBytes(p)' = PieceBytes(p)
      /\ AllThere' <=> AllThere
  BY <1>1, SameLayout
<1>8. CASE pieces' = pieces
  <2>1. AvailableIsRight'
    <3>1. \A p \in DOMAIN pieces : p # NoPiece
      BY DEF CutKept, TableKept, NoPiece
    <3> QED
      BY <1>2, <1>3, <1>7, <1>8, <3>1 DEF FetchKept, AvailableIsRight
  <2>2. AllThere => dl'.exist
    <3>1. CASE EnterFile \/ SkipEmptyFile \/ LastPiece \/ CarvePiece
      <4>1. dl'.exist = dl.exist
        BY <3>1 DEF EnterFile, SkipEmptyFile, LastPiece, CarvePiece, loopVars, CutKept, LoopTyped
      <4> QED
        BY <4>1 DEF FetchKept, Found
    <3>2. CASE LeaveFile
      <4>1. i \in File /\ sizes[i] > 0 /\ dl'.exist = ExistAfter
        BY <3>2, SizesAssumption DEF LeaveFile, CutKept, LoopTyped, File
      <4> QED
        BY <4>1 DEF ExistAfter, AllThere, FetchKept, Found
    <3> QED
      BY <3>1, <3>2
  <2>3. Found'
    BY <1>2, <1>7, <1>8, <2>2 DEF FetchKept, Found
  <2> QED
    BY <1>4, <1>5, <1>6, <2>1, <2>3 DEF FetchKept
<1>9. ASSUME NEW size \in 1 .. psize, AddPiece(size), dl.cur_piece * psize + size <= Total,
             size = psize \/ dl.cur_piece * psize + size = Total, dl'.exist = dl.exist
      PROVE  FetchKept'
  <2> DEFINE c == dl.cur_piece
  <2>1. /\ DOMAIN pieces' = 0 .. c
        /\ \A p \in 0 .. c - 1 : pieces'[p] = pieces[p]
        /\ pieces'[c] = [file |-> dl.piece_file, size |-> size,
                         block_count |-> REQUIRED_BLOCKS(size),
                         state |-> IF dl.exist /\ PieceBytes(c) \subseteq right
                                   THEN "AVAILABLE" ELSE "MISSING"]
    BY <1>1, <1>9, AddedPiece
  <2>2. c \in Nat /\ DOMAIN pieces = 0 .. c - 1
    BY <1>1 DEF CutKept, LoopTyped, TableKept, Count
  <2>3. pieces'[c].state = IF dl.exist /\ PieceBytes(c) \subseteq right
                           THEN "AVAILABLE" ELSE "MISSING"
    BY <2>1
  <2>4. \A p \in DOMAIN pieces' : p = c \/ (p \in DOMAIN pieces /\ pieces'[p] = pieces[p])
    BY <2>1, <2>2
  <2> HIDE DEF c
  <2>5. AvailableIsRight'
    <3> SUFFICES ASSUME NEW p \in DOMAIN pieces', pieces'[p].state = "AVAILABLE"
                 PROVE  PieceBytes(p) \subseteq right
      BY <1>2, <1>7 DEF AvailableIsRight
    <3>1. \A q \in DOMAIN pieces : q # slot.piece
      BY <1>3, <2>2 DEF NoPiece
    <3> QED
      BY <2>3, <2>4, <3>1 DEF FetchKept, AvailableIsRight
  <2>6. Found'
    <3> SUFFICES ASSUME AllThere
                 PROVE  /\ dl'.exist
                        /\ \A p \in DOMAIN pieces' :
                             PieceBytes(p) \subseteq right => pieces'[p].state = "AVAILABLE"
      BY <1>2, <1>3, <1>7 DEF Found
    <3>1. /\ dl.exist
          /\ \A p \in DOMAIN pieces :
               PieceBytes(p) \subseteq right => pieces[p].state = "AVAILABLE"
      BY <1>3 DEF FetchKept, Found
    <3> QED
      BY <1>9, <2>3, <2>4, <3>1
  <2> QED
    BY <1>4, <1>5, <1>6, <2>5, <2>6 DEF FetchKept
<1>10. CASE EnterFile \/ SkipEmptyFile \/ LeaveFile
  BY <1>8, <1>10 DEF EnterFile, SkipEmptyFile, LeaveFile
<1>11. CASE CarvePiece
  <2>1. psize \in 1 .. psize /\ dl.cur_piece * psize + psize <= Total
    BY <1>11, CarveFacts
  <2>2. AddPiece(psize) /\ dl'.exist = dl.exist
    BY <1>11 DEF CarvePiece, CutKept, LoopTyped
  <2> QED
    BY <1>9, <2>1, <2>2
<1>12. CASE LastPiece
  <2>1. CASE dl.size > 0
    <3>1. /\ dl.size \in 1 .. psize /\ dl.cur_piece * psize + dl.size = Total
          /\ Total \in Nat
      BY <1>12, <2>1, LastFacts, CoveredBound DEF CutKept
    <3>2. AddPiece(dl.size) /\ dl'.exist = dl.exist
      BY <1>12, <2>1 DEF LastPiece, loopVars
    <3> QED
      BY <1>9, <3>1, <3>2
  <2>2. CASE ~(dl.size > 0)
    BY <1>8, <1>12, <2>2 DEF LastPiece
  <2> QED
    BY <2>1, <2>2
<1> QED
  BY <1>10, <1>11, <1>12

-----------------------------------------------------------------------------
(* receive_piece_iter and what follows it *)

\* The blocks that decision_send asks for are all of the piece.
LEMMA BlocksCoverPiece ==
  ASSUME CutKept, slot.piece \in DOMAIN pieces, Whole,
         slot.blocks = 0 .. pieces[slot.piece].block_count - 1
  PROVE  0 .. pieces[slot.piece].size - 1 \subseteq carried
<1> DEFINE M == MaxBlockSize
<1> DEFINE size == pieces[slot.piece].size
<1>1. M \in Nat \ {0} /\ size \in Nat \ {0}
  BY PieceWithin, SizesAssumption DEF CutKept, Layout
<1>2. pieces[slot.piece].block_count = REQUIRED_BLOCKS(size)
  BY DEF CutKept, TableKept, PieceKept
<1> HIDE DEF size
<1> SUFFICES ASSUME NEW y \in 0 .. size - 1 PROVE y \in carried
  BY DEF size
<1> DEFINE b == y \div M
<1>3. y \in Nat
  BY <1>1
<1>4. b \in Nat /\ y = (b * M) + (y % M) /\ y % M \in 0 .. M - 1 /\ b * M \in Nat
  BY <1>1, <1>3, Division, TimesNat
<1> HIDE DEF b
<1>5. b * M <= y /\ y < b * M + M /\ y < size
  BY <1>1, <1>4
<1>6. b * M < size
  BY <1>1, <1>4, <1>5
<1>7. b \in slot.blocks
  <2>1. b < REQUIRED_BLOCKS(size) /\ REQUIRED_BLOCKS(size) \in Nat
    BY <1>1, <1>4, <1>6, RequiredBlocks
  <2> QED
    BY <1>2, <1>4, <2>1
<1>8. /\ BLOCK_SIZE(size, b) \in 0 .. M
      /\ (b + 1) * M = b * M + BLOCK_SIZE(size, b) \/ size = b * M + BLOCK_SIZE(size, b)
  BY <1>1, <1>4, <1>6, BlockSize
<1>9. (b + 1) * M = b * M + M
  BY <1>1, <1>4, TimesNext
<1>10. y < b * M + BLOCK_SIZE(size, b)
  BY <1>1, <1>4, <1>5, <1>8, <1>9
<1>11. y \in Asked(b)
  <2>1. Asked(b) = b * M .. b * M + BLOCK_SIZE(size, b) - 1
    BY Zenon DEF Asked, size
  <2> QED
    BY <1>1, <1>4, <1>5, <1>8, <1>10, <2>1
<1> QED
  BY <1>7, <1>11 DEF Whole

\* One turn of receive_piece_iter writes the next bytes of the piece, and no other.
LEMMA PartInPlace ==
  ASSUME CutKept, SlotTyped, MsgTyped, MsgKept, ReceivePart
  PROVE  \E part \in 1 .. msg.left :
           LET x == msg.index * psize + msg.begin IN
           /\ msg.begin + part <= pieces[msg.index].size
           /\ written' = written \cup Segment(x, x + part)
           /\ right' = right \cup Segment(x, x + part)
           /\ msg' = [msg EXCEPT !.left = msg.left - part, !.begin = msg.begin + part]
<1> DEFINE p == msg.index
<1> DEFINE x == p * psize + msg.begin
<1> DEFINE first == pieces[p].file
<1> DEFINE o == msg.begin + p * psize - Offset(first)
<1> DEFINE at == Walk[first][o]
<1>1. p \in DOMAIN pieces /\ msg.left > 0 /\ msg.left + msg.begin <= pieces[p].size
  BY DEF ReceivePart, MsgKept
<1>2. p \in Nat /\ pieces[p].size \in Nat /\ p * psize + pieces[p].size <= Total
  BY <1>1, PieceWithin, SizesAssumption DEF CutKept, Layout
<1>3. /\ psize \in Nat /\ p * psize \in Nat /\ msg.begin \in Nat /\ msg.left \in Nat /\ Total \in Nat
  BY <1>2, TimesNat, CoveredBound, SizesAssumption DEF CutKept, Layout, MsgTyped
<1>4. first \in File /\ Offset(first) <= p * psize
  BY <1>1 DEF CutKept, TableKept, PieceKept
<1>5. Offset(first) \in Nat
  BY <1>4, OffsetNat, SizesAssumption DEF CutKept, File
<1>6. o \in Nat /\ Offset(first) + o = x /\ x \in Nat /\ x < Total
  BY <1>1, <1>2, <1>3, <1>4, <1>5
<1>7. PICK g \in File, q \in Nat : at = <<g, q>> /\ q < sizes[g] /\ Offset(g) + q = x
  BY <1>4, <1>6, WalkFindsByte DEF CutKept
<1>8. at[1] = g /\ at[2] = q
  BY <1>7
<1> DEFINE part == Min({msg.left, pieces[p].size - msg.begin, sizes[g] - q})
<1>9. /\ PartSize(at[1], at[2]) = part
  BY <1>8 DEF PartSize
<1> DEFINE bytes == {<<g, y>> : y \in q .. q + part - 1}
<1>10. /\ written' = written \cup bytes /\ right' = right \cup bytes
       /\ msg' = [msg EXCEPT !.left = msg.left - part, !.begin = msg.begin + part]
  BY <1>8, <1>9 DEF ReceivePart
<1>11. sizes[g] \in Nat /\ Offset(g) \in Nat
  BY OffsetNat, SizesAssumption DEF CutKept, File
<1>12. /\ part \in 1 .. msg.left /\ msg.begin + part <= pieces[p].size /\ q + part <= sizes[g]
  <2>1. /\ part \in {msg.left, pieces[p].size - msg.begin, sizes[g] - q}
        /\ part <= msg.left /\ part <= pieces[p].size - msg.begin /\ part <= sizes[g] - q
    <3>1. msg.left \in Int /\ pieces[p].size - msg.begin \in Int /\ sizes[g] - q \in Int
      BY <1>2, <1>3, <1>11
    <3> HIDE DEF p
    <3> QED
      BY <3>1, MinOfThree
  <2> HIDE DEF part
  <2> QED
    BY <1>1, <1>2, <1>3, <1>7, <1>11, <2>1
<1> HIDE DEF part, x, p, at
<1>13. \A y \in q .. q + part - 1 : Home(Offset(g) + y) = <<g, y>>
  <2> SUFFICES ASSUME NEW y \in q .. q + part - 1 PROVE Home(Offset(g) + y) = <<g, y>>
    OBVIOUS
  <2>1. /\ Offset(g) + y \in Int /\ Offset(g) <= Offset(g) + y
        /\ Offset(g) + y < Offset(g) + sizes[g] /\ (Offset(g) + y) - Offset(g) = y
    BY <1>11, <1>12
  <2> QED
    BY <2>1, HomeOfByte DEF CutKept
<1>14. bytes = Segment(x, x + part)
  <2>1. ASSUME NEW y \in q .. q + part - 1 PROVE <<g, y>> \in Segment(x, x + part)
    <3>1. Offset(g) + y \in x .. (x + part) - 1
      BY <1>7, <1>11, <1>12
    <3>2. Home(Offset(g) + y) \in Segment(x, x + part)
      BY <3>1, InSegment
    <3> QED
      BY <1>13, <3>2
  <2>2. ASSUME NEW z \in x .. (x + part) - 1 PROVE Home(z) \in bytes
    <3>1. z - Offset(g) \in q .. q + part - 1 /\ Offset(g) + (z - Offset(g)) = z
      BY <1>6, <1>7, <1>11, <1>12
    <3>2. Home(z) = <<g, z - Offset(g)>>
      BY <1>13, <3>1
    <3> QED
      BY <3>1, <3>2
  <2>3. bytes \subseteq Segment(x, x + part)
    BY <2>1
  <2> HIDE DEF bytes
  <2>4. Segment(x, x + part) \subseteq bytes
    BY <2>2, SegmentWithin
  <2> QED
    BY <2>3, <2>4
<1> QED
  BY <1>10, <1>12, <1>14 DEF x, p

\* More right bytes cannot make an available piece wrong, and a piece without written
\* bytes was as right before.
LEMMA WrittenFound ==
  ASSUME CutKept, FetchKept, NEW S, UNCHANGED <<layoutVars, dl, pieces>>,
         slot'.piece = slot.piece, pc # "done",
         written' = written \cup S, right' = right \cup S
  PROVE  AvailableIsRight' /\ Found'
<1>1. /\ \A p : PieceBytes(p)' = PieceBytes(p)
      /\ AllThere' <=> AllThere
  BY SameLayout
<1>2. AvailableIsRight'
  <2> SUFFICES ASSUME NEW p \in DOMAIN pieces, pieces[p].state = "AVAILABLE"
               PROVE  PieceBytes(p) \subseteq right'
    BY <1>1 DEF AvailableIsRight
  <2>1. p # slot.piece
    BY DEF CutKept, TableKept, NoPiece, FetchKept, SlotFetches
  <2> QED
    BY <2>1 DEF FetchKept, AvailableIsRight
<1>3. Found'
  <2> SUFFICES ASSUME AllThere, NEW p \in DOMAIN pieces,
                      PieceBytes(p) \subseteq right', PieceBytes(p) \cap written' = {}
               PROVE  pieces[p].state = "AVAILABLE"
    BY <1>1 DEF FetchKept, Found
  <2>1. PieceBytes(p) \subseteq right /\ PieceBytes(p) \cap written = {}
    OBVIOUS
  <2> QED
    BY <2>1 DEF FetchKept, Found
<1> QED
  BY <1>2, <1>3

LEMMA SelectFetch ==
  ASSUME CutKept, FetchKept, NEW p \in DOMAIN pieces, Select(p)
  PROVE  FetchKept'
<1>1. /\ UNCHANGED <<layoutVars, loopVars>> /\ right' = right /\ msg' = msg
      /\ written' = written /\ carried' = carried
      /\ pc' = pc /\ pc = "idle" /\ slot.piece = NoPiece
      /\ pieces[p].state = "MISSING"
      /\ pieces' = [pieces EXCEPT ![p].state = "FETCHING"]
      /\ slot' = [slot EXCEPT !.piece = p]
  BY DEF Select
<1>2. p \in Int /\ DOMAIN pieces \subseteq Int /\ psize' = psize
  BY <1>1 DEF CutKept, TableKept, layoutVars
<1>3. slot.blocks = {} /\ written = {} /\ carried = {}
  BY <1>1 DEF FetchKept, SlotTyped, BlocksInPlace
<1>4. slot' \in [piece : Int, blocks : SUBSET Nat] /\ slot'.piece = p /\ slot'.blocks = {}
  BY <1>1, <1>2, <1>3 DEF FetchKept, SlotTyped
<1>5. DOMAIN pieces' = DOMAIN pieces
  BY <1>1
<1>6. p # NoPiece
  BY DEF CutKept, TableKept, NoPiece
<1>7. SlotTyped'
  BY <1>1, <1>3, <1>4, <1>5, <1>6 DEF SlotTyped, Carved
<1>8. MsgTyped' /\ MsgKept'
  BY <1>1, <1>2 DEF FetchKept, MsgTyped, MsgKept
<1>9. BlocksInPlace'
  <2>1. Arrived' = {}
    BY <1>1, <1>3 DEF Arrived
  <2> QED
    BY <1>1, <1>3, <1>4, <2>1 DEF BlocksInPlace
<1>10. \A q \in DOMAIN pieces :
         pieces'[q].state = IF q = p THEN "FETCHING" ELSE pieces[q].state
  BY <1>1 DEF CutKept, TableKept, PieceKept
<1>11. /\ \A q : PieceBytes(q)' = PieceBytes(q)
       /\ AllThere' <=> AllThere
  BY <1>1, SameLayout
<1>12. AvailableIsRight'
  <2>1. \A q \in DOMAIN pieces : q # slot.piece
    BY <1>1 DEF CutKept, TableKept, NoPiece
  <2> QED
    BY <1>1, <1>5, <1>10, <1>11, <2>1 DEF FetchKept, AvailableIsRight
<1>13. Found'
  BY <1>1, <1>5, <1>10, <1>11 DEF FetchKept, Found, loopVars
<1>14. SlotFetches'
  BY <1>4, <1>10 DEF SlotFetches
<1> QED
  BY <1>7, <1>8, <1>9, <1>12, <1>13, <1>14 DEF FetchKept

\* A step of a message that writes nothing and by which nothing more arrives.
LEMMA NothingWritten ==
  ASSUME CutKept, FetchKept, pc # "done", pc' # "done",
         UNCHANGED <<layoutVars, loopVars, pieces, written, right>>,
         slot'.piece = slot.piece, Arrived' = Arrived, SlotTyped', MsgTyped', MsgKept'
  PROVE  FetchKept'
<1>1. psize' = psize /\ \A x : Home(x)' = Home(x)
  BY SameLayout DEF layoutVars
<1>2. \A q : PieceBytes(q)' = PieceBytes(q)
  BY SameLayout
<1>3. BlocksInPlace'
  BY <1>1, <1>2 DEF FetchKept, BlocksInPlace
<1>4. AvailableIsRight' /\ Found'
  <2>1. written' = written \cup {} /\ right' = right \cup {} /\ dl' = dl
    BY DEF loopVars
  <2> QED
    BY <2>1, WrittenFound
<1>5. SlotFetches'
  BY DEF FetchKept, SlotFetches
<1> QED
  BY <1>3, <1>4, <1>5 DEF FetchKept

LEMMA ArrivesFetch ==
  ASSUME CutKept, FetchKept, NEW p \in DOMAIN pieces, NEW begin \in 0 .. psize,
         BlockArrives(p, begin)
  PROVE  FetchKept'
<1>1. /\ UNCHANGED <<layoutVars, loopVars>> /\ right' = right /\ pieces' = pieces
      /\ slot' = slot /\ written' = written /\ carried' = carried
      /\ pc = "idle" /\ slot.piece # NoPiece /\ pc' \in {"closed", "block"}
  BY DEF BlockArrives
<1>2. PICK left \in 0 .. pieces[p].size + 1 :
        msg' = [index |-> p, start |-> begin, begin |-> begin, left |-> left]
  BY DEF BlockArrives
<1>3. psize \in Nat /\ psize' = psize /\ p \in Nat /\ begin \in Nat /\ pieces[p].size \in 1 .. psize
  BY <1>1, PieceWithin, SizesAssumption DEF CutKept, Layout, layoutVars
<1>4. left \in 0 .. psize + 1
  BY <1>3
<1>5. /\ msg'.index = p /\ msg'.start = begin /\ msg'.begin = begin
      /\ msg' \in [index : Nat, start : Nat, begin : Nat, left : 0 .. psize + 1]
  BY <1>2, <1>3, <1>4
<1>6. SlotTyped'
  BY <1>1 DEF FetchKept, SlotTyped, Carved
<1>7. MsgTyped' /\ MsgKept'
  BY <1>1, <1>3, <1>5 DEF MsgTyped, MsgKept
<1>8. Arrived' = Arrived
  <2>1. begin .. begin - 1 = {}
    BY <1>3
  <2> QED
    BY <1>1, <1>5, <2>1 DEF Arrived
<1> QED
  BY <1>1, <1>6, <1>7, <1>8, NothingWritten

LEMMA ReceiveFetch ==
  ASSUME CutKept, FetchKept, ReceivePart
  PROVE  FetchKept'
<1> DEFINE p == msg.index
<1> DEFINE from == p * psize
<1> DEFINE x == from + msg.begin
<1>1. /\ UNCHANGED <<layoutVars, loopVars>> /\ pieces' = pieces /\ pc' = pc /\ slot' = slot
      /\ carried' = carried /\ pc = "block" /\ p = slot.piece
      /\ msg.left + msg.begin <= pieces[p].size
  BY DEF ReceivePart
<1>2. PICK part \in 1 .. msg.left :
        /\ msg.begin + part <= pieces[p].size
        /\ written' = written \cup Segment(x, x + part)
        /\ right' = right \cup Segment(x, x + part)
        /\ msg' = [msg EXCEPT !.left = msg.left - part, !.begin = msg.begin + part]
  BY PartInPlace DEF FetchKept
<1>3. p \in DOMAIN pieces /\ slot.piece # NoPiece /\ msg.start <= msg.begin
  BY <1>1 DEF FetchKept, MsgKept
<1>4. psize \in Nat /\ p \in Nat /\ from \in Nat /\ pieces[p].size \in Nat
  BY <1>3, PieceWithin, TimesNat, SizesAssumption DEF CutKept, Layout
<1>5. msg.begin \in Nat /\ msg.left \in 0 .. psize + 1 /\ msg.start \in Nat /\ x \in Nat
  BY <1>4 DEF FetchKept, MsgTyped
<1>6. /\ msg' \in [index : Nat, start : Nat, begin : Nat, left : 0 .. psize + 1]
      /\ msg'.index = p /\ msg'.start = msg.start
      /\ msg'.begin = msg.begin + part /\ msg'.left = msg.left - part
  <2>1. msg.begin + part \in Nat /\ msg.left - part \in 0 .. psize + 1
    BY <1>4, <1>5
  <2> QED
    BY <1>2, <2>1 DEF FetchKept, MsgTyped
<1>7. /\ psize' = psize /\ \A y : Home(y)' = Home(y)
      /\ \A q : PieceBytes(q)' = PieceBytes(q)
  BY <1>1, SameLayout DEF layoutVars
<1>8. SlotTyped' /\ SlotFetches'
  BY <1>1, <1>2 DEF FetchKept, SlotTyped, Carved, SlotFetches
<1>9. MsgTyped' /\ MsgKept'
  BY <1>1, <1>3, <1>5, <1>6, <1>7 DEF MsgTyped, MsgKept
<1>10. BlocksInPlace'
  <2> DEFINE here == msg.begin .. (msg.begin + part) - 1
  <2>1. Arrived' = Arrived \cup here
    <3>1. (msg.start .. msg.begin - 1) \cup here = msg.start .. (msg.begin + part) - 1
      BY <1>3, <1>5
    <3>2. /\ Arrived = carried \cup (msg.start .. msg.begin - 1)
          /\ Arrived' = carried \cup (msg.start .. (msg.begin + part) - 1)
      BY <1>1, <1>6 DEF Arrived
    <3> HIDE DEF here
    <3> QED
      BY <3>1, <3>2
  <2>2. Segment(x, x + part) = {Home(from + y) : y \in here}
    <3>1. ASSUME NEW z \in x .. (x + part) - 1 PROVE z - from \in here /\ from + (z - from) = z
      BY <1>4, <1>5
    <3>2. ASSUME NEW y \in here PROVE from + y \in x .. (x + part) - 1
      BY <1>4, <1>5
    <3> HIDE DEF here, x, from
    <3>3. ASSUME NEW z \in x .. (x + part) - 1 PROVE Home(z) \in {Home(from + y) : y \in here}
      BY <3>1
    <3>4. ASSUME NEW y \in here PROVE Home(from + y) \in Segment(x, x + part)
      BY <3>2, InSegment
    <3> QED
      BY <3>3, <3>4 DEF Segment
  <2>3. Segment(x, x + part) \subseteq PieceBytes(p)
    <3>1. PieceBytes(p) = Segment(from, from + pieces[p].size)
      BY <1>3, BytesOfPiece
    <3>2. \A y \in x .. (x + part) - 1 : y \in from .. (from + pieces[p].size) - 1
      BY <1>2, <1>4, <1>5
    <3>3. \A y \in x .. (x + part) - 1 : Home(y) \in PieceBytes(p)
      BY <3>1, <3>2, InSegment
    <3> QED
      BY <3>3, SegmentWithin
  <2>4. written = {Home(from + y) : y \in Arrived} /\ written \subseteq PieceBytes(p)
    BY <1>1, <1>3 DEF FetchKept, BlocksInPlace
  <2> HIDE DEF here, x
  <2>5. written' = {Home(from + y) : y \in Arrived \cup here} /\ written' \subseteq PieceBytes(p)
    BY <1>2, <2>2, <2>3, <2>4
  <2>6. slot'.piece * psize' = from
    BY <1>1, <1>7
  <2> HIDE DEF from, p
  <2> QED
    BY <1>1, <1>3, <1>7, <2>1, <2>5, <2>6 DEF BlocksInPlace
<1>11. AvailableIsRight' /\ Found'
  BY <1>1, <1>2, WrittenFound DEF loopVars
<1> QED
  BY <1>8, <1>9, <1>10, <1>11 DEF FetchKept

LEMMA DiscardFetch ==
  ASSUME CutKept, FetchKept, DiscardBlock
  PROVE  FetchKept'
<1>1. /\ UNCHANGED <<layoutVars, loopVars, pieces, slot, written, right, carried>>
      /\ pc = "block" /\ pc' = "block" /\ msg.index # slot.piece
      /\ msg.left + msg.begin <= pieces[msg.index].size
      /\ msg' = [msg EXCEPT !.left = 0, !.begin = msg.begin + msg.left]
  BY DEF DiscardBlock
<1>2. /\ msg.begin \in Nat /\ msg.left \in 0 .. psize + 1 /\ psize \in Nat /\ psize' = psize
      /\ msg.start \in Nat
  BY <1>1, SizesAssumption DEF FetchKept, MsgTyped, CutKept, Layout, layoutVars
<1>3. /\ msg' \in [index : Nat, start : Nat, begin : Nat, left : 0 .. psize + 1]
      /\ msg'.index = msg.index /\ msg'.start = msg.start
      /\ msg'.begin = msg.begin + msg.left /\ msg'.left = 0
  <2>1. msg.begin + msg.left \in Nat /\ 0 \in 0 .. psize + 1
    BY <1>2
  <2> QED
    BY <1>1, <2>1 DEF FetchKept, MsgTyped
<1>4. MsgTyped'
  BY <1>2, <1>3 DEF MsgTyped
<1>5. MsgKept'
  <2>1. slot.piece # NoPiece /\ msg.index \in DOMAIN pieces /\ msg.start <= msg.begin
    BY <1>1 DEF FetchKept, MsgKept
  <2>2. /\ msg.begin + msg.left <= pieces[msg.index].size
        /\ msg'.begin + msg'.left = msg.begin + msg.left /\ msg.start <= msg'.begin
    BY <1>1, <1>2, <1>3, <2>1
  <2> QED
    BY <1>1, <1>3, <2>1, <2>2 DEF MsgKept
<1>6. Arrived' = Arrived
  BY <1>1, <1>3 DEF Arrived
<1>7. SlotTyped'
  BY <1>1 DEF FetchKept, SlotTyped, Carved
<1> QED
  BY <1>1, <1>4, <1>5, <1>6, <1>7, NothingWritten

LEMMA RefuseFetch ==
  ASSUME CutKept, FetchKept, RefuseBlock
  PROVE  FetchKept'
<1>1. /\ UNCHANGED <<layoutVars, loopVars, pieces, slot, written, right, msg, carried>>
      /\ pc = "block" /\ pc' = "closed" /\ msg.left + msg.begin > pieces[msg.index].size
  BY DEF RefuseBlock, slotVars
<1>2. SlotTyped' /\ MsgTyped' /\ MsgKept'
  BY <1>1 DEF FetchKept, SlotTyped, MsgTyped, MsgKept, layoutVars, Carved
<1>3. Arrived' = Arrived
  <2>1. /\ msg.begin \in Nat /\ msg.left \in Nat /\ msg.start \in Nat
        /\ pieces[msg.index].size \in Nat
    <3>1. psize \in Nat /\ msg.index \in DOMAIN pieces
      BY <1>1, SizesAssumption DEF FetchKept, MsgKept, CutKept, Layout
    <3> QED
      BY <3>1, PieceWithin DEF FetchKept, MsgTyped
  <2>2. msg.start = msg.begin
    BY <1>1, <2>1 DEF FetchKept, MsgKept
  <2>3. msg.start .. msg.begin - 1 = {}
    BY <2>1, <2>2
  <2> QED
    BY <1>1, <2>3 DEF Arrived
<1> QED
  BY <1>1, <1>2, <1>3, NothingWritten

\* When a message has come to its end, what it brought counts as carried.
LEMMA ReceivedFetch ==
  ASSUME CutKept, FetchKept, BlockReceived
  PROVE  FetchKept'
<1> DEFINE p == slot.piece
<1> DEFINE part == msg.start .. msg.begin - 1
<1>1. /\ UNCHANGED <<layoutVars, loopVars, pieces, written, right, msg>>
      /\ pc = "block" /\ pc' = "idle" /\ msg.left = 0
      /\ slot' = IF msg.index = p
                 THEN [slot EXCEPT !.blocks = slot.blocks \cup {BlockAt(msg.start)}] ELSE slot
      /\ carried' = IF msg.index = p THEN carried \cup part ELSE carried
  BY DEF BlockReceived
<1>2. MsgTyped' /\ MsgKept'
  BY <1>1 DEF FetchKept, MsgTyped, MsgKept, layoutVars
<1>3. p \in DOMAIN pieces /\ p # NoPiece
  BY <1>1 DEF FetchKept, MsgKept, SlotTyped
<1>4. msg.start \in Nat /\ msg.begin \in Nat /\ BlockAt(msg.start) \in Nat
  <2>1. msg.start \in Nat /\ msg.begin \in Nat /\ MaxBlockSize \in Nat \ {0}
    BY SizesAssumption DEF FetchKept, MsgTyped
  <2> QED
    BY <2>1, Division DEF BlockAt
<1>5. /\ slot' \in [piece : Int, blocks : SUBSET Nat] /\ slot'.piece = slot.piece
  BY <1>1, <1>4 DEF FetchKept, SlotTyped
<1>6. Arrived' = Arrived
  BY <1>1 DEF Arrived
<1>7. carried' \subseteq 0 .. pieces[p].size - 1
  <2>1. carried \subseteq 0 .. pieces[p].size - 1
    BY <1>3 DEF FetchKept, SlotTyped
  <2>2. CASE msg.index = p
    <3>1. /\ msg.start < msg.begin => msg.begin <= pieces[p].size
          /\ pieces[p].size \in Nat
      <4>1. msg.start < msg.begin => msg.begin + msg.left <= pieces[p].size
        BY <1>1, <2>2 DEF FetchKept, MsgKept
      <4>2. pieces[p].size \in Nat
        BY <1>3, PieceWithin, SizesAssumption DEF CutKept, Layout
      <4> QED
        BY <1>1, <1>4, <4>1, <4>2
    <3>2. part \subseteq 0 .. pieces[p].size - 1
      BY <1>4, <3>1
    <3> QED
      BY <1>1, <2>1, <3>2
  <2>3. CASE msg.index # p
    BY <1>1, <2>1, <2>3
  <2> QED
    BY <2>2, <2>3
<1>8. SlotTyped'
  BY <1>1, <1>3, <1>5, <1>7 DEF FetchKept, SlotTyped, Carved
<1> QED
  BY <1>1, <1>2, <1>5, <1>6, <1>8, NothingWritten

\* With all its blocks marked, a piece of which the blocks came whole is right.
LEMMA FinishFetch ==
  ASSUME CutKept, FetchKept, FinishPiece
  PROVE  FetchKept'
<1> DEFINE p == slot.piece
<1>1. /\ UNCHANGED <<layoutVars, loopVars, slot, msg, written, right, carried>>
      /\ pc = "idle" /\ pc' = "done" /\ p # NoPiece
      /\ slot.blocks = 0 .. pieces[p].block_count - 1
      /\ pieces' = [pieces EXCEPT ![p].state = "AVAILABLE"]
  BY DEF FinishPiece, slotVars
<1>2. p \in DOMAIN pieces
  BY <1>1 DEF FetchKept, SlotTyped
<1>3. ASSUME Whole PROVE PieceBytes(p) \subseteq right
  <2>1. 0 .. pieces[p].size - 1 \subseteq carried
    BY <1>1, <1>2, <1>3, BlocksCoverPiece
  <2>2. written = {Home(p * psize + x) : x \in carried}
    BY <1>1 DEF FetchKept, BlocksInPlace, Arrived
  <2>3. PieceBytes(p) = Segment(p * psize, p * psize + pieces[p].size)
    BY <1>2, BytesOfPiece
  <2>4. /\ p * psize \in Nat /\ pieces[p].size \in Nat
    BY <1>2, PieceWithin, TimesNat, SizesAssumption DEF CutKept, Layout
  <2> DEFINE from == p * psize
  <2> HIDE DEF from
  <2>5. ASSUME NEW y \in from .. (from + pieces[p].size) - 1 PROVE Home(y) \in written
    <3>1. y - from \in 0 .. pieces[p].size - 1 /\ from + (y - from) = y
      BY <2>4 DEF from
    <3>2. y - from \in carried
      BY <2>1, <3>1
    <3>3. written = {Home(from + x) : x \in carried}
      BY <2>2 DEF from
    <3> QED
      BY <3>1, <3>2, <3>3
  <2>6. PieceBytes(p) \subseteq written
    BY <2>3, <2>5, SegmentWithin DEF from
  <2> QED
    BY <2>6 DEF FetchKept, SlotTyped
<1>4. DOMAIN pieces' = DOMAIN pieces
  BY <1>1
<1>5. /\ \A q \in DOMAIN pieces :
           pieces'[q].state = IF q = p THEN "AVAILABLE" ELSE pieces[q].state
      /\ pieces'[p].size = pieces[p].size
  BY <1>1, <1>2 DEF CutKept, TableKept, PieceKept
<1>6. /\ \A q : PieceBytes(q)' = PieceBytes(q)
      /\ \A x : Home(x)' = Home(x)
      /\ AllThere' <=> AllThere
      /\ psize' = psize
  BY <1>1, SameLayout DEF layoutVars
<1>7. SlotTyped' /\ SlotFetches'
  BY <1>1, <1>4, <1>5 DEF FetchKept, SlotTyped, Carved, SlotFetches
<1>8. MsgTyped' /\ MsgKept'
  BY <1>1, <1>6 DEF FetchKept, MsgTyped, MsgKept
<1>9. BlocksInPlace'
  <2>1. Arrived' = Arrived
    BY <1>1 DEF Arrived
  <2> QED
    BY <1>1, <1>6, <2>1 DEF FetchKept, BlocksInPlace
<1>10. AvailableIsRight'
  <2>1. Whole' <=> Whole
    BY <1>1, <1>5 DEF Whole, Asked
  <2> QED
    BY <1>1, <1>3, <1>4, <1>5, <1>6, <2>1 DEF FetchKept, AvailableIsRight
<1>11. Found'
  BY <1>1, <1>4, <1>5, <1>6 DEF FetchKept, Found, loopVars
<1> QED
  BY <1>7, <1>8, <1>9, <1>10, <1>11 DEF FetchKept

LEMMA FetchStep ==
  ASSUME CutKept, FetchKept, [Next]_vars
  PROVE  FetchKept'
<1>1. CASE EnterFile \/ SkipEmptyFile \/ CarvePiece \/ LeaveFile \/ LastPiece
  BY <1>1, CutFetch
<1>2. ASSUME NEW p \in DOMAIN pieces, Select(p) \/ \E begin \in 0 .. psize : BlockArrives(p, begin)
      PROVE  FetchKept'
  BY <1>2, SelectFetch, ArrivesFetch
<1>3. CASE ReceivePart
  BY <1>3, ReceiveFetch
<1>4. CASE DiscardBlock
  BY <1>4, DiscardFetch
<1>5. CASE RefuseBlock
  BY <1>5, RefuseFetch
<1>6. CASE BlockReceived
  BY <1>6, ReceivedFetch
<1>7. CASE FinishPiece
  BY <1>7, FinishFetch
<1>8. CASE UNCHANGED vars
  <2>1. /\ UNCHANGED layoutVars /\ pieces' = pieces /\ slot' = slot /\ dl' = dl
        /\ written' = written /\ right' = right /\ msg' = msg /\ carried' = carried
        /\ pc' = pc /\ psize' = psize
    BY <1>8 DEF vars, slotVars, layoutVars, loopVars
  <2>2. MsgTyped' /\ MsgKept' /\ SlotTyped' /\ SlotFetches'
    BY <2>1 DEF FetchKept, MsgTyped, MsgKept, SlotTyped, SlotFetches, Carved
  <2>3. /\ \A q : PieceBytes(q)' = PieceBytes(q)
        /\ \A x : Home(x)' = Home(x)
        /\ AllThere' <=> AllThere
    BY <2>1, SameLayout
  <2>4. (Whole' <=> Whole) /\ Arrived' = Arrived
    BY <2>1 DEF Whole, Asked, Arrived
  <2>5. BlocksInPlace' /\ AvailableIsRight' /\ Found'
    BY <2>1, <2>3, <2>4 DEF FetchKept, BlocksInPlace, AvailableIsRight, Found
  <2> QED
    BY <2>2, <2>5 DEF FetchKept
<1> QED
  BY <1>1, <1>2, <1>3, <1>4, <1>5, <1>6, <1>7, <1>8 DEF Next

LEMMA KeptAlways == Spec => [](CutKept /\ FetchKept)
<1>1. CutKept /\ FetchKept /\ [Next]_vars => (CutKept /\ FetchKept)'
  BY CutStep, FetchStep DEF FetchKept
<1> QED
  BY <1>1, InitCut, InitFetch, PTL DEF Spec

-----------------------------------------------------------------------------

\* The types of the loop, of the pieces it makes and of the message: no piece begins
\* behind the last file, is empty or has no block.
THEOREM TypeCorrect == Spec => []TypeOK
<1>1. CutKept /\ FetchKept => TypeOK
  <2> SUFFICES ASSUME CutKept, FetchKept PROVE TypeOK
    OBVIOUS
  <2>1. ASSUME NEW p \in DOMAIN pieces
        PROVE  /\ pieces[p].file \in 0 .. NbFiles - 1
               /\ pieces[p].size \in 1 .. psize
               /\ pieces[p].block_count \in 1 .. pieces[p].size
               /\ pieces[p].state \in {"MISSING", "FETCHING", "AVAILABLE"}
    <3>1. PieceKept(p)
      BY DEF CutKept, TableKept
    <3>2. pieces[p].size \in Nat \ {0}
      BY PieceWithin, SizesAssumption DEF CutKept, Layout
    <3> QED
      BY <3>1, <3>2, RequiredBlocks DEF PieceKept, File
  <2>2. carried \subseteq 0 .. psize - 1
    <3>1. CASE slot.piece = NoPiece
      BY <3>1 DEF FetchKept, SlotTyped
    <3>2. CASE slot.piece \in DOMAIN pieces
      <4>1. pieces[slot.piece].size \in 1 .. psize /\ psize \in Nat
        BY <2>1, <3>2, SizesAssumption DEF CutKept, Layout
      <4>2. slot.piece # NoPiece
        BY <3>2 DEF CutKept, TableKept, NoPiece
      <4>3. carried \subseteq 0 .. pieces[slot.piece].size - 1
        BY <4>2 DEF FetchKept, SlotTyped
      <4> QED
        BY <4>1, <4>3
    <3> QED
      BY <3>1, <3>2 DEF FetchKept, SlotTyped
  <2> QED
    BY <2>1, <2>2 DEF TypeOK, CutKept, FetchKept, Layout, LoopTyped, SlotTyped, MsgTyped
<1> QED
  BY <1>1, KeptAlways, PTL

\* pieces_create cuts any torrent without gap or overlap, and piece_check hashes the
\* bytes of each piece and no other.
THEOREM TorrentCovered == Spec => []PiecesCoverTorrent
<1>1. CutKept => PiecesCoverTorrent
  <2> SUFFICES ASSUME CutKept, Carved PROVE PiecesCoverTorrent
    BY DEF PiecesCoverTorrent
  <2> DEFINE c == dl.cur_piece
  <2>1. /\ c \in Nat /\ dl.size \in Nat /\ psize \in Nat \ {0} /\ Total \in Nat
        /\ c * psize + dl.size = Total /\ dl.size < psize
    BY CoveredBound, SizesAssumption DEF CutKept, LoopTyped, LoopKept, Layout, Carved
  <2>2. DOMAIN pieces = 0 .. (IF dl.size > 0 THEN c + 1 ELSE c) - 1
    BY DEF CutKept, TableKept, Count
  <2>3. ASSUME NEW p \in DOMAIN pieces PROVE p \in 0 .. Total /\ p * psize < Total
    <3>1. /\ p \in Nat /\ pieces[p].size \in Nat \ {0}
          /\ p * psize + pieces[p].size <= Total
      BY <2>1, PieceWithin
    <3> DEFINE from == p * psize
    <3>2. from \in Nat /\ p <= from
      BY <2>1, <3>1, TimesNat
    <3> HIDE DEF from
    <3>3. from + pieces[p].size <= Total
      BY <3>1 DEF from
    <3>4. Total \in Nat /\ p \in Nat /\ pieces[p].size \in Nat /\ pieces[p].size > 0
      BY <2>1, <3>1
    <3>5. from < Total /\ p \in 0 .. Total
      BY <3>2, <3>3, <3>4
    <3> QED
      BY <3>5 DEF from
  <2>4. ASSUME NEW p \in 0 .. Total, p * psize < Total PROVE p \in DOMAIN pieces
    <3>1. c * psize \in Nat /\ (c + 1) * psize = c * psize + psize
      BY <2>1, TimesNat, TimesNext
    <3>2. p < c + 1
      <4> SUFFICES ASSUME c + 1 <= p PROVE FALSE
        BY <2>1
      <4>1. (c + 1) * psize <= p * psize /\ p * psize \in Nat
        BY <2>1, TimesMonotone, TimesNat
      <4> QED
        BY <2>1, <2>4, <3>1, <4>1
    <3>3. p = c => dl.size > 0
      BY <2>1, <2>4, <3>1
    <3> QED
      BY <2>1, <2>2, <3>2, <3>3
  <2>5. ASSUME NEW p \in DOMAIN pieces PROVE BytesRead(pieces, p) = PieceBytes(p)
    <3>1. /\ p \in Nat /\ pieces[p].size \in Nat /\ p * psize + pieces[p].size <= Total
      BY <2>1, PieceWithin
    <3>2. pieces[p].file \in File /\ Offset(pieces[p].file) <= p * psize
      BY DEF CutKept, TableKept, PieceKept
    <3>3. BytesRead(pieces, p) = Segment(p * psize, p * psize + pieces[p].size)
      BY <3>1, <3>2, BytesReadOfPiece DEF CutKept
    <3> QED
      BY <3>3, BytesOfPiece
  <2>6. DOMAIN pieces = {p \in 0 .. Total : p * psize < Total}
    BY <2>3, <2>4
  <2> QED
    BY <2>5, <2>6 DEF PiecesCoverTorrent
<1> QED
  BY <1>1, KeptAlways, PTL

\* An available piece is right on disk: what piece_check reads, what BLOCK_SIZE asks for
\* and what piece_get_buffer writes agree for every layout, if the blocks came whole.
THEOREM AvailableRight == Spec => []AvailableIsRight
<1>1. FetchKept => AvailableIsRight
  BY DEF FetchKept
<1> QED
  BY <1>1, KeptAlways, PTL

\* A restart over a complete set of files finds every right piece (dl.exist).
THEOREM RightPiecesFound == Spec => []ResumeFindsRightPieces
<1>1. FetchKept => ResumeFindsRightPieces
  BY DEF FetchKept, Found, ResumeFindsRightPieces
<1> QED
  BY <1>1, KeptAlways, PTL

\* Whatever messages arrive, wherever they begin and however short they are, each byte
\* lands in its place in the piece the slot fetches, however many files it spans, and
\* nothing else is written (piece_get_buffer, receive_piece_iter).
THEOREM BlocksAlwaysInPlace == Spec => []BlocksInPlace
<1>1. FetchKept => BlocksInPlace
  BY DEF FetchKept
<1> QED
  BY <1>1, KeptAlways, PTL

\* Every turn of receive_piece_iter brings the end of the block nearer.
TurnsAdvance == [][pc = "block" /\ pc' = "block" => msg'.left < msg.left]_vars

\* The safety half of BlocksEnd: no turn goes round without taking a byte, neither at the
\* end of a file nor across empty ones.
THEOREM EveryTurnAdvances == Spec => TurnsAdvance
<1>1. CutKept /\ FetchKept /\ [Next]_vars => [pc = "block" /\ pc' = "block" => msg'.left < msg.left]_vars
  <2> SUFFICES ASSUME CutKept, FetchKept, Next, pc = "block", pc' = "block"
               PROVE  msg'.left < msg.left
    OBVIOUS
  <2>1. msg \in [index : Nat, start : Nat, begin : Nat, left : 0 .. psize + 1] /\ psize \in Nat
    BY SizesAssumption DEF FetchKept, MsgTyped, CutKept, Layout
  <2>2. CASE ReceivePart
    <3>1. PICK part \in 1 .. msg.left :
            msg' = [msg EXCEPT !.left = msg.left - part, !.begin = msg.begin + part]
      BY <2>2, PartInPlace DEF FetchKept
    <3>2. msg'.left = msg.left - part /\ msg.left \in Int
      BY <2>1, <3>1
    <3> QED
      BY <3>2
  <2>3. CASE DiscardBlock
    <3>1. msg.left > 0 /\ msg'.left = 0
      BY <2>1, <2>3 DEF DiscardBlock
    <3> QED
      BY <3>1
  <2>4. ReceivePart \/ DiscardBlock
    BY DEF Next, EnterFile, SkipEmptyFile, CarvePiece, LeaveFile, LastPiece, Select,
       BlockArrives, RefuseBlock, BlockReceived, FinishPiece
  <2> QED
    BY <2>2, <2>3, <2>4
<1> QED
  BY <1>1, KeptAlways, PTL DEF Spec, TurnsAdvance
=============================================================================
