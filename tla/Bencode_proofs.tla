--------------------------- MODULE Bencode_proofs ---------------------------
(***************************************************************************)
(* What the parser reads of any text that was written by the rules, whole  *)
(* or cut short: values of any depth, strings over any characters.  First  *)
(* the equations of the recursive functions, then one lemma for every part *)
(* of the grammar, then the properties.                                    *)
(***************************************************************************)
EXTENDS Bencode, TLAPS, WellFoundedInduction, SequenceTheorems

\* What Encoded, Bare and Within make of a value, given what f makes of its items.
EncodedBy(f, v) ==
  CASE v.type = "BINT" ->
         <<"i">> \o (IF v.i < 0 THEN <<"-">> \o Decimal[-v.i] ELSE Decimal[v.i]) \o <<"e">>
    [] v.type = "BSTR" -> EncodedStr(v.str)
    [] v.type = "BLIST" ->
         <<"l">> \o FlattenSeq([k \in DOMAIN v.list |-> f[v.list[k]]]) \o <<"e">>
    [] OTHER ->
         <<"d">> \o FlattenSeq([k \in DOMAIN v.dict |->
                                  EncodedStr(v.dict[k].key) \o f[v.dict[k].value]]) \o <<"e">>

BareBy(f, v) ==
  CASE v.type = "BINT"  -> BInt(v.i)
    [] v.type = "BSTR"  -> BStr(v.str)
    [] v.type = "BLIST" -> BList([k \in DOMAIN v.list |-> f[v.list[k]]])
    [] OTHER -> BDict([k \in DOMAIN v.dict |->
                         [key |-> v.dict[k].key, value |-> f[v.dict[k].value]]])

WithinBy(f, v) ==
  {v} \cup CASE v.type = "BLIST" -> UNION {f[v.list[k]] : k \in DOMAIN v.list}
             [] v.type = "BDICT" -> UNION {f[v.dict[k].value] : k \in DOMAIN v.dict}
             [] OTHER -> {}

-----------------------------------------------------------------------------
(* Induction, stated with sets *)

\* A set of numbers that is not empty has a least one.
LEMMA LeastElement ==
  ASSUME NEW T \in SUBSET Nat, T # {}
  PROVE  \E n \in T : \A m \in T : n <= m
<1>1. PICK n \in T : \A m \in T : <<m, n>> \notin OpToRel(<, Nat)
  BY WFMin, NatLessThanWellFounded, Zenon
<1>2. \A m \in T : <<m, n>> \in Nat \X Nat /\ <<m, n>>[1] = m /\ <<m, n>>[2] = n
  OBVIOUS
<1>3. \A m \in T : ~(m < n)
  BY <1>1, <1>2 DEF OpToRel
<1> QED
  BY <1>3

\* What holds of 0, and of n + 1 whenever it holds of n, holds of every number.
LEMMA SetInduction ==
  ASSUME NEW S \in SUBSET Nat, 0 \in S, \A n \in S : n + 1 \in S
  PROVE  S = Nat
<1> SUFFICES ASSUME Nat \ S # {} PROVE FALSE
  OBVIOUS
<1>1. PICK n \in Nat \ S : \A m \in Nat \ S : n <= m
  BY LeastElement
<1>2. n - 1 \in S
  BY <1>1
<1> QED
  BY <1>2

-----------------------------------------------------------------------------
(* The levels of the values *)

\* Each level is made of the one below it.
LEMMA LevelEquation ==
  \A n \in 0 .. MaxDepth : Level[n] = DataOver(IF n = 0 THEN {} ELSE Level[n - 1])
<1> DEFINE Grows(g, n) == g = [m \in 0 .. n |-> DataOver(IF m = 0 THEN {} ELSE g[m - 1])]
<1> DEFINE S == {n \in Nat : \E g : Grows(g, n)}
<1>1. 0 \in S
  <2>1. Grows([m \in 0 .. 0 |-> DataOver({})], 0)
    OBVIOUS
  <2> QED
    BY <2>1
<1>2. ASSUME NEW n \in S PROVE n + 1 \in S
  <2>1. PICK g : Grows(g, n)
    OBVIOUS
  <2> DEFINE h == [m \in 0 .. n + 1 |-> IF m = n + 1 THEN DataOver(g[n]) ELSE g[m]]
  <2>2. \A m \in 0 .. n : h[m] = g[m]
    OBVIOUS
  <2>3. \A m \in 0 .. n + 1 : h[m] = DataOver(IF m = 0 THEN {} ELSE h[m - 1])
    <3> SUFFICES ASSUME NEW m \in 0 .. n + 1
                 PROVE  h[m] = DataOver(IF m = 0 THEN {} ELSE h[m - 1])
      OBVIOUS
    <3>1. CASE m = n + 1
      BY <2>2, <3>1
    <3>2. CASE m # n + 1
      <4>1. m \in 0 .. n /\ (m # 0 => m - 1 \in 0 .. n)
        BY <3>2
      <4>2. g[m] = DataOver(IF m = 0 THEN {} ELSE g[m - 1])
        BY <2>1, <4>1
      <4> QED
        BY <2>2, <4>1, <4>2
    <3> QED
      BY <3>1, <3>2
  <2>4. h = [m \in 0 .. n + 1 |-> h[m]]
    OBVIOUS
  <2> HIDE DEF h
  <2>5. Grows(h, n + 1)
    BY <2>3, <2>4
  <2> QED
    BY <2>5
<1>3. S = Nat
  <2> HIDE DEF S
  <2> QED
    BY <1>1, <1>2, SetInduction DEF S
<1>4. \E g : Grows(g, MaxDepth)
  <2>1. MaxDepth \in S
    BY <1>3, BencodeAssumption
  <2> QED
    BY <2>1
<1>5. Grows(Level, MaxDepth)
  BY <1>4, Zenon DEF Level
<1> QED
  BY <1>5

\* More items, more values.
LEMMA DataOverMonotone ==
  ASSUME NEW I, NEW J, I \subseteq J
  PROVE  DataOver(I) \subseteq DataOver(J)
<1>1. Seq(I) \subseteq Seq(J)
  BY SeqMonotonic
<1>2. [key : Str, value : I] \subseteq [key : Str, value : J]
  OBVIOUS
<1>3. Seq([key : Str, value : I]) \subseteq Seq([key : Str, value : J])
  BY <1>2, SeqMonotonic
<1> QED
  BY <1>1, <1>3 DEF DataOver

\* A value of a level is in the next one too.
LEMMA LevelMonotone ==
  ASSUME NEW n \in Nat, n + 1 <= MaxDepth
  PROVE  Level[n] \subseteq Level[n + 1]
<1> DEFINE S == {m \in Nat : m + 1 <= MaxDepth => Level[m] \subseteq Level[m + 1]}
<1>1. ASSUME NEW m \in Nat, m + 1 <= MaxDepth
      PROVE  /\ Level[m] = DataOver(IF m = 0 THEN {} ELSE Level[m - 1])
             /\ Level[m + 1] = DataOver(Level[m])
  <2>1. m \in 0 .. MaxDepth /\ m + 1 \in 0 .. MaxDepth /\ m + 1 # 0 /\ (m + 1) - 1 = m
    BY <1>1, BencodeAssumption
  <2> QED
    BY <2>1, LevelEquation
<1>2. 0 \in S
  BY <1>1, DataOverMonotone
<1>3. ASSUME NEW m \in S PROVE m + 1 \in S
  <2> SUFFICES ASSUME (m + 1) + 1 <= MaxDepth PROVE Level[m + 1] \subseteq Level[(m + 1) + 1]
    OBVIOUS
  <2>1. m + 1 \in Nat /\ m + 1 <= MaxDepth /\ Level[m] \subseteq Level[m + 1]
    BY BencodeAssumption
  <2>2. Level[m + 1] = DataOver(Level[m]) /\ Level[(m + 1) + 1] = DataOver(Level[m + 1])
    BY <1>1, <2>1
  <2> QED
    BY <2>1, <2>2, DataOverMonotone
<1>4. S = Nat
  <2> HIDE DEF S
  <2> QED
    BY <1>2, <1>3, SetInduction DEF S
<1> QED
  BY <1>4

\* The values of a level are in Data.
LEMMA LevelOfData ==
  ASSUME NEW n \in 0 .. MaxDepth
  PROVE  Level[n] \subseteq Data
<1> DEFINE S == {m \in Nat : \A k \in 0 .. MaxDepth : k + m = MaxDepth => Level[k] \subseteq Data}
<1>1. 0 \in S
  BY BencodeAssumption DEF Data
<1>2. ASSUME NEW m \in S PROVE m + 1 \in S
  <2> SUFFICES ASSUME NEW k \in 0 .. MaxDepth, k + (m + 1) = MaxDepth
               PROVE  Level[k] \subseteq Data
    OBVIOUS
  <2>1. k \in Nat /\ k + 1 \in 0 .. MaxDepth /\ (k + 1) + m = MaxDepth /\ k + 1 <= MaxDepth
    BY BencodeAssumption
  <2> QED
    BY <2>1, LevelMonotone
<1>3. S = Nat
  <2> HIDE DEF S
  <2> QED
    BY <1>1, <1>2, SetInduction DEF S
<1>4. MaxDepth - n \in Nat /\ n + (MaxDepth - n) = MaxDepth
  BY BencodeAssumption
<1>5. MaxDepth - n \in S
  <2> HIDE DEF S
  <2> QED
    BY <1>3, <1>4
<1> QED
  BY <1>4, <1>5

\* What a value of DataOver is made of.
LEMMA Parts ==
  ASSUME NEW I, NEW v \in DataOver(I)
  PROVE  /\ v.type \in {"BINT", "BSTR", "BLIST", "BDICT"}
         /\ v.type = "BINT" => v.i \in -MaxBint .. MaxBint
         /\ v.type = "BSTR" => v.str \in Str
         /\ v.type = "BLIST" => v.list \in Seq(I)
         /\ v.type = "BDICT" => v.dict \in Seq([key : Str, value : I])
         /\ v.range \in Nat \X Nat
  BY DEF DataOver

\* The items of a value.
Items(v) ==
  CASE v.type = "BLIST" -> {v.list[k] : k \in DOMAIN v.list}
    [] v.type = "BDICT" -> {v.dict[k].value : k \in DOMAIN v.dict}
    [] OTHER -> {}

\* The items of a value of DataOver(I) are in I.
LEMMA ItemsInside ==
  ASSUME NEW I, NEW v \in DataOver(I)
  PROVE  Items(v) \subseteq I
<1>1. CASE v.type = "BLIST"
  <2>1. v.list \in Seq(I)
    BY <1>1, Parts
  <2>2. \A k \in DOMAIN v.list : v.list[k] \in I
    BY <2>1
  <2> QED
    BY <1>1, <2>2 DEF Items
<1>2. CASE v.type = "BDICT"
  <2>1. v.dict \in Seq([key : Str, value : I])
    BY <1>2, Parts
  <2>2. \A k \in DOMAIN v.dict : v.dict[k] \in [key : Str, value : I]
    <3> DEFINE J == [key : Str, value : I]
    <3>1. v.dict \in Seq(J)
      BY <2>1
    <3> HIDE DEF J
    <3>2. \A k \in DOMAIN v.dict : v.dict[k] \in J
      BY <3>1
    <3> QED
      BY <3>2 DEF J
  <2>3. \A k \in DOMAIN v.dict : v.dict[k].value \in I
    BY <2>2
  <2> QED
    BY <1>2, <2>3 DEF Items
<1>3. CASE v.type \notin {"BLIST", "BDICT"}
  BY <1>3 DEF Items
<1> QED
  BY <1>1, <1>2, <1>3

\* The values of level n + 1 have their items in level n.
LEMMA NextLevel ==
  ASSUME NEW n \in Nat, n + 1 <= MaxDepth
  PROVE  Level[n + 1] = DataOver(Level[n])
<1>1. n + 1 \in 0 .. MaxDepth /\ n + 1 # 0 /\ (n + 1) - 1 = n
  BY BencodeAssumption
<1> QED
  BY <1>1, LevelEquation

\* Encoded, Bare and Within are what their definitions say of them: a function on one
\* level extends to the next, since what it makes of a value depends on the items alone.
LEMMA EncodedEquation == \A v \in Data : Encoded[v] = EncodedBy(Encoded, v)
<1>1. ASSUME NEW I, NEW v \in DataOver(I), NEW g, NEW h, \A x \in I : g[x] = h[x]
      PROVE  EncodedBy(g, v) = EncodedBy(h, v)
  <2>1. \A x \in Items(v) : g[x] = h[x]
    BY <1>1, ItemsInside
  <2>2. v.type = "BLIST" =>
          [k \in DOMAIN v.list |-> g[v.list[k]]] = [k \in DOMAIN v.list |-> h[v.list[k]]]
    BY <2>1 DEF Items
  <2>3. v.type = "BDICT" =>
          [k \in DOMAIN v.dict |-> EncodedStr(v.dict[k].key) \o g[v.dict[k].value]] =
          [k \in DOMAIN v.dict |-> EncodedStr(v.dict[k].key) \o h[v.dict[k].value]]
    BY <2>1 DEF Items
  <2> QED
    BY <2>2, <2>3, Parts, Zenon DEF EncodedBy
<1> DEFINE Grows(g, n) == g = [v \in Level[n] |-> EncodedBy(g, v)]
<1> DEFINE S == {n \in Nat : n <= MaxDepth => \E g : Grows(g, n)}
<1>2. 0 \in S
  <2> DEFINE g == [v \in Level[0] |-> EncodedBy(<< >>, v)]
  <2>1. Level[0] = DataOver({})
    BY LevelEquation, BencodeAssumption
  <2>2. \A v \in Level[0] : g[v] = EncodedBy(g, v)
    <3> SUFFICES ASSUME NEW v \in Level[0] PROVE EncodedBy(<< >>, v) = EncodedBy(g, v)
      OBVIOUS
    <3> HIDE DEF g
    <3> QED
      BY <1>1, <2>1
  <2>3. g = [v \in Level[0] |-> g[v]]
    OBVIOUS
  <2> HIDE DEF g
  <2>4. Grows(g, 0)
    BY <2>2, <2>3
  <2> QED
    BY <2>4
<1>3. ASSUME NEW n \in S PROVE n + 1 \in S
  <2> SUFFICES ASSUME n + 1 <= MaxDepth PROVE \E g : Grows(g, n + 1)
    OBVIOUS
  <2>1. PICK g : Grows(g, n)
    BY BencodeAssumption
  <2> DEFINE h == [v \in Level[n + 1] |-> EncodedBy(g, v)]
  <2>2. Level[n] \subseteq Level[n + 1]
    BY LevelMonotone
  <2>3. \A v \in Level[n] : h[v] = g[v]
    <3>1. \A v \in Level[n] : g[v] = EncodedBy(g, v)
      BY <2>1
    <3> QED
      BY <2>2, <3>1
  <2>4. Level[n + 1] = DataOver(Level[n])
    BY NextLevel
  <2>5. h = [v \in Level[n + 1] |-> h[v]] /\ \A v \in Level[n + 1] : h[v] = EncodedBy(g, v)
    OBVIOUS
  <2> HIDE DEF h
  <2>6. \A v \in Level[n + 1] : EncodedBy(g, v) = EncodedBy(h, v)
    BY <1>1, <2>3, <2>4
  <2>7. Grows(h, n + 1)
    BY <2>5, <2>6
  <2> QED
    BY <2>7
<1>4. S = Nat
  <2> HIDE DEF S
  <2> QED
    BY <1>2, <1>3, SetInduction DEF S
<1>5. MaxDepth \in S
  <2> HIDE DEF S
  <2> QED
    BY <1>4, BencodeAssumption
<1>6. \E g : Grows(g, MaxDepth)
  BY <1>5, BencodeAssumption
<1>7. \E g : g = [v \in Data |-> EncodedBy(g, v)]
  BY <1>6, Zenon DEF Data
<1> HIDE DEF Grows, S
<1>8. Encoded = [v \in Data |-> EncodedBy(Encoded, v)]
  BY <1>7, Zenon DEF Encoded, EncodedBy
<1> QED
  BY <1>8, Zenon

\* The same of Bare.
LEMMA BareEquation == \A v \in Data : Bare[v] = BareBy(Bare, v)
<1>1. ASSUME NEW I, NEW v \in DataOver(I), NEW g, NEW h, \A x \in I : g[x] = h[x]
      PROVE  BareBy(g, v) = BareBy(h, v)
  <2>1. \A x \in Items(v) : g[x] = h[x]
    BY <1>1, ItemsInside
  <2>2. v.type = "BLIST" =>
          [k \in DOMAIN v.list |-> g[v.list[k]]] = [k \in DOMAIN v.list |-> h[v.list[k]]]
    BY <2>1 DEF Items
  <2>3. v.type = "BDICT" =>
          [k \in DOMAIN v.dict |-> [key |-> v.dict[k].key, value |-> g[v.dict[k].value]]] =
          [k \in DOMAIN v.dict |-> [key |-> v.dict[k].key, value |-> h[v.dict[k].value]]]
    BY <2>1 DEF Items
  <2> QED
    BY <2>2, <2>3, Parts, Zenon DEF BareBy
<1> DEFINE Grows(g, n) == g = [v \in Level[n] |-> BareBy(g, v)]
<1> DEFINE S == {n \in Nat : n <= MaxDepth => \E g : Grows(g, n)}
<1>2. 0 \in S
  <2> DEFINE g == [v \in Level[0] |-> BareBy(<< >>, v)]
  <2>1. Level[0] = DataOver({})
    BY LevelEquation, BencodeAssumption
  <2>2. \A v \in Level[0] : g[v] = BareBy(g, v)
    <3> SUFFICES ASSUME NEW v \in Level[0] PROVE BareBy(<< >>, v) = BareBy(g, v)
      OBVIOUS
    <3> HIDE DEF g
    <3> QED
      BY <1>1, <2>1
  <2>3. g = [v \in Level[0] |-> g[v]]
    OBVIOUS
  <2> HIDE DEF g
  <2>4. Grows(g, 0)
    BY <2>2, <2>3
  <2> QED
    BY <2>4
<1>3. ASSUME NEW n \in S PROVE n + 1 \in S
  <2> SUFFICES ASSUME n + 1 <= MaxDepth PROVE \E g : Grows(g, n + 1)
    OBVIOUS
  <2>1. PICK g : Grows(g, n)
    BY BencodeAssumption
  <2> DEFINE h == [v \in Level[n + 1] |-> BareBy(g, v)]
  <2>2. Level[n] \subseteq Level[n + 1]
    BY LevelMonotone
  <2>3. \A v \in Level[n] : h[v] = g[v]
    <3>1. \A v \in Level[n] : g[v] = BareBy(g, v)
      BY <2>1
    <3> QED
      BY <2>2, <3>1
  <2>4. Level[n + 1] = DataOver(Level[n])
    BY NextLevel
  <2>5. h = [v \in Level[n + 1] |-> h[v]] /\ \A v \in Level[n + 1] : h[v] = BareBy(g, v)
    OBVIOUS
  <2> HIDE DEF h
  <2>6. \A v \in Level[n + 1] : BareBy(g, v) = BareBy(h, v)
    BY <1>1, <2>3, <2>4
  <2>7. Grows(h, n + 1)
    BY <2>5, <2>6
  <2> QED
    BY <2>7
<1>4. S = Nat
  <2> HIDE DEF S
  <2> QED
    BY <1>2, <1>3, SetInduction DEF S
<1>5. MaxDepth \in S
  <2> HIDE DEF S
  <2> QED
    BY <1>4, BencodeAssumption
<1>6. \E g : Grows(g, MaxDepth)
  BY <1>5, BencodeAssumption
<1>7. \E g : g = [v \in Data |-> BareBy(g, v)]
  BY <1>6, Zenon DEF Data
<1> HIDE DEF Grows, S
<1>8. Bare = [v \in Data |-> BareBy(Bare, v)]
  BY <1>7, Zenon DEF Bare, BareBy
<1> QED
  BY <1>8, Zenon

\* The same of Within.
LEMMA WithinEquation == \A v \in Data : Within[v] = WithinBy(Within, v)
<1>1. ASSUME NEW I, NEW v \in DataOver(I), NEW g, NEW h, \A x \in I : g[x] = h[x]
      PROVE  WithinBy(g, v) = WithinBy(h, v)
  <2>1. \A x \in Items(v) : g[x] = h[x]
    BY <1>1, ItemsInside
  <2> QED
    BY <2>1, Parts DEF WithinBy, Items
<1> DEFINE Grows(g, n) == g = [v \in Level[n] |-> WithinBy(g, v)]
<1> DEFINE S == {n \in Nat : n <= MaxDepth => \E g : Grows(g, n)}
<1>2. 0 \in S
  <2> DEFINE g == [v \in Level[0] |-> WithinBy(<< >>, v)]
  <2>1. Level[0] = DataOver({})
    BY LevelEquation, BencodeAssumption
  <2>2. \A v \in Level[0] : g[v] = WithinBy(g, v)
    <3> SUFFICES ASSUME NEW v \in Level[0] PROVE WithinBy(<< >>, v) = WithinBy(g, v)
      OBVIOUS
    <3> HIDE DEF g
    <3> QED
      BY <1>1, <2>1
  <2>3. g = [v \in Level[0] |-> g[v]]
    OBVIOUS
  <2> HIDE DEF g
  <2>4. Grows(g, 0)
    BY <2>2, <2>3
  <2> QED
    BY <2>4
<1>3. ASSUME NEW n \in S PROVE n + 1 \in S
  <2> SUFFICES ASSUME n + 1 <= MaxDepth PROVE \E g : Grows(g, n + 1)
    OBVIOUS
  <2>1. PICK g : Grows(g, n)
    BY BencodeAssumption
  <2> DEFINE h == [v \in Level[n + 1] |-> WithinBy(g, v)]
  <2>2. Level[n] \subseteq Level[n + 1]
    BY LevelMonotone
  <2>3. \A v \in Level[n] : h[v] = g[v]
    <3>1. \A v \in Level[n] : g[v] = WithinBy(g, v)
      BY <2>1
    <3> QED
      BY <2>2, <3>1
  <2>4. Level[n + 1] = DataOver(Level[n])
    BY NextLevel
  <2>5. h = [v \in Level[n + 1] |-> h[v]] /\ \A v \in Level[n + 1] : h[v] = WithinBy(g, v)
    OBVIOUS
  <2> HIDE DEF h
  <2>6. \A v \in Level[n + 1] : WithinBy(g, v) = WithinBy(h, v)
    BY <1>1, <2>3, <2>4
  <2>7. Grows(h, n + 1)
    BY <2>5, <2>6
  <2> QED
    BY <2>7
<1>4. S = Nat
  <2> HIDE DEF S
  <2> QED
    BY <1>2, <1>3, SetInduction DEF S
<1>5. MaxDepth \in S
  <2> HIDE DEF S
  <2> QED
    BY <1>4, BencodeAssumption
<1>6. \E g : Grows(g, MaxDepth)
  BY <1>5, BencodeAssumption
<1>7. Grows(Within, MaxDepth)
  BY <1>6, Zenon DEF Within, WithinBy, Data
<1> QED
  BY <1>7 DEF Data

-----------------------------------------------------------------------------
(* How numbers are written *)

DecimalBy(f, n) == (IF n >= 10 THEN f[n \div 10] ELSE << >>) \o <<Digits[(n % 10) + 1]>>

\* Division by the base of the numbers.
LEMMA Division ==
  ASSUME NEW n \in Nat
  PROVE  /\ n \div 10 \in Nat /\ n % 10 \in 0 .. 9
         /\ n = 10 * (n \div 10) + (n % 10)
         /\ n >= 10 => n \div 10 < n
         /\ n < 10 => n % 10 = n
  OBVIOUS

\* Decimal is what its definition says of it.
LEMMA DecimalEquation == \A n \in 0 .. MaxBint : Decimal[n] = DecimalBy(Decimal, n)
<1> DEFINE Grows(g, n) == g = [m \in 0 .. n |-> DecimalBy(g, m)]
<1> DEFINE S == {n \in Nat : \E g : Grows(g, n)}
<1>1. 0 \in S
  <2> DEFINE g == [m \in 0 .. 0 |-> DecimalBy(<< >>, m)]
  <2>1. \A m \in 0 .. 0 : g[m] = DecimalBy(g, m)
    BY DEF DecimalBy
  <2>2. g = [m \in 0 .. 0 |-> g[m]]
    OBVIOUS
  <2> HIDE DEF g
  <2>3. Grows(g, 0)
    BY <2>1, <2>2
  <2> QED
    BY <2>3
<1>2. ASSUME NEW n \in S PROVE n + 1 \in S
  <2>1. PICK g : Grows(g, n)
    OBVIOUS
  <2> DEFINE h == [m \in 0 .. n + 1 |-> IF m = n + 1 THEN DecimalBy(g, m) ELSE g[m]]
  <2>2. \A m \in 0 .. n : h[m] = g[m] /\ g[m] = DecimalBy(g, m)
    <3>1. \A m \in 0 .. n : g[m] = DecimalBy(g, m)
      BY <2>1
    <3>2. \A m \in 0 .. n : m \in 0 .. n + 1 /\ m # n + 1
      OBVIOUS
    <3>3. \A m \in 0 .. n : h[m] = g[m]
      BY <3>2
    <3> QED
      BY <3>1, <3>3
  <2>3. h = [m \in 0 .. n + 1 |-> h[m]] /\ h[n + 1] = DecimalBy(g, n + 1)
    OBVIOUS
  <2> HIDE DEF h
  <2>4. ASSUME NEW m \in 0 .. n + 1 PROVE DecimalBy(g, m) = DecimalBy(h, m)
    <3>1. m >= 10 => m \div 10 \in 0 .. n
      BY Division
    <3>2. m >= 10 => g[m \div 10] = h[m \div 10]
      BY <2>2, <3>1
    <3> QED
      BY <3>2 DEF DecimalBy
  <2>5. \A m \in 0 .. n + 1 : h[m] = DecimalBy(h, m)
    <3> SUFFICES ASSUME NEW m \in 0 .. n + 1 PROVE h[m] = DecimalBy(h, m)
      OBVIOUS
    <3>1. m \in 0 .. n \/ m = n + 1
      OBVIOUS
    <3> QED
      BY <2>2, <2>3, <2>4, <3>1, Zenon
  <2>6. Grows(h, n + 1)
    BY <2>3, <2>5
  <2> QED
    BY <2>6
<1>3. S = Nat
  <2> HIDE DEF S
  <2> QED
    BY <1>1, <1>2, SetInduction DEF S
<1>4. MaxBint \in S
  <2> HIDE DEF S
  <2> QED
    BY <1>3, BencodeAssumption
<1>5. \E g : Grows(g, MaxBint)
  BY <1>4
<1>6. Grows(Decimal, MaxBint)
  BY <1>5, Zenon DEF Decimal, DecimalBy
<1> QED
  BY <1>6

\* The digit a number ends with, and what is before it.
LEMMA LastDigit ==
  ASSUME NEW n \in 0 .. MaxBint
  PROVE  /\ n < 10 => Decimal[n] = <<Digits[n + 1]>>
         /\ n >= 10 => /\ n \div 10 \in 0 .. MaxBint
                       /\ Decimal[n] = Decimal[n \div 10] \o <<Digits[(n % 10) + 1]>>
<1>1. n \in Nat
  BY BencodeAssumption
<1>2. n < 10 => << >> \o <<Digits[n + 1]>> = <<Digits[n + 1]>>
  OBVIOUS
<1>3. n >= 10 => n \div 10 \in 0 .. MaxBint
  BY <1>1, Division, BencodeAssumption
<1> QED
  BY <1>1, <1>2, <1>3, Division, DecimalEquation DEF DecimalBy

\* The ten digits: characters, each of them the digit of its number.
LEMMA DigitChars ==
  /\ \A c : IsDigit(c) <=> c \in {"0", "1", "2", "3", "4", "5", "6", "7", "8", "9"}
  /\ \A d \in 0 .. 9 : Digits[d + 1] \in Char /\ IsDigit(Digits[d + 1])
  /\ \A d \in 0 .. 9 : DigitOf(Digits[d + 1]) = d
<1>1. \A c : IsDigit(c) <=> c \in {"0", "1", "2", "3", "4", "5", "6", "7", "8", "9"}
  BY DEF IsDigit, Contains, Digits
<1>2. ASSUME NEW d \in 0 .. 9
      PROVE  Digits[d + 1] \in Char /\ IsDigit(Digits[d + 1])
  <2>1. d + 1 \in 1 .. 10
    OBVIOUS
  <2>2. Digits[d + 1] \in Char
    BY <2>1, BencodeAssumption
  <2>3. Digits[d + 1] \in {"0", "1", "2", "3", "4", "5", "6", "7", "8", "9"}
    BY DEF Digits
  <2> QED
    BY <1>1, <2>2, <2>3
<1>3. ASSUME NEW d \in 0 .. 9 PROVE DigitOf(Digits[d + 1]) = d
  BY DEF DigitOf, Digits
<1> QED
  BY <1>1, <1>2, <1>3

\* A digit stands for a number below ten.
LEMMA DigitRange ==
  ASSUME NEW c, IsDigit(c)
  PROVE  DigitOf(c) \in 0 .. 9
<1>1. PICK k \in 1 .. 10 : Digits[k] = c
  BY DEF IsDigit, Contains, Digits
<1>2. k - 1 \in 0 .. 9 /\ (k - 1) + 1 = k
  OBVIOUS
<1>3. DigitOf(Digits[(k - 1) + 1]) = k - 1
  BY <1>2, DigitChars
<1> QED
  BY <1>1, <1>2, <1>3

\* A number is written in digits, at least one.
LEMMA DecimalSeq ==
  ASSUME NEW n \in 0 .. MaxBint
  PROVE  Decimal[n] \in Seq(Char) /\ Len(Decimal[n]) >= 1 /\ IsDigit(Decimal[n][1])
<1> DEFINE Written(m) ==
      Decimal[m] \in Seq(Char) /\ Len(Decimal[m]) >= 1 /\ IsDigit(Decimal[m][1])
<1> DEFINE S == {k \in Nat : \A m \in 0 .. k : m <= MaxBint => Written(m)}
<1>1. ASSUME NEW m \in 0 .. MaxBint, m >= 10 => Written(m \div 10)
      PROVE  Written(m)
  <2>1. m \in Nat /\ m % 10 \in 0 .. 9
    BY Division, BencodeAssumption
  <2>2. Digits[(m % 10) + 1] \in Char /\ IsDigit(Digits[(m % 10) + 1])
    BY <2>1, DigitChars
  <2>3. CASE m < 10
    <3>1. Decimal[m] = <<Digits[m + 1]>> /\ m % 10 = m
      BY <2>1, <2>3, LastDigit, Division
    <3> QED
      BY <2>2, <3>1
  <2>4. CASE m >= 10
    <3> DEFINE s == Decimal[m \div 10]
    <3> DEFINE c == Digits[(m % 10) + 1]
    <3>1. Decimal[m] = s \o <<c>>
      BY <2>4, LastDigit
    <3>2. s \in Seq(Char) /\ Len(s) >= 1 /\ IsDigit(s[1]) /\ c \in Char
      BY <1>1, <2>2, <2>4
    <3> HIDE DEF s, c
    <3> QED
      BY <3>1, <3>2
  <2> QED
    BY <2>1, <2>3, <2>4
<1>2. 0 \in S
  BY <1>1
<1>3. ASSUME NEW k \in S PROVE k + 1 \in S
  <2> SUFFICES ASSUME NEW m \in 0 .. k + 1, m <= MaxBint PROVE Written(m)
    OBVIOUS
  <2>1. m \in Nat /\ m \in 0 .. MaxBint
    BY BencodeAssumption
  <2>2. m >= 10 => m \div 10 \in 0 .. k /\ m \div 10 <= MaxBint
    BY <2>1, Division, BencodeAssumption
  <2>3. m >= 10 => Written(m \div 10)
    BY <2>2
  <2> HIDE DEF Written
  <2> QED
    BY <1>1, <2>1, <2>3
<1>4. S = Nat
  <2> HIDE DEF S
  <2> QED
    BY <1>2, <1>3, SetInduction DEF S
<1>5. n \in S /\ n \in 0 .. n /\ n <= MaxBint
  <2> HIDE DEF S
  <2> QED
    BY <1>4, BencodeAssumption
<1> QED
  BY <1>5

-----------------------------------------------------------------------------
(* Reading numbers and strings *)

\* From p on the text is the one of s, as far as it goes.
Agrees(p, s) == \A j \in 1 .. Len(s) : p + j - 1 <= Len(text) => text[p + j - 1] = s[j]

\* All of s is there.
Fits(p, s) == p + Len(s) <= Len(text) + 1

\* Two texts, one after the other: the second lies behind the first, if the first fits.
LEMMA AgreesParts ==
  ASSUME text \in Seq(Char), NEW p \in Position, NEW s \in Seq(Char), NEW t \in Seq(Char),
         Agrees(p, s \o t)
  PROVE  /\ Agrees(p, s)
         /\ Fits(p, s) => p + Len(s) \in Position /\ Agrees(p + Len(s), t)
         /\ Fits(p, s \o t) <=> Fits(p, s) /\ Fits(p + Len(s), t)
         /\ p + Len(s \o t) = p + Len(s) + Len(t)
<1>1. Len(s \o t) = Len(s) + Len(t) /\ Len(s) \in Nat /\ Len(t) \in Nat /\ Len(text) \in Nat
  OBVIOUS
<1>2. \A j \in 1 .. Len(s) : j \in 1 .. Len(s \o t) /\ (s \o t)[j] = s[j]
  BY <1>1
<1>3. \A j \in 1 .. Len(t) : Len(s) + j \in 1 .. Len(s \o t) /\ (s \o t)[Len(s) + j] = t[j]
  BY <1>1
<1>4. Agrees(p, s)
  BY <1>2 DEF Agrees
<1>5. Agrees(p + Len(s), t)
  <2> SUFFICES ASSUME NEW j \in 1 .. Len(t), p + Len(s) + j - 1 <= Len(text)
               PROVE  text[p + Len(s) + j - 1] = t[j]
    BY DEF Agrees
  <2>1. p + Len(s) + j - 1 = p + (Len(s) + j) - 1
    BY <1>1 DEF Position
  <2> QED
    BY <1>3, <2>1 DEF Agrees
<1> QED
  BY <1>1, <1>4, <1>5 DEF Fits, Position

\* What is written at p, and all there, is the text from p on.
LEMMA OwnText ==
  ASSUME text \in Seq(Char), NEW p \in Position, NEW s \in Seq(Char), Agrees(p, s), Fits(p, s)
  PROVE  SubSeq(text, p, p + Len(s) - 1) = s
<1>1. PICK n \in Nat : n = Len(s)
  OBVIOUS
<1>2. p \in 1 .. Len(text) + 1 /\ p + n - 1 <= Len(text)
  BY <1>1 DEF Fits, Position
<1>3. ASSUME NEW j \in 1 .. n PROVE text[p + j - 1] = s[j]
  <2>1. p + j - 1 <= Len(text)
    BY <1>2
  <2> QED
    BY <1>1, <2>1 DEF Agrees
<1>4. PICK t \in Seq(Char) : /\ t = SubSeq(text, p, p + n - 1)
                             /\ Len(t) = n
                             /\ \A j \in 1 .. n : t[j] = text[p + j - 1]
  <2>1. PICK q \in Int : q = p + n - 1
    BY <1>2
  <2>2. p \in Int /\ \A i \in p .. q : text[i] \in Char
    BY <1>2, <2>1
  <2>3. /\ SubSeq(text, p, q) \in Seq(Char)
        /\ Len(SubSeq(text, p, q)) = IF p <= q THEN q - p + 1 ELSE 0
        /\ \A i \in 1 .. q - p + 1 : SubSeq(text, p, q)[i] = text[p + i - 1]
    BY <2>2, SubSeqProperties
  <2>4. q - p + 1 = n /\ (IF p <= q THEN q - p + 1 ELSE 0) = n
    BY <1>2, <2>1
  <2> QED
    BY <2>1, <2>3, <2>4, ZenonT(30)
<1>5. t = s
  <2>1. Len(t) = Len(s) /\ \A j \in 1 .. Len(t) : t[j] = s[j]
    BY <1>1, <1>3, <1>4
  <2> QED
    BY <2>1, SeqEqual
<1> QED
  BY <1>1, <1>4, <1>5

\* The first character of what is written at p.
LEMMA FirstAgrees ==
  ASSUME text \in Seq(Char), NEW p \in Position, NEW s \in Seq(Char), Len(s) >= 1, Agrees(p, s)
  PROVE  Peek(p) = IF p <= Len(text) THEN s[1] ELSE BUF_EOF
<1>1. 1 \in 1 .. Len(s) /\ p + 1 - 1 = p
  BY DEF Position
<1>2. p <= Len(text) => text[p] = s[1]
  BY <1>1 DEF Agrees
<1> QED
  BY <1>2 DEF Peek, Position

UintBy(f, q, n, stop) ==
  IF Peek(q) = stop THEN Parsed(n, q + 1)
  ELSE IF IsDigit(Peek(q)) THEN f[q + 1][n * 10 + DigitOf(Peek(q))]
  ELSE NULL

\* f[q][n] is what parse_uint returns that has read n and come to q.
UintTable(f, stop) == \A q \in Position, n \in Nat : f[q][n] = UintBy(f, q, n, stop)

\* The end of the text is no digit, so parse_uint stops there.
LEMMA UintEquation ==
  ASSUME text \in Seq(Char), NEW stop
  PROVE  \E f : UintTable(f, stop) /\ \A p : ParseUint(p, stop) = f[p][0]
<1> DEFINE N == Len(text) + 1
<1> DEFINE Grows(g, k) == g = [q \in N - k .. N |-> [n \in Nat |-> UintBy(g, q, n, stop)]]
<1> DEFINE S == {k \in Nat : \E g : Grows(g, k)}
<1>1. N \in Nat /\ Position = 1 .. N /\ ~IsDigit(Peek(N))
  <2>1. Len(text) \in Nat /\ N > Len(text)
    OBVIOUS
  <2>2. Peek(N) = "EOF"
    BY <2>1 DEF Peek, BUF_EOF
  <2> QED
    BY <2>1, <2>2, DigitChars DEF Position
<1> HIDE DEF N
<1>2. 0 \in S
  <2> DEFINE g == [q \in N .. N |-> [n \in Nat |-> UintBy(<< >>, q, n, stop)]]
  <2>1. \A q \in N .. N, n \in Nat : UintBy(<< >>, q, n, stop) = UintBy(g, q, n, stop)
    <3>1. \A q \in N .. N : q = N
      BY <1>1
    <3> HIDE DEF g
    <3> QED
      BY <1>1, <3>1 DEF UintBy
  <2>2. g = [q \in N .. N |-> g[q]]
        /\ \A q \in N .. N : g[q] = [n \in Nat |-> UintBy(<< >>, q, n, stop)]
    OBVIOUS
  <2> HIDE DEF g
  <2>3. N - 0 = N
    BY <1>1
  <2>4. Grows(g, 0)
    BY <2>1, <2>2, <2>3
  <2> QED
    BY <2>4
<1>3. ASSUME NEW k \in S PROVE k + 1 \in S
  <2>1. PICK g : Grows(g, k)
    OBVIOUS
  <2> DEFINE r == N - (k + 1)
  <2> DEFINE h == [q \in r .. N |-> IF q = r THEN [n \in Nat |-> UintBy(g, r, n, stop)] ELSE g[q]]
  <2>2. r \in Int /\ r + 1 = N - k /\ r < N
    BY <1>1
  <2>3. \A q \in r .. N : q = r \/ q \in N - k .. N
    BY <2>2
  <2>4. \A q \in r .. N : q # N => q + 1 \in N - k .. N
    BY <1>1, <2>2
  <2> HIDE DEF r
  <2>5. \A q \in N - k .. N : h[q] = g[q] /\ q \in r .. N
    BY <1>1, <2>2
  <2>6. /\ h = [q \in r .. N |-> h[q]]
        /\ h[r] = [n \in Nat |-> UintBy(g, r, n, stop)]
    BY <1>1, <2>2
  <2> HIDE DEF h
  <2>7. \A q \in N - k .. N : g[q] = [n \in Nat |-> UintBy(g, q, n, stop)]
    BY <2>1
  <2>8. ASSUME NEW q \in r .. N, NEW n \in Nat
        PROVE  UintBy(g, q, n, stop) = UintBy(h, q, n, stop)
    <3>1. q # N => g[q + 1] = h[q + 1]
      BY <2>4, <2>5
    <3> QED
      BY <1>1, <3>1 DEF UintBy
  <2>9. \A q \in r .. N : h[q] = [n \in Nat |-> UintBy(g, q, n, stop)]
    BY <2>3, <2>5, <2>6, <2>7
  <2>10. \A q \in r .. N : h[q] = [n \in Nat |-> UintBy(h, q, n, stop)]
    BY <2>8, <2>9
  <2>11. Grows(h, k + 1)
    BY <2>6, <2>10 DEF r
  <2> QED
    BY <2>11
<1>4. S = Nat
  <2> HIDE DEF S
  <2> QED
    BY <1>2, <1>3, SetInduction DEF S
<1>5. N - 1 \in S
  <2>1. N - 1 \in Nat
    BY DEF N
  <2> HIDE DEF S
  <2> QED
    BY <1>4, <2>1
<1> DEFINE table(g) == g = [q \in Position |-> [n \in Nat |-> UintBy(g, q, n, stop)]]
<1>6. \E g : table(g)
  <2>1. N - (N - 1) = 1
    BY <1>1
  <2> QED
    BY <1>1, <1>5, <2>1
<1> DEFINE f == CHOOSE g : table(g)
<1>7. table(f)
  BY <1>6, Zenon
<1>8. \A p : ParseUint(p, stop) = f[p][0]
  BY Zenon DEF ParseUint, UintBy
<1> HIDE DEF f
<1>9. \A q \in Position : f[q] = [n \in Nat |-> UintBy(f, q, n, stop)]
  BY <1>7
<1>10. UintTable(f, stop)
  BY <1>9 DEF UintTable
<1> QED
  BY <1>8, <1>10, Zenon

\* A single character that is written at p.
LEMMA CharAgrees ==
  ASSUME text \in Seq(Char), NEW p \in Position, NEW c \in Char, Agrees(p, <<c>>)
  PROVE  /\ Peek(p) = IF p <= Len(text) THEN c ELSE BUF_EOF
         /\ p <= Len(text) => text[p] = c
         /\ Fits(p, <<c>>) <=> p <= Len(text)
         /\ Len(<<c>>) = 1
<1>1. <<c>> \in Seq(Char) /\ Len(<<c>>) = 1 /\ <<c>>[1] = c
  OBVIOUS
<1>2. Peek(p) = IF p <= Len(text) THEN c ELSE BUF_EOF
  <2>1. PICK s \in Seq(Char) : s = <<c>>
    BY <1>1
  <2>2. Len(s) >= 1 /\ Agrees(p, s) /\ s[1] = c
    BY <1>1, <2>1
  <2> QED
    BY <2>2, FirstAgrees
<1>3. p <= Len(text) => text[p] = c
  BY <1>2 DEF Peek, Position
<1>4. Fits(p, <<c>>) <=> p <= Len(text)
  BY <1>1 DEF Fits, Position
<1> QED
  BY <1>1, <1>2, <1>3, <1>4

\* One round of the loop of parse_uint, at a digit.
LEMMA OneDigit ==
  ASSUME text \in Seq(Char), NEW stop \in {"e", ":"}, NEW f,
         NEW q \in Position, NEW n \in Nat, NEW d \in 0 .. 9,
         q <= Len(text) => text[q] = Digits[d + 1]
  PROVE  UintBy(f, q, n, stop) = IF q <= Len(text) THEN f[q + 1][n * 10 + d] ELSE NULL
<1>1. ~IsDigit(BUF_EOF) /\ ~IsDigit(stop) /\ stop # BUF_EOF
  BY DigitChars DEF BUF_EOF
<1>2. CASE q <= Len(text)
  <2>1. Peek(q) = Digits[d + 1]
    BY <1>2 DEF Peek, Position
  <2>2. IsDigit(Peek(q)) /\ DigitOf(Peek(q)) = d /\ Peek(q) # stop
    BY <1>1, <2>1, DigitChars
  <2> QED
    BY <1>2, <2>2 DEF UintBy
<1>3. CASE ~(q <= Len(text))
  <2>1. Peek(q) = BUF_EOF
    BY <1>3 DEF Peek, Position
  <2> QED
    BY <1>1, <1>3, <2>1 DEF UintBy
<1> QED
  BY <1>2, <1>3

\* parse_uint at the first digit of a number has read the number behind its last one.
LEMMA DigitsRead ==
  ASSUME text \in Seq(Char), NEW stop \in {"e", ":"}, NEW f, UintTable(f, stop),
         NEW n \in 0 .. MaxBint, NEW p \in Position, Agrees(p, Decimal[n])
  PROVE  f[p][0] = IF Fits(p, Decimal[n]) THEN f[p + Len(Decimal[n])][n] ELSE NULL
<1> DEFINE Read(m) ==
      \A r \in Position : Agrees(r, Decimal[m]) =>
        f[r][0] = IF Fits(r, Decimal[m]) THEN f[r + Len(Decimal[m])][m] ELSE NULL
<1> DEFINE S == {k \in Nat : \A m \in 0 .. k : m <= MaxBint => Read(m)}
<1>1. ASSUME NEW m \in 0 .. MaxBint, m >= 10 => Read(m \div 10)
      PROVE  Read(m)
  <2> SUFFICES ASSUME NEW r \in Position, Agrees(r, Decimal[m])
               PROVE  f[r][0] = IF Fits(r, Decimal[m]) THEN f[r + Len(Decimal[m])][m] ELSE NULL
    OBVIOUS
  <2>1. m \in Nat /\ m % 10 \in 0 .. 9 /\ r \in Nat /\ Len(text) \in Nat
    BY Division, BencodeAssumption DEF Position
  <2>2. PICK d \in 0 .. 9 : d = m % 10
    BY <2>1
  <2>3. PICK c \in Char : c = Digits[d + 1]
    BY DigitChars
  <2>4. CASE m < 10
    <3>1. d = m /\ Decimal[m] = <<c>>
      BY <2>1, <2>2, <2>3, <2>4, LastDigit, Division
    <3>2. Agrees(r, <<c>>)
      BY <3>1
    <3>3. /\ r <= Len(text) => text[r] = Digits[d + 1]
          /\ Fits(r, <<c>>) <=> r <= Len(text)
          /\ Len(<<c>>) = 1
      BY <2>3, <3>2, CharAgrees
    <3>4. UintBy(f, r, 0, stop) = IF r <= Len(text) THEN f[r + 1][d] ELSE NULL
      <4>1. PICK z \in Nat : z = 0
        OBVIOUS
      <4>2. UintBy(f, r, z, stop) = IF r <= Len(text) THEN f[r + 1][z * 10 + d] ELSE NULL
        BY <3>3, OneDigit
      <4> QED
        BY <4>1, <4>2
    <3>5. f[r][0] = UintBy(f, r, 0, stop)
      BY <2>1, <3>1 DEF UintTable
    <3> QED
      BY <3>1, <3>3, <3>4, <3>5
  <2>5. CASE m >= 10
    <3>1. PICK e \in 0 .. MaxBint : e = m \div 10
      BY <2>5, LastDigit
    <3>2. PICK s \in Seq(Char) : s = Decimal[e]
      BY DecimalSeq
    <3>3. Decimal[m] = s \o <<c>>
      BY <2>2, <2>3, <2>5, <3>1, <3>2, LastDigit
    <3>4. e * 10 + d = m /\ e \in Nat
      BY <2>1, <2>2, <3>1, Division
    <3>5. Agrees(r, s) => f[r][0] = IF Fits(r, s) THEN f[r + Len(s)][e] ELSE NULL
      BY <1>1, <2>5, <3>1, <3>2
    <3>6. PICK q \in Int : q = r + Len(s)
      BY <2>1
    <3>7. <<c>> \in Seq(Char) /\ Len(<<c>>) = 1
      OBVIOUS
    <3>8. Agrees(r, s \o <<c>>)
      BY <3>3
    <3>9. /\ Agrees(r, s)
          /\ Fits(r, s) => q \in Position /\ Agrees(q, <<c>>)
          /\ Fits(r, s \o <<c>>) <=> Fits(r, s) /\ Fits(q, <<c>>)
          /\ r + Len(s \o <<c>>) = q + 1
      BY <3>6, <3>7, <3>8, AgreesParts
    <3>10. ASSUME Fits(r, s)
           PROVE  /\ f[q][e] = IF q <= Len(text) THEN f[q + 1][m] ELSE NULL
                  /\ Fits(q, <<c>>) <=> q <= Len(text)
      <4>1. /\ q <= Len(text) => text[q] = Digits[d + 1]
            /\ Fits(q, <<c>>) <=> q <= Len(text)
        BY <2>3, <3>9, <3>10, CharAgrees
      <4>2. UintBy(f, q, e, stop) = IF q <= Len(text) THEN f[q + 1][e * 10 + d] ELSE NULL
        BY <3>4, <3>9, <3>10, <4>1, OneDigit
      <4>3. f[q][e] = UintBy(f, q, e, stop)
        BY <3>4, <3>9, <3>10 DEF UintTable
      <4> QED
        BY <3>4, <4>1, <4>2, <4>3
    <3> QED
      BY <3>3, <3>5, <3>6, <3>9, <3>10
  <2> QED
    BY <2>1, <2>4, <2>5
<1>2. 0 \in S
  BY <1>1
<1>3. ASSUME NEW k \in S PROVE k + 1 \in S
  <2> SUFFICES ASSUME NEW m \in 0 .. k + 1, m <= MaxBint PROVE Read(m)
    OBVIOUS
  <2>1. m \in Nat /\ m \in 0 .. MaxBint
    BY BencodeAssumption
  <2>2. m >= 10 => m \div 10 \in 0 .. k /\ m \div 10 <= MaxBint
    BY <2>1, Division, BencodeAssumption
  <2>3. m >= 10 => Read(m \div 10)
    BY <2>2
  <2> HIDE DEF Read
  <2> QED
    BY <1>1, <2>1, <2>3
<1>4. S = Nat
  <2> HIDE DEF S
  <2> QED
    BY <1>2, <1>3, SetInduction DEF S
<1>5. n \in S /\ n \in 0 .. n /\ n <= MaxBint
  <2> HIDE DEF S
  <2> QED
    BY <1>4, BencodeAssumption
<1>6. Read(n)
  <2> HIDE DEF Read
  <2> QED
    BY <1>5
<1> QED
  BY <1>6

\* parse_uint reads a number that is written at p up to the stop character, if all of
\* it is there.
LEMMA UintRead ==
  ASSUME text \in Seq(Char), NEW stop \in {"e", ":"}, NEW n \in 0 .. MaxBint, NEW p \in Position,
         Agrees(p, Decimal[n] \o <<stop>>)
  PROVE  ParseUint(p, stop) = IF Fits(p, Decimal[n] \o <<stop>>)
                              THEN Parsed(n, p + Len(Decimal[n]) + 1)
                              ELSE NULL
<1>1. PICK f : UintTable(f, stop) /\ \A r : ParseUint(r, stop) = f[r][0]
  BY UintEquation
<1> DEFINE s == Decimal[n]
<1> DEFINE q == p + Len(s)
<1>2. s \in Seq(Char) /\ Len(s) \in Nat /\ p \in Nat /\ Len(text) \in Nat
  BY DecimalSeq DEF Position
<1>3. <<stop>> \in Seq(Char) /\ Len(<<stop>>) = 1 /\ <<stop>>[1] = stop
  BY BencodeAssumption
<1>4. /\ Agrees(p, s)
      /\ Fits(p, s) => q \in Position /\ Agrees(q, <<stop>>)
      /\ Fits(p, s \o <<stop>>) <=> Fits(p, s) /\ Fits(q, <<stop>>)
  BY <1>2, <1>3, AgreesParts
<1>5. f[p][0] = IF Fits(p, s) THEN f[q][n] ELSE NULL
  BY <1>1, <1>4, DigitsRead
<1>6. ASSUME Fits(p, s)
      PROVE  f[q][n] = IF q <= Len(text) THEN Parsed(n, q + 1) ELSE NULL
  <2>1. n \in Nat
    BY BencodeAssumption
  <2>2. f[q][n] = UintBy(f, q, n, stop)
    BY <1>1, <1>4, <1>6, <2>1 DEF UintTable
  <2>3. Peek(q) = IF q <= Len(text) THEN stop ELSE BUF_EOF
    BY <1>3, <1>4, <1>6, CharAgrees, BencodeAssumption
  <2>4. ~IsDigit(BUF_EOF) /\ stop # BUF_EOF
    BY DigitChars DEF BUF_EOF
  <2> QED
    BY <2>2, <2>3, <2>4 DEF UintBy
<1>7. Fits(q, <<stop>>) <=> q <= Len(text)
  BY <1>2, <1>3 DEF Fits
<1>8. q + 1 = p + Len(s) + 1
  OBVIOUS
<1> HIDE DEF q, s
<1>9. f[p][0] = IF Fits(p, s \o <<stop>>) THEN Parsed(n, q + 1) ELSE NULL
  BY <1>4, <1>5, <1>6, <1>7
<1> QED
  BY <1>1, <1>8, <1>9 DEF s

\* A string is written as its size, a colon and its characters.
LEMMA EncodedStrSeq ==
  ASSUME NEW s \in Str
  PROVE  /\ Len(s) \in 0 .. MaxBint /\ s \in Seq(Char)
         /\ Decimal[Len(s)] \o <<":">> \in Seq(Char)
         /\ EncodedStr(s) = (Decimal[Len(s)] \o <<":">>) \o s
         /\ EncodedStr(s) \in Seq(Char)
         /\ Len(EncodedStr(s)) = Len(Decimal[Len(s)]) + 1 + Len(s)
         /\ Len(EncodedStr(s)) >= 1 /\ IsDigit(EncodedStr(s)[1])
<1>1. s \in Seq(Char) /\ Len(s) \in 0 .. MaxBint
  BY BencodeAssumption DEF Str
<1>2. PICK t \in Seq(Char) : t = Decimal[Len(s)] /\ Len(t) >= 1 /\ IsDigit(t[1])
  BY <1>1, DecimalSeq
<1>3. <<":">> \in Seq(Char) /\ Len(<<":">>) = 1
  BY BencodeAssumption
<1>4. PICK u \in Seq(Char) : u = t \o <<":">> /\ Len(u) = Len(t) + 1 /\ u[1] = t[1]
  <2>1. t \o <<":">> \in Seq(Char)
    BY <1>2, <1>3
  <2>2. Len(t \o <<":">>) = Len(t) + 1 /\ (t \o <<":">>)[1] = t[1]
    BY <1>2, <1>3
  <2> QED
    BY <2>1, <2>2
<1>5. u \o s \in Seq(Char) /\ Len(u \o s) = Len(u) + Len(s) /\ (u \o s)[1] = u[1]
  BY <1>1, <1>2, <1>4
<1>6. EncodedStr(s) = u \o s
  BY <1>2, <1>4 DEF EncodedStr
<1> QED
  BY <1>1, <1>2, <1>4, <1>5, <1>6

\* bencode_str_parse reads a string that is written at p, if all of it is there.
LEMMA StrRead ==
  ASSUME text \in Seq(Char), NEW s \in Str, NEW p \in Position, Agrees(p, EncodedStr(s))
  PROVE  ParseStr(p) = IF Fits(p, EncodedStr(s))
                       THEN Parsed(BStr(s), p + Len(EncodedStr(s)))
                       ELSE NULL
<1>1. PICK n \in 0 .. MaxBint : n = Len(s) /\ s \in Seq(Char)
  BY EncodedStrSeq
<1>2. PICK t \in Seq(Char) : t = Decimal[n] \o <<":">>
  BY <1>1, EncodedStrSeq
<1>3. EncodedStr(s) = t \o s
  BY <1>1, <1>2, EncodedStrSeq
<1>4. Len(t) = Len(Decimal[n]) + 1 /\ Len(t) \in Nat /\ Len(Decimal[n]) \in Nat
  <2>1. Decimal[n] \in Seq(Char) /\ <<":">> \in Seq(Char)
    BY DecimalSeq, BencodeAssumption
  <2> QED
    BY <1>2, <2>1
<1>5. PICK q \in Nat : q = p + Len(t)
  BY <1>4 DEF Position
<1>6. Agrees(p, t \o s)
  BY <1>3
<1>7. /\ Agrees(p, t)
      /\ Fits(p, t) => q \in Position /\ Agrees(q, s)
      /\ Fits(p, t \o s) <=> Fits(p, t) /\ Fits(q, s)
      /\ p + Len(t \o s) = q + Len(s)
  BY <1>1, <1>5, <1>6, AgreesParts
<1>8. ParseUint(p, ":") = IF Fits(p, t) THEN Parsed(n, q) ELSE NULL
  <2>1. Agrees(p, Decimal[n] \o <<":">>)
    BY <1>2, <1>7
  <2>2. p + Len(Decimal[n]) + 1 = q
    BY <1>4, <1>5 DEF Position
  <2> QED
    BY <1>2, <2>1, <2>2, UintRead
<1>9. CASE ~Fits(p, t)
  BY <1>3, <1>7, <1>8, <1>9 DEF ParseStr, NULL
<1>10. CASE Fits(p, t)
  <2>1. ParseStr(p) = IF n > Len(text) - q + 1 THEN NULL
                      ELSE Parsed(BStr(SubSeq(text, q, q + n - 1)), q + n)
    <3>1. /\ ParseUint(p, ":").ok
          /\ ParseUint(p, ":").data = n
          /\ ParseUint(p, ":").next = q
      BY <1>8, <1>10 DEF Parsed
    <3> QED
      BY <3>1 DEF ParseStr
  <2>2. n > Len(text) - q + 1 <=> ~Fits(q, s)
    BY <1>1 DEF Fits
  <2>3. ASSUME Fits(q, s) PROVE SubSeq(text, q, q + n - 1) = s
    <3>1. s \in Seq(Char) /\ q \in Position /\ Agrees(q, s)
      BY <1>1, <1>7, <1>10
    <3>2. SubSeq(text, q, q + Len(s) - 1) = s
      BY <2>3, <3>1, OwnText
    <3> QED
      BY <1>1, <3>2
  <2> QED
    BY <1>1, <1>3, <1>7, <1>10, <2>1, <2>2, <2>3
<1> QED
  BY <1>9, <1>10

EncodedInt(n) == <<"i">> \o (IF n < 0 THEN <<"-">> \o Decimal[-n] ELSE Decimal[n]) \o <<"e">>

\* A text with one more character in front.
LEMMA Prefixed ==
  ASSUME NEW c \in Char, NEW s \in Seq(Char)
  PROVE  /\ <<c>> \o s \in Seq(Char) /\ (<<c>> \o s)[1] = c
         /\ Len(<<c>> \o s) = Len(s) + 1
  OBVIOUS

\* A number is written as an "i", perhaps a sign, its digits and an "e".
LEMMA EncodedIntSeq ==
  ASSUME NEW n \in -MaxBint .. MaxBint
  PROVE  /\ EncodedInt(n) \in Seq(Char) /\ Len(EncodedInt(n)) >= 1 /\ EncodedInt(n)[1] = "i"
         /\ \E m \in 0 .. MaxBint :
              /\ m = (IF n < 0 THEN -n ELSE n)
              /\ Decimal[m] \o <<"e">> \in Seq(Char)
              /\ Len(Decimal[m] \o <<"e">>) = Len(Decimal[m]) + 1
              /\ EncodedInt(n) = <<"i">> \o (IF n < 0 THEN <<"-">> \o (Decimal[m] \o <<"e">>)
                                                      ELSE Decimal[m] \o <<"e">>)
<1>1. PICK m \in 0 .. MaxBint : m = IF n < 0 THEN -n ELSE n
  BY BencodeAssumption
<1>2. PICK d \in Seq(Char) : d = Decimal[m]
  BY DecimalSeq
<1>3. "i" \in Char /\ "-" \in Char /\ "e" \in Char
  BY BencodeAssumption
<1>4. d \o <<"e">> \in Seq(Char) /\ Len(d \o <<"e">>) = Len(d) + 1
  BY <1>3
<1>5. EncodedInt(n) = <<"i">> \o (IF n < 0 THEN <<"-">> \o (d \o <<"e">>) ELSE d \o <<"e">>)
  <2>1. CASE n < 0
    <3>1. EncodedInt(n) = <<"i">> \o (<<"-">> \o d) \o <<"e">>
      BY <1>1, <1>2, <2>1 DEF EncodedInt
    <3>2. <<"-">> \o d \in Seq(Char) /\ <<"i">> \in Seq(Char) /\ <<"-">> \in Seq(Char)
          /\ <<"e">> \in Seq(Char)
      BY <1>3
    <3>3. /\ <<"i">> \o (<<"-">> \o d) \o <<"e">> = <<"i">> \o ((<<"-">> \o d) \o <<"e">>)
          /\ (<<"-">> \o d) \o <<"e">> = <<"-">> \o (d \o <<"e">>)
      BY <3>2, ConcatAssociative
    <3> QED
      BY <2>1, <3>1, <3>3
  <2>2. CASE ~(n < 0)
    <3>1. EncodedInt(n) = <<"i">> \o d \o <<"e">>
      BY <1>1, <1>2, <2>2 DEF EncodedInt
    <3>2. <<"i">> \in Seq(Char) /\ <<"e">> \in Seq(Char)
      BY <1>3
    <3>3. <<"i">> \o d \o <<"e">> = <<"i">> \o (d \o <<"e">>)
      BY <3>2, ConcatAssociative
    <3> QED
      BY <2>2, <3>1, <3>3
  <2> QED
    BY <2>1, <2>2
<1>6. PICK w \in Seq(Char) : w = IF n < 0 THEN <<"-">> \o (d \o <<"e">>) ELSE d \o <<"e">>
  BY <1>3, <1>4, Prefixed
<1>7. EncodedInt(n) = <<"i">> \o w
  BY <1>5, <1>6
<1>8. EncodedInt(n) \in Seq(Char) /\ Len(EncodedInt(n)) >= 1 /\ EncodedInt(n)[1] = "i"
  <2>1. <<"i">> \o w \in Seq(Char) /\ (<<"i">> \o w)[1] = "i" /\ Len(<<"i">> \o w) = Len(w) + 1
    BY <1>3, Prefixed
  <2> QED
    BY <1>7, <2>1
<1> QED
  BY <1>1, <1>2, <1>4, <1>5, <1>8

\* Nothing is read at the end of the text.
LEMMA UintAtEnd ==
  ASSUME text \in Seq(Char), NEW stop \in {"e", ":"}, NEW p \in Position, p > Len(text)
  PROVE  ParseUint(p, stop) = NULL
<1>1. 0 \in 0 .. MaxBint /\ stop \in Char
  BY BencodeAssumption
<1>2. Decimal[0] \in Seq(Char) /\ Len(Decimal[0]) >= 1
  BY <1>1, DecimalSeq
<1>3. PICK s \in Seq(Char) : s = Decimal[0] \o <<stop>> /\ Len(s) >= 1
  <2>1. PICK d \in Seq(Char) : d = Decimal[0] /\ Len(d) >= 1
    BY <1>2
  <2>2. d \o <<stop>> \in Seq(Char) /\ Len(d \o <<stop>>) = Len(d) + 1 /\ Len(d) \in Nat
    BY <1>1
  <2>3. Decimal[0] \o <<stop>> \in Seq(Char) /\ Len(Decimal[0] \o <<stop>>) >= 1
    BY <2>1, <2>2
  <2> QED
    BY <2>3
<1>4. Agrees(p, s) /\ ~Fits(p, s)
  BY <1>3 DEF Agrees, Fits, Position
<1>5. ParseUint(p, stop) = IF Fits(p, s) THEN Parsed(0, p + Len(Decimal[0]) + 1) ELSE NULL
  BY <1>1, <1>3, <1>4, UintRead
<1> QED
  BY <1>4, <1>5

\* bencode_int_parse reads a number that is written at p, if all of it is there.
LEMMA IntRead ==
  ASSUME text \in Seq(Char), NEW n \in -MaxBint .. MaxBint, NEW p \in Position,
         p <= Len(text), Agrees(p, EncodedInt(n))
  PROVE  ParseInt(p) = IF Fits(p, EncodedInt(n))
                       THEN Parsed(BInt(n), p + Len(EncodedInt(n)))
                       ELSE NULL
<1>1. PICK m \in 0 .. MaxBint :
        /\ m = (IF n < 0 THEN -n ELSE n)
        /\ Decimal[m] \o <<"e">> \in Seq(Char)
        /\ Len(Decimal[m] \o <<"e">>) = Len(Decimal[m]) + 1
        /\ EncodedInt(n) = <<"i">> \o (IF n < 0 THEN <<"-">> \o (Decimal[m] \o <<"e">>)
                                                ELSE Decimal[m] \o <<"e">>)
  BY EncodedIntSeq
<1>2. PICK u \in Seq(Char) : u = Decimal[m] \o <<"e">> /\ Len(u) = Len(Decimal[m]) + 1
  BY <1>1
<1>3. Len(u) >= 1 /\ IsDigit(u[1]) /\ Len(Decimal[m]) \in Nat
  <2>1. PICK d \in Seq(Char) : d = Decimal[m] /\ Len(d) >= 1 /\ IsDigit(d[1])
    BY DecimalSeq
  <2>2. "e" \in Char
    BY BencodeAssumption
  <2>3. (d \o <<"e">>)[1] = d[1]
    BY <2>1, <2>2
  <2> QED
    BY <1>2, <2>1, <2>3
<1>4. "i" \in Char /\ "-" \in Char
  BY BencodeAssumption
<1>5. PICK q \in Position : q = p + 1
  BY DEF Position
<1>6. ~IsDigit("-") /\ BUF_EOF # "-" /\ m \in Nat
  BY DigitChars, BencodeAssumption DEF BUF_EOF
<1>7. ASSUME NEW w \in Seq(Char), EncodedInt(n) = <<"i">> \o w
      PROVE  /\ Agrees(q, w)
             /\ Fits(p, EncodedInt(n)) <=> Fits(q, w)
             /\ p + Len(EncodedInt(n)) = q + Len(w)
  <2>1. <<"i">> \in Seq(Char) /\ Len(<<"i">>) = 1
    BY <1>4
  <2>2. Agrees(p, <<"i">> \o w)
    BY <1>7
  <2>3. Fits(p, <<"i">>) /\ p + Len(<<"i">>) = q
    BY <1>5, <2>1 DEF Fits, Position
  <2>4. PICK s \in Seq(Char) : s = <<"i">>
    BY <2>1
  <2>5. Agrees(p, s \o w) /\ Fits(p, s) /\ p + Len(s) = q
    BY <2>2, <2>3, <2>4
  <2>6. /\ Agrees(p + Len(s), w)
        /\ Fits(p, s \o w) <=> Fits(p, s) /\ Fits(p + Len(s), w)
        /\ p + Len(s \o w) = p + Len(s) + Len(w)
    BY <2>5, AgreesParts
  <2> QED
    BY <1>7, <2>4, <2>5, <2>6
<1>8. CASE ~(n < 0)
  <2>1. EncodedInt(n) = <<"i">> \o u
    BY <1>1, <1>2, <1>8
  <2>2. /\ Agrees(q, u)
        /\ Fits(p, EncodedInt(n)) <=> Fits(q, u)
        /\ p + Len(EncodedInt(n)) = q + Len(u)
    BY <1>7, <2>1
  <2>3. Peek(q) # "-"
    BY <1>3, <1>6, <2>2, FirstAgrees
  <2>4. ParseUint(q, "e") = IF Fits(q, u) THEN Parsed(m, q + Len(u)) ELSE NULL
    <3>1. q + Len(Decimal[m]) + 1 = q + Len(u)
      BY <1>2, <1>3 DEF Position
    <3> QED
      BY <1>2, <2>2, <3>1, UintRead
  <2>5. Signed(m, FALSE) = n
    BY <1>1, <1>8 DEF Signed
  <2>6. CASE Fits(q, u)
    <3>1. ParseUint(p + 1, "e").ok /\ ParseUint(p + 1, "e").data = m
          /\ ParseUint(p + 1, "e").next = q + Len(u)
      BY <1>5, <2>4, <2>6 DEF Parsed
    <3>2. (Peek(p + 1) = "-") = FALSE
      BY <1>5, <2>3
    <3>3. ParseInt(p) = Parsed(BInt(n), q + Len(u))
      BY <2>5, <3>1, <3>2 DEF ParseInt
    <3> QED
      BY <2>2, <2>6, <3>3
  <2>7. CASE ~Fits(q, u)
    <3>1. ~ParseUint(p + 1, "e").ok
      BY <1>5, <2>4, <2>7 DEF NULL
    <3>2. ParseInt(p) = NULL
      BY <1>5, <2>3, <3>1 DEF ParseInt
    <3> QED
      BY <2>2, <2>7, <3>2
  <2> QED
    BY <2>6, <2>7
<1>9. CASE n < 0
  <2>1. PICK w \in Seq(Char) : w = <<"-">> \o u
    BY <1>4, Prefixed
  <2>2. EncodedInt(n) = <<"i">> \o w
    BY <1>1, <1>2, <1>9, <2>1
  <2>3. /\ Agrees(q, w)
        /\ Fits(p, EncodedInt(n)) <=> Fits(q, w)
        /\ p + Len(EncodedInt(n)) = q + Len(w)
    BY <1>7, <2>2
  <2>4. PICK r \in Nat : r = q + 1
    BY DEF Position
  <2>5. PICK z \in Seq(Char) : z = <<"-">> /\ q + Len(z) = r
    <3>1. <<"-">> \in Seq(Char) /\ Len(<<"-">>) = 1
      BY <1>4
    <3> QED
      BY <2>4, <3>1
  <2>6. Agrees(q, z \o u)
    BY <2>1, <2>3, <2>5
  <2>7. /\ Agrees(q, <<"-">>)
        /\ Fits(q, <<"-">>) => r \in Position /\ Agrees(r, u)
        /\ Fits(q, <<"-">> \o u) <=> Fits(q, <<"-">>) /\ Fits(r, u)
        /\ q + Len(<<"-">> \o u) = r + Len(u)
    <3>1. /\ Agrees(q, z)
          /\ Fits(q, z) => q + Len(z) \in Position /\ Agrees(q + Len(z), u)
          /\ Fits(q, z \o u) <=> Fits(q, z) /\ Fits(q + Len(z), u)
          /\ q + Len(z \o u) = q + Len(z) + Len(u)
      BY <2>6, AgreesParts, Zenon
    <3> QED
      BY <2>5, <3>1, Zenon
  <2>8. /\ Peek(q) = IF q <= Len(text) THEN "-" ELSE BUF_EOF
        /\ Fits(q, <<"-">>) <=> q <= Len(text)
    BY <1>4, <2>7, CharAgrees
  <2>9. CASE q > Len(text)
    <3>1. ~ParseUint(p + 1, "e").ok
      BY <1>5, <2>9, UintAtEnd DEF NULL
    <3>2. Peek(p + 1) # "-" /\ ~Fits(q, w)
      BY <1>5, <1>6, <2>1, <2>7, <2>8, <2>9 DEF Position
    <3>3. ParseInt(p) = NULL
      BY <3>1, <3>2 DEF ParseInt
    <3> QED
      BY <2>3, <3>2, <3>3
  <2>10. CASE q <= Len(text)
    <3>1. r \in Position /\ Agrees(r, u) /\ (Fits(q, w) <=> Fits(r, u)) /\ q + Len(w) = r + Len(u)
      BY <2>1, <2>7, <2>8, <2>10
    <3>2. ParseUint(r, "e") = IF Fits(r, u) THEN Parsed(m, r + Len(u)) ELSE NULL
      <4>1. r + Len(Decimal[m]) + 1 = r + Len(u)
        BY <1>2, <1>3
      <4> QED
        BY <1>2, <3>1, <4>1, UintRead
    <3>3. Signed(m, TRUE) = n
      BY <1>1, <1>9 DEF Signed
    <3>4. (Peek(p + 1) = "-") = TRUE /\ p + 2 = r
      BY <1>5, <2>4, <2>8, <2>10 DEF Position
    <3>5. CASE Fits(r, u)
      <4>1. ParseUint(p + 2, "e").ok /\ ParseUint(p + 2, "e").data = m
            /\ ParseUint(p + 2, "e").next = r + Len(u)
        BY <3>2, <3>4, <3>5 DEF Parsed
      <4>2. ParseInt(p) = Parsed(BInt(n), r + Len(u))
        BY <3>3, <3>4, <4>1 DEF ParseInt
      <4> QED
        BY <2>3, <3>1, <3>5, <4>2
    <3>6. CASE ~Fits(r, u)
      <4>1. ~ParseUint(p + 2, "e").ok
        BY <3>2, <3>4, <3>6 DEF NULL
      <4>2. ParseInt(p) = NULL
        BY <3>4, <4>1 DEF ParseInt
      <4> QED
        BY <2>3, <3>1, <3>6, <4>2
    <3> QED
      BY <3>5, <3>6
  <2> QED
    BY <2>9, <2>10 DEF Position
<1> QED
  BY <1>8, <1>9

-----------------------------------------------------------------------------
(* Texts one after the other *)

FlattenBy(f, ts, i) == IF i = 1 THEN ts[i] ELSE f[i - 1] \o ts[i]

\* FlattenSeq appends one text after the other.
LEMMA FlattenEquation ==
  ASSUME NEW ts \in Seq(Seq(Char)), Len(ts) > 0
  PROVE  \E f : /\ FlattenSeq(ts) = f[Len(ts)]
                /\ \A i \in 1 .. Len(ts) : f[i] = FlattenBy(f, ts, i)
<1> DEFINE Grows(g, n) == g = [i \in 1 .. n |-> FlattenBy(g, ts, i)]
<1> DEFINE S == {n \in Nat : \E g : Grows(g, n)}
<1>1. 0 \in S
  <2> DEFINE g == [i \in 1 .. 0 |-> << >>]
  <2>1. \A i \in 1 .. 0 : g[i] = FlattenBy(g, ts, i)
    OBVIOUS
  <2>2. g = [i \in 1 .. 0 |-> g[i]]
    OBVIOUS
  <2> HIDE DEF g
  <2>3. Grows(g, 0)
    BY <2>1, <2>2
  <2> QED
    BY <2>3
<1>2. ASSUME NEW n \in S PROVE n + 1 \in S
  <2>1. PICK g : Grows(g, n)
    OBVIOUS
  <2> DEFINE h == [i \in 1 .. n + 1 |-> IF i = n + 1 THEN FlattenBy(g, ts, i) ELSE g[i]]
  <2>2. \A i \in 1 .. n : h[i] = g[i] /\ g[i] = FlattenBy(g, ts, i)
    <3>1. \A i \in 1 .. n : g[i] = FlattenBy(g, ts, i)
      BY <2>1
    <3>2. \A i \in 1 .. n : i \in 1 .. n + 1 /\ i # n + 1
      OBVIOUS
    <3>3. \A i \in 1 .. n : h[i] = g[i]
      BY <3>2
    <3> QED
      BY <3>1, <3>3
  <2>3. h = [i \in 1 .. n + 1 |-> h[i]] /\ h[n + 1] = FlattenBy(g, ts, n + 1)
    OBVIOUS
  <2> HIDE DEF h
  <2>4. ASSUME NEW i \in 1 .. n + 1 PROVE FlattenBy(g, ts, i) = FlattenBy(h, ts, i)
    <3>1. i # 1 => i - 1 \in 1 .. n
      OBVIOUS
    <3>2. i # 1 => g[i - 1] = h[i - 1]
      BY <2>2, <3>1
    <3> QED
      BY <3>2 DEF FlattenBy
  <2>5. \A i \in 1 .. n + 1 : h[i] = FlattenBy(h, ts, i)
    <3> SUFFICES ASSUME NEW i \in 1 .. n + 1 PROVE h[i] = FlattenBy(h, ts, i)
      OBVIOUS
    <3>1. i \in 1 .. n \/ i = n + 1
      OBVIOUS
    <3> QED
      BY <2>2, <2>3, <2>4, <3>1, Zenon
  <2>6. Grows(h, n + 1)
    BY <2>3, <2>5
  <2> QED
    BY <2>6
<1>3. S = Nat
  <2> HIDE DEF S
  <2> QED
    BY <1>1, <1>2, SetInduction DEF S
<1>4. Len(ts) \in S
  <2> HIDE DEF S
  <2> QED
    BY <1>3
<1>5. \E g : Grows(g, Len(ts))
  BY <1>4
<1> DEFINE f == CHOOSE g : Grows(g, Len(ts))
<1>6. Grows(f, Len(ts))
  BY <1>5, Zenon
<1>7. FlattenSeq(ts) = f[Len(ts)]
  <2>1. Len(ts) # 0
    OBVIOUS
  <2> QED
    BY <2>1, Zenon DEF FlattenSeq, FlattenBy
<1> HIDE DEF f
<1>8. \A i \in 1 .. Len(ts) : f[i] = FlattenBy(f, ts, i)
  BY <1>6
<1> QED
  BY <1>7, <1>8

\* What is left of the texts from the k-th on, behind the others.
Rests(ts, r) ==
  /\ r \in [1 .. Len(ts) + 1 -> Seq(Char)]
  /\ r[Len(ts) + 1] = << >>
  /\ \A k \in 1 .. Len(ts) : r[k] = ts[k] \o r[k + 1]

\* The texts one after the other are the first of the rests.
LEMMA FlattenRests ==
  ASSUME NEW ts \in Seq(Seq(Char))
  PROVE  \E r : Rests(ts, r) /\ FlattenSeq(ts) = r[1]
<1> DEFINE N == Len(ts)
<1>1. N \in Nat /\ \A k \in 1 .. N : ts[k] \in Seq(Char)
  OBVIOUS
<1>2. CASE N = 0
  <2>1. FlattenSeq(ts) = << >>
    BY <1>2 DEF FlattenSeq
  <2> DEFINE r == [k \in 1 .. N + 1 |-> << >>]
  <2>2. Rests(ts, r) /\ r[1] = << >>
    BY <1>2 DEF Rests
  <2> QED
    BY <2>1, <2>2
<1>3. CASE N > 0
  <2>1. PICK f : FlattenSeq(ts) = f[N] /\ \A i \in 1 .. N : f[i] = FlattenBy(f, ts, i)
    BY <1>3, FlattenEquation
  <2> HIDE DEF N
  <2> DEFINE Upto(n, r) ==
        /\ r \in [1 .. n + 1 -> Seq(Char)]
        /\ r[n + 1] = << >>
        /\ \A k \in 1 .. n : r[k] = ts[k] \o r[k + 1]
        /\ f[n] = r[1]
  <2> DEFINE S == {m \in Nat : m + 1 <= N => \E r : Upto(m + 1, r)}
  <2>2. 0 \in S
    <3> DEFINE r == [k \in 1 .. 2 |-> IF k = 1 THEN ts[1] ELSE << >>]
    <3>1. f[1] = ts[1] /\ ts[1] \in Seq(Char)
      BY <1>1, <1>3, <2>1 DEF FlattenBy
    <3>2. ts[1] \o << >> = ts[1]
      BY <3>1, ConcatEmptySeq
    <3>3. r \in [1 .. 2 -> Seq(Char)] /\ r[1] = ts[1] /\ r[2] = << >>
      BY <3>1
    <3> HIDE DEF r
    <3>4. Upto(0 + 1, r)
      BY <3>1, <3>2, <3>3
    <3> HIDE DEF Upto
    <3> QED
      BY <3>4
  <2>3. ASSUME NEW m \in S PROVE m + 1 \in S
    <3> HIDE DEF Upto
    <3> SUFFICES ASSUME (m + 1) + 1 <= N PROVE \E r : Upto((m + 1) + 1, r)
      OBVIOUS
    <3>1. PICK n \in Nat : n = m + 1
      OBVIOUS
    <3>2. PICK r : Upto(n, r)
      <4>1. m + 1 <= N
        BY <1>1
      <4> QED
        BY <3>1, <4>1
    <3> USE DEF Upto
    <3>3. n >= 1 /\ n + 1 \in 1 .. N
      BY <1>1, <3>1
    <3>4. PICK t \in Seq(Char) : t = ts[n + 1]
      BY <1>1, <3>3
    <3> DEFINE h == [k \in 1 .. n + 2 |-> IF k = n + 2 THEN << >> ELSE r[k] \o t]
    <3>5. /\ r \in [1 .. n + 1 -> Seq(Char)]
          /\ r[n + 1] = << >>
          /\ \A k \in 1 .. n : r[k] = ts[k] \o r[k + 1]
          /\ f[n] = r[1]
      BY <3>2
    <3>6. \A k \in 1 .. n + 1 : h[k] = r[k] \o t
      BY <3>1
    <3>7. h[n + 2] = << >>
      BY <3>1
    <3>8. h \in [1 .. n + 2 -> Seq(Char)]
      <4>1. \A k \in 1 .. n + 2 : k # n + 2 => k \in 1 .. n + 1
        BY <3>1
      <4>2. \A k \in 1 .. n + 1 : r[k] \o t \in Seq(Char)
        BY <3>5
      <4> QED
        BY <4>1, <4>2
    <3> HIDE DEF h
    <3>9. \A k \in 1 .. n + 1 : h[k] = ts[k] \o h[k + 1]
      <4> SUFFICES ASSUME NEW k \in 1 .. n + 1 PROVE h[k] = ts[k] \o h[k + 1]
        OBVIOUS
      <4>1. CASE k = n + 1
        <5>1. << >> \o t = t /\ t \o << >> = t
          BY ConcatEmptySeq
        <5>2. k + 1 = n + 2
          BY <4>1
        <5> QED
          BY <3>4, <3>5, <3>6, <3>7, <4>1, <5>1, <5>2
      <4>2. CASE k # n + 1
        <5>1. k \in 1 .. n /\ k + 1 \in 1 .. n + 1
          BY <4>2
        <5>2. PICK a \in Seq(Char) : a = ts[k]
          BY <1>1, <3>3, <5>1
        <5>3. PICK b \in Seq(Char) : b = r[k + 1]
          BY <3>5, <5>1
        <5>4. h[k] = (a \o b) \o t /\ h[k + 1] = b \o t
          BY <3>5, <3>6, <5>1, <5>2, <5>3
        <5>5. (a \o b) \o t = a \o (b \o t)
          BY ConcatAssociative, SMTT(30)
        <5> QED
          BY <5>2, <5>4, <5>5
      <4> QED
        BY <4>1, <4>2
    <3>10. f[n + 1] = h[1]
      <4>1. f[n + 1] = f[n] \o t
        <5>1. n + 1 # 1 /\ (n + 1) - 1 = n
          BY <3>3
        <5> QED
          BY <2>1, <3>3, <3>4, <5>1 DEF FlattenBy
      <4>2. h[1] = r[1] \o t
        BY <3>3, <3>6
      <4> QED
        BY <3>5, <4>1, <4>2
    <3>11. (n + 1) + 1 = n + 2 /\ (m + 1) + 1 = n + 1
      BY <3>1
    <3>12. Upto(n + 1, h)
      BY <3>7, <3>8, <3>9, <3>10, <3>11
    <3> HIDE DEF Upto
    <3> QED
      BY <3>11, <3>12
  <2>4. S = Nat
    <3> HIDE DEF S
    <3> QED
      BY <2>2, <2>3, SetInduction DEF S
  <2>5. N - 1 \in S /\ (N - 1) + 1 = N
    <3> HIDE DEF S
    <3> QED
      BY <1>1, <1>3, <2>4
  <2>6. \E r : Upto(N, r)
    <3> HIDE DEF Upto
    <3> QED
      BY <1>1, <2>5
  <2> QED
    BY <2>1, <2>6 DEF Rests, N
<1> QED
  BY <1>1, <1>2, <1>3

-----------------------------------------------------------------------------
(* The loops over items and pairs *)

\* The characters the parser tests for are no digits, and not the end of the text.
LEMMA Marks ==
  /\ \A c \in {"i", "l", "d", "e", "-", ":", BUF_EOF} : ~IsDigit(c)
  /\ BUF_EOF \notin {"i", "l", "d", "e", "-", ":"}
<1>1. BUF_EOF = "EOF"
  BY DEF BUF_EOF
<1>2. ASSUME NEW c, c \in {"i", "l", "d", "e", "-", ":", BUF_EOF}
      PROVE  c \notin {"0", "1", "2", "3", "4", "5", "6", "7", "8", "9"}
  BY <1>1, <1>2
<1>3. BUF_EOF \notin {"i", "l", "d", "e", "-", ":"}
  BY <1>1
<1> QED
  BY <1>2, <1>3, DigitChars

\* A success ends behind p, in the text or at its end.
Forward(r, p) == r.ok => r.next \in p + 1 .. Len(text) + 1

\* parse_uint consumes at least the stop character, and its number is not negative.
LEMMA UintForward ==
  ASSUME text \in Seq(Char), NEW stop \in {"e", ":"}, NEW p \in Position
  PROVE  /\ Forward(ParseUint(p, stop), p)
         /\ ParseUint(p, stop).ok => ParseUint(p, stop).data \in Nat
<1>1. PICK f : UintTable(f, stop) /\ \A r : ParseUint(r, stop) = f[r][0]
  BY UintEquation
<1>2. PICK N \in Nat : N = Len(text) + 1
  OBVIOUS
<1>3. Position = 1 .. N
  BY <1>2 DEF Position
<1> DEFINE Reads(q) ==
      \A n \in Nat : f[q][n].ok => f[q][n].next \in q + 1 .. N /\ f[q][n].data \in Nat
<1> DEFINE S == {k \in Nat : \A q \in 1 .. N : q + k = N => Reads(q)}
<1>4. ASSUME NEW q \in 1 .. N, q # N => Reads(q + 1)
      PROVE  Reads(q)
  <2> SUFFICES ASSUME NEW n \in Nat
               PROVE  f[q][n].ok => f[q][n].next \in q + 1 .. N /\ f[q][n].data \in Nat
    OBVIOUS
  <2>1. f[q][n] = UintBy(f, q, n, stop)
    BY <1>1, <1>3 DEF UintTable
  <2>2. ~IsDigit(BUF_EOF) /\ stop # BUF_EOF
    BY Marks
  <2>3. CASE q = N
    <3>1. Peek(q) = BUF_EOF
      BY <1>2, <2>3 DEF Peek
    <3>2. f[q][n] = NULL
      BY <2>1, <2>2, <3>1 DEF UintBy
    <3> QED
      BY <3>2 DEF NULL
  <2>4. CASE q # N /\ Peek(q) = stop
    <3>1. f[q][n] = Parsed(n, q + 1)
      BY <2>1, <2>4 DEF UintBy
    <3>2. q + 1 \in q + 1 .. N
      BY <1>2, <2>4
    <3> QED
      BY <3>1, <3>2 DEF Parsed
  <2>5. CASE q # N /\ Peek(q) # stop /\ IsDigit(Peek(q))
    <3>1. PICK d \in 0 .. 9 : d = DigitOf(Peek(q))
      BY <2>5, DigitRange
    <3>2. PICK m \in Nat : m = n * 10 + d
      OBVIOUS
    <3>3. f[q][n] = f[q + 1][m]
      BY <2>1, <2>5, <3>1, <3>2 DEF UintBy
    <3>4. f[q + 1][m].ok => f[q + 1][m].next \in q + 1 + 1 .. N /\ f[q + 1][m].data \in Nat
      BY <1>4, <2>5
    <3> QED
      BY <1>2, <3>3, <3>4
  <2>6. CASE q # N /\ Peek(q) # stop /\ ~IsDigit(Peek(q))
    <3>1. f[q][n] = NULL
      BY <2>1, <2>6 DEF UintBy
    <3> QED
      BY <3>1 DEF NULL
  <2> QED
    BY <2>3, <2>4, <2>5, <2>6
<1>5. 0 \in S
  <2> HIDE DEF Reads
  <2>1. Reads(N)
    <3>1. N \in 1 .. N
      BY <1>2
    <3> QED
      BY <1>4, <3>1
  <2> QED
    BY <2>1
<1>6. ASSUME NEW k \in S PROVE k + 1 \in S
  <2> HIDE DEF Reads
  <2> SUFFICES ASSUME NEW q \in 1 .. N, q + (k + 1) = N PROVE Reads(q)
    OBVIOUS
  <2>1. q + 1 \in 1 .. N /\ (q + 1) + k = N
    OBVIOUS
  <2>2. Reads(q + 1)
    BY <2>1
  <2> QED
    BY <1>4, <2>2
<1>7. S = Nat
  <2> HIDE DEF S
  <2> QED
    BY <1>5, <1>6, SetInduction DEF S
<1>8. N - p \in S /\ p \in 1 .. N /\ p + (N - p) = N
  <2>1. N - p \in Nat /\ p \in 1 .. N /\ p + (N - p) = N
    BY <1>3
  <2> HIDE DEF S
  <2> QED
    BY <1>7, <2>1
<1>9. Reads(p)
  <2> HIDE DEF Reads
  <2> QED
    BY <1>8
<1>10. f[p][0].ok => f[p][0].next \in p + 1 .. N /\ f[p][0].data \in Nat
  BY <1>9
<1> QED
  BY <1>1, <1>2, <1>10 DEF Forward

\* So does bencode_str_parse.
LEMMA StrForward ==
  ASSUME text \in Seq(Char), NEW p \in Position
  PROVE  Forward(ParseStr(p), p)
<1>1. PICK size : size = ParseUint(p, ":")
  OBVIOUS
<1>2. Forward(size, p) /\ (size.ok => size.data \in Nat)
  BY <1>1, UintForward
<1>3. CASE ~size.ok
  BY <1>1, <1>3 DEF ParseStr, Forward, NULL
<1>4. CASE size.ok /\ size.data > Len(text) - size.next + 1
  BY <1>1, <1>4 DEF ParseStr, Forward, NULL
<1>5. CASE size.ok /\ ~(size.data > Len(text) - size.next + 1)
  <2>1. ParseStr(p) = Parsed(BStr(SubSeq(text, size.next, size.next + size.data - 1)),
                             size.next + size.data)
    BY <1>1, <1>5 DEF ParseStr
  <2>2. size.next \in p + 1 .. Len(text) + 1 /\ size.data \in Nat
    BY <1>2, <1>5 DEF Forward
  <2>3. size.next + size.data \in p + 1 .. Len(text) + 1
    BY <1>5, <2>2 DEF Position
  <2> QED
    BY <2>1, <2>3 DEF Parsed, Forward
<1> QED
  BY <1>3, <1>4, <1>5

\* So does bencode_int_parse.
LEMMA IntForward ==
  ASSUME text \in Seq(Char), NEW p \in Position, p <= Len(text)
  PROVE  Forward(ParseInt(p), p)
<1>1. PICK q \in Position : /\ q = IF Peek(p + 1) = "-" THEN p + 2 ELSE p + 1
                            /\ q > p
  <2>1. Peek(p + 1) = "-" => p + 1 <= Len(text)
    BY DEF Peek, BUF_EOF, Position
  <2>2. p + 1 \in Position /\ (p + 1 <= Len(text) => p + 2 \in Position)
    BY DEF Position
  <2> QED
    BY <2>1, <2>2 DEF Position
<1>2. PICK n : n = ParseUint(q, "e")
  OBVIOUS
<1>3. Forward(n, q)
  BY <1>2, UintForward
<1>4. CASE n.ok
  <2>1. \E i : ParseInt(p) = Parsed(i, n.next)
    BY <1>1, <1>2, <1>4 DEF ParseInt
  <2>2. n.next \in p + 1 .. Len(text) + 1
    BY <1>1, <1>3, <1>4 DEF Forward, Position
  <2> QED
    BY <2>1, <2>2 DEF Parsed, Forward
<1>5. CASE ~n.ok
  <2>1. ParseInt(p) = NULL
    BY <1>1, <1>2, <1>5 DEF ParseInt
  <2> QED
    BY <2>1 DEF NULL, Forward
<1> QED
  BY <1>4, <1>5

\* What a loop makes of the text from p on.
LoopBy(loops, type, p) == IF type = "BLIST" THEN ParseItems(loops, p) ELSE ParsePairs(loops, p)

Kind == {"BLIST", "BDICT"}

\* What the loops return from lo on ends in the text.
AllForward(loops, lo) == \A q \in lo .. Len(text) + 1, type \in Kind : Forward(loops[q][type], q)

SameFrom(g, h, lo) == \A q \in lo .. Len(text) + 1 : g[q] = h[q]

\* Parsing goes on behind p, so it depends on what the loops return there alone.
LEMMA DataForward ==
  ASSUME text \in Seq(Char), NEW p \in Position, NEW g, AllForward(g, p + 1),
         NEW h, SameFrom(g, h, p + 1)
  PROVE  /\ Forward(ParseData(g, p), p)
         /\ ParseData(h, p) = ParseData(g, p)
<1> DEFINE Res(loops) ==
      CASE Peek(p) = "l" -> ParseList(loops, p)
        [] Peek(p) = "d" -> ParseDict(loops, p)
        [] Peek(p) = "i" -> ParseInt(p)
        [] IsDigit(Peek(p)) -> ParseStr(p)
        [] OTHER -> NULL
<1> DEFINE Ranged(res) ==
      IF res.ok THEN Parsed([res.data EXCEPT !.range = RangeOf(p, res.next)], res.next) ELSE NULL
<1>1. \A loops : ParseData(loops, p) = Ranged(Res(loops))
  BY DEF ParseData
<1>2. ~IsDigit("l") /\ ~IsDigit("d") /\ ~IsDigit("i") /\ ~IsDigit(BUF_EOF)
  BY Marks
<1>3. ASSUME p <= Len(text), NEW type \in Kind
      PROVE  g[p + 1][type] = h[p + 1][type] /\ Forward(g[p + 1][type], p)
  <2>1. p + 1 \in p + 1 .. Len(text) + 1
    BY <1>3 DEF Position
  <2>2. g[p + 1] = h[p + 1] /\ Forward(g[p + 1][type], p + 1)
    BY <1>3, <2>1 DEF AllForward, SameFrom
  <2> QED
    BY <2>2 DEF Forward, Position
<1>4. p > Len(text) => Peek(p) = BUF_EOF
  BY DEF Peek, Position
<1>5. p > Len(text) \/ p <= Len(text)
  BY DEF Position
<1>6. Res(g) = Res(h) /\ Forward(Res(g), p)
  <2>1. CASE p > Len(text)
    <3>1. Res(g) = NULL /\ Res(h) = NULL
      BY <1>2, <1>4, <2>1, Marks
    <3> QED
      BY <3>1 DEF NULL, Forward
  <2>2. CASE p <= Len(text) /\ Peek(p) = "l"
    <3>1. Res(g) = ParseList(g, p) /\ Res(h) = ParseList(h, p)
      BY <1>2, <2>2
    <3>2. g[p + 1]["BLIST"] = h[p + 1]["BLIST"] /\ Forward(g[p + 1]["BLIST"], p)
      BY <1>3, <2>2 DEF Kind
    <3>3. ParseList(g, p) = ParseList(h, p) /\ Forward(ParseList(g, p), p)
      BY <3>2 DEF ParseList, Forward, Parsed, NULL
    <3> QED
      BY <3>1, <3>3
  <2>3. CASE p <= Len(text) /\ Peek(p) = "d"
    <3>1. Res(g) = ParseDict(g, p) /\ Res(h) = ParseDict(h, p)
      BY <1>2, <2>3
    <3>2. g[p + 1]["BDICT"] = h[p + 1]["BDICT"] /\ Forward(g[p + 1]["BDICT"], p)
      BY <1>3, <2>3 DEF Kind
    <3>3. ParseDict(g, p) = ParseDict(h, p) /\ Forward(ParseDict(g, p), p)
      BY <3>2 DEF ParseDict, Forward, Parsed, NULL
    <3> QED
      BY <3>1, <3>3
  <2>4. CASE p <= Len(text) /\ Peek(p) = "i"
    <3>1. Res(g) = ParseInt(p) /\ Res(h) = ParseInt(p)
      BY <1>2, <2>4
    <3> HIDE DEF Res
    <3> QED
      BY <2>4, <3>1, IntForward
  <2>5. CASE Peek(p) \notin {"l", "d", "i"} /\ IsDigit(Peek(p))
    <3>1. Res(g) = ParseStr(p) /\ Res(h) = ParseStr(p)
      BY <2>5
    <3> HIDE DEF Res
    <3> QED
      BY <3>1, StrForward
  <2>6. CASE Peek(p) \notin {"l", "d", "i"} /\ ~IsDigit(Peek(p))
    <3>1. Res(g) = NULL /\ Res(h) = NULL
      BY <2>6
    <3> QED
      BY <3>1 DEF NULL, Forward
  <2> HIDE DEF Res
  <2> QED
    BY <1>5, <2>1, <2>2, <2>3, <2>4, <2>5, <2>6
<1> HIDE DEF Res
<1>7. ASSUME NEW res, Forward(res, p) PROVE Forward(Ranged(res), p)
  BY <1>7 DEF Forward, Parsed, NULL
<1> HIDE DEF Ranged
<1> QED
  BY <1>1, <1>6, <1>7

\* One round of a loop ends behind p, and depends on what the loops return there alone.
LEMMA LoopForward ==
  ASSUME text \in Seq(Char), NEW p \in Position, NEW g, AllForward(g, p + 1),
         NEW h, SameFrom(g, h, p + 1), NEW type \in Kind
  PROVE  /\ Forward(LoopBy(g, type, p), p)
         /\ LoopBy(h, type, p) = LoopBy(g, type, p)
<1>1. ASSUME NEW q \in p .. Len(text) + 1
      PROVE  /\ q \in Position
             /\ Forward(ParseData(g, q), q)
             /\ ParseData(h, q) = ParseData(g, q)
  <2>1. q \in Position
    BY DEF Position
  <2>2. \A r \in q + 1 .. Len(text) + 1 : r \in p + 1 .. Len(text) + 1
    BY DEF Position
  <2>3. AllForward(g, q + 1) /\ SameFrom(g, h, q + 1)
    BY <2>2 DEF AllForward, SameFrom
  <2> QED
    BY <2>1, <2>3, DataForward
<1>2. \A q \in p + 1 .. Len(text) + 1, t \in Kind :
        g[q][t] = h[q][t] /\ Forward(g[q][t], q)
  BY DEF AllForward, SameFrom
<1>3. CASE AtEnd(p)
  <2>1. p + 1 \in p + 1 .. Len(text) + 1
    BY <1>3 DEF AtEnd, Peek, BUF_EOF, Position
  <2>2. LoopBy(g, type, p) = Parsed(<< >>, p + 1) /\ LoopBy(h, type, p) = Parsed(<< >>, p + 1)
    BY <1>3 DEF LoopBy, ParseItems, ParsePairs
  <2> QED
    BY <2>1, <2>2 DEF Parsed, Forward
<1>4. CASE ~AtEnd(p) /\ type = "BLIST"
  <2>1. p \in p .. Len(text) + 1
    BY DEF Position
  <2>2. PICK item : /\ item = ParseData(g, p) /\ item = ParseData(h, p)
                    /\ item.ok => item.next \in p + 1 .. Len(text) + 1
    BY <1>1, <2>1 DEF Forward
  <2>3. CASE ~item.ok
    <3>1. ParseItems(g, p) = NULL /\ ParseItems(h, p) = NULL
      BY <1>4, <2>2, <2>3 DEF ParseItems
    <3> QED
      BY <1>4, <3>1 DEF LoopBy, Forward, NULL
  <2>4. CASE item.ok
    <3>1. PICK others : /\ others = g[item.next]["BLIST"] /\ others = h[item.next]["BLIST"]
                        /\ Forward(others, item.next)
      BY <1>2, <2>2, <2>4 DEF Kind
    <3> DEFINE r == IF others.ok THEN Parsed(<<item.data>> \o others.data, others.next) ELSE NULL
    <3>2. ParseItems(g, p) = r /\ ParseItems(h, p) = r
      BY <1>4, <2>2, <2>4, <3>1 DEF ParseItems
    <3>3. Forward(r, p)
      BY <2>2, <2>4, <3>1 DEF Forward, Parsed, NULL, Position
    <3> QED
      BY <1>4, <3>2, <3>3 DEF LoopBy
  <2> QED
    BY <2>3, <2>4
<1>5. CASE ~AtEnd(p) /\ type = "BDICT"
  <2>1. PICK key : key = ParseStr(p) /\ (key.ok => key.next \in p + 1 .. Len(text) + 1)
    BY StrForward DEF Forward
  <2>2. CASE ~key.ok
    <3>1. ParsePairs(g, p) = NULL /\ ParsePairs(h, p) = NULL
      BY <1>5, <2>1, <2>2 DEF ParsePairs
    <3> QED
      BY <1>5, <3>1 DEF LoopBy, Forward, NULL
  <2>3. CASE key.ok
    <3>1. key.next \in p .. Len(text) + 1
      BY <2>1, <2>3 DEF Position
    <3>2. PICK item : /\ item = ParseData(g, key.next) /\ item = ParseData(h, key.next)
                      /\ item.ok => item.next \in key.next + 1 .. Len(text) + 1
      BY <1>1, <3>1 DEF Forward
    <3>3. CASE ~item.ok
      <4>1. ParsePairs(g, p) = NULL /\ ParsePairs(h, p) = NULL
        BY <1>5, <2>1, <3>2, <3>3 DEF ParsePairs
      <4> QED
        BY <1>5, <4>1 DEF LoopBy, Forward, NULL
    <3>4. CASE item.ok
      <4>1. item.next \in p + 1 .. Len(text) + 1
        BY <2>1, <2>3, <3>2, <3>4 DEF Position
      <4>2. PICK others : /\ others = g[item.next]["BDICT"] /\ others = h[item.next]["BDICT"]
                          /\ Forward(others, item.next)
        BY <1>2, <4>1 DEF Kind
      <4> DEFINE r == IF others.ok
                      THEN Parsed(<<[key |-> key.data.str, value |-> item.data]>> \o others.data,
                                  others.next)
                      ELSE NULL
      <4>3. ParsePairs(g, p) = r /\ ParsePairs(h, p) = r
        BY <1>5, <2>1, <2>3, <3>2, <3>4, <4>2 DEF ParsePairs
      <4>4. Forward(r, p)
        BY <4>1, <4>2 DEF Forward, Parsed, NULL, Position
      <4> QED
        BY <1>5, <4>3, <4>4 DEF LoopBy
    <3> QED
      BY <3>3, <3>4
  <2> QED
    BY <2>2, <2>3
<1> QED
  BY <1>3, <1>4, <1>5 DEF Kind

\* Loops is what its definition says of it.
LEMMA LoopsEquation ==
  ASSUME text \in Seq(Char)
  PROVE  \A p \in Position, type \in Kind : Loops[p][type] = LoopBy(Loops, type, p)
<1>1. PICK N \in Nat : N = Len(text) + 1 /\ N >= 1
  OBVIOUS
<1>2. Position = 1 .. N
  BY <1>1 DEF Position
<1> DEFINE Table(g, m) == g = [q \in m .. N |-> [type \in Kind |-> LoopBy(g, type, q)]]
<1> DEFINE Grows(g, m) == Table(g, m) /\ AllForward(g, m)
<1> DEFINE S == {k \in Nat : \A m \in 1 .. N + 1 : m + k = N + 1 => \E g : Grows(g, m)}
<1>3. 0 \in S
  <2> SUFFICES \E g : Grows(g, N + 1)
    OBVIOUS
  <2> DEFINE g == [q \in N + 1 .. N |-> [type \in Kind |-> NULL]]
  <2>1. \A q \in N + 1 .. N : FALSE
    OBVIOUS
  <2>2. Table(g, N + 1)
    BY <2>1
  <2>3. AllForward(g, N + 1)
    BY <1>1, <2>1 DEF AllForward
  <2> HIDE DEF g, Table
  <2> QED
    BY <2>2, <2>3
<1>4. ASSUME NEW k \in S PROVE k + 1 \in S
  <2> SUFFICES ASSUME NEW m \in 1 .. N + 1, m + (k + 1) = N + 1 PROVE \E g : Grows(g, m)
    OBVIOUS
  <2>1. m \in Position /\ m + 1 \in 1 .. N + 1 /\ (m + 1) + k = N + 1
    BY <1>2
  <2>2. PICK g : Grows(g, m + 1)
    <3> HIDE DEF Grows
    <3> QED
      BY <2>1
  <2> DEFINE h == [q \in m .. N |-> IF q = m THEN [type \in Kind |-> LoopBy(g, type, m)] ELSE g[q]]
  <2>3. h = [q \in m .. N |-> h[q]]
    OBVIOUS
  <2>4. h[m] = [type \in Kind |-> LoopBy(g, type, m)]
    BY <2>1
  <2>5. \A q \in m + 1 .. N : h[q] = g[q]
    BY <2>1
  <2> HIDE DEF h
  <2>6. AllForward(g, m + 1) /\ SameFrom(g, h, m + 1)
    BY <1>1, <2>2, <2>5 DEF SameFrom
  <2>7. ASSUME NEW q \in m .. N, NEW type \in Kind
        PROVE  /\ Forward(LoopBy(g, type, q), q)
               /\ LoopBy(h, type, q) = LoopBy(g, type, q)
    <3>1. q \in Position
      BY <1>2
    <3>2. \A r \in q + 1 .. N : r \in m + 1 .. N
      OBVIOUS
    <3>3. AllForward(g, q + 1) /\ SameFrom(g, h, q + 1)
      BY <1>1, <2>6, <3>2 DEF AllForward, SameFrom
    <3> QED
      BY <3>1, <3>3, LoopForward
  <2>8. ASSUME NEW q \in m .. N
        PROVE  h[q] = [type \in Kind |-> LoopBy(g, type, q)]
    <3>1. CASE q = m
      BY <2>4, <3>1
    <3>2. CASE q # m
      <4>1. q \in m + 1 .. N
        BY <2>1, <3>2
      <4>2. g[q] = [type \in Kind |-> LoopBy(g, type, q)]
        <5>1. g = [r \in m + 1 .. N |-> [type \in Kind |-> LoopBy(g, type, r)]]
          BY <2>2
        <5> QED
          BY <4>1, <5>1
      <4> QED
        BY <2>5, <4>1, <4>2
    <3> QED
      BY <3>1, <3>2
  <2>9. ASSUME NEW q \in m .. N
        PROVE  h[q] = [type \in Kind |-> LoopBy(h, type, q)]
    <3>1. \A type \in Kind : LoopBy(h, type, q) = LoopBy(g, type, q)
      BY <2>7
    <3> QED
      BY <2>8, <3>1
  <2>10. Table(h, m)
    BY <2>3, <2>9
  <2>11. AllForward(h, m)
    <3>1. ASSUME NEW q \in m .. N, NEW type \in Kind PROVE Forward(h[q][type], q)
      <4>1. h[q][type] = LoopBy(g, type, q)
        BY <2>8
      <4> QED
        BY <2>7, <4>1
    <3> QED
      BY <1>1, <3>1 DEF AllForward
  <2> HIDE DEF Table
  <2> QED
    BY <2>10, <2>11
<1>5. S = Nat
  <2> HIDE DEF S
  <2> QED
    BY <1>3, <1>4, SetInduction DEF S
<1>6. N \in S
  <2> HIDE DEF S
  <2> QED
    BY <1>5
<1>7. \E g : Grows(g, 1)
  <2> HIDE DEF Grows
  <2>1. 1 \in 1 .. N + 1 /\ 1 + N = N + 1
    BY <1>1
  <2> QED
    BY <1>6, <2>1
<1>8. \E g : g = [q \in Position |-> [type \in Kind |-> LoopBy(g, type, q)]]
  BY <1>2, <1>7
<1>9. Loops = [q \in Position |-> [type \in Kind |-> LoopBy(Loops, type, q)]]
  BY <1>8, Zenon DEF Loops, LoopBy, Kind
<1> QED
  <2> SUFFICES ASSUME NEW p \in Position, NEW type \in Kind
               PROVE  Loops[p][type] = LoopBy(Loops, type, p)
    OBVIOUS
  <2>1. Loops[p] = [t \in Kind |-> LoopBy(Loops, t, p)]
    BY <1>9
  <2> HIDE DEF Loops
  <2> QED
    BY <2>1

-----------------------------------------------------------------------------
(* How values are written *)

\* What holds of no values, and of those with items in I whenever it holds of I, holds
\* of all.
LEMMA LevelInduction ==
  ASSUME NEW S \in SUBSET (SUBSET Data), {} \in S,
         \A I \in S : DataOver(I) \subseteq Data => DataOver(I) \in S
  PROVE  Data \in S
<1> DEFINE T == {n \in Nat : n <= MaxDepth => Level[n] \in S}
<1>1. 0 \in T
  <2>1. 0 \in 0 .. MaxDepth
    BY BencodeAssumption
  <2>2. Level[0] = DataOver({}) /\ Level[0] \subseteq Data
    BY <2>1, LevelEquation, LevelOfData
  <2> QED
    BY <2>2
<1>2. ASSUME NEW n \in T PROVE n + 1 \in T
  <2> SUFFICES ASSUME n + 1 <= MaxDepth PROVE Level[n + 1] \in S
    OBVIOUS
  <2>1. n + 1 \in 0 .. MaxDepth /\ Level[n] \in S
    BY BencodeAssumption
  <2>2. Level[n + 1] = DataOver(Level[n]) /\ Level[n + 1] \subseteq Data
    BY <2>1, NextLevel, LevelOfData
  <2> QED
    BY <2>1, <2>2
<1>3. T = Nat
  <2> HIDE DEF T
  <2> QED
    BY <1>1, <1>2, SetInduction DEF T
<1>4. MaxDepth \in T
  <2> HIDE DEF T
  <2> QED
    BY <1>3, BencodeAssumption
<1> QED
  BY <1>4, BencodeAssumption DEF Data

\* What a dictionary is made of.
LEMMA PairsInside ==
  ASSUME NEW I, NEW d \in Seq([key : Str, value : I]), NEW k \in DOMAIN d
  PROVE  d[k].key \in Str /\ d[k].value \in I
<1> DEFINE J == [key : Str, value : I]
<1>1. d \in Seq(J)
  OBVIOUS
<1> HIDE DEF J
<1>2. d[k] \in J
  BY <1>1
<1> QED
  BY <1>2 DEF J

\* The text of a value is not empty and does not begin with the end of a loop.
Written(v) ==
  /\ Encoded[v] \in Seq(Char)
  /\ Len(Encoded[v]) >= 1
  /\ IsDigit(Encoded[v][1]) \/ Encoded[v][1] \in {"i", "l", "d"}

\* The texts of the items of a list, and of the pairs of a dictionary.
ItemTexts(items) == [k \in DOMAIN items |-> Encoded[items[k]]]
PairTexts(pairs) == [k \in DOMAIN pairs |-> EncodedStr(pairs[k].key) \o Encoded[pairs[k].value]]

\* The texts of items and pairs are sequences of characters.
LEMMA TextsSeq ==
  ASSUME NEW I, \A x \in I : Written(x)
  PROVE  /\ \A items \in Seq(I) : /\ ItemTexts(items) \in Seq(Seq(Char))
                                  /\ Len(ItemTexts(items)) = Len(items)
         /\ \A pairs \in Seq([key : Str, value : I]) :
              /\ PairTexts(pairs) \in Seq(Seq(Char))
              /\ Len(PairTexts(pairs)) = Len(pairs)
<1>1. ASSUME NEW items \in Seq(I)
      PROVE  ItemTexts(items) \in Seq(Seq(Char)) /\ Len(ItemTexts(items)) = Len(items)
  <2>1. \A k \in 1 .. Len(items) : Encoded[items[k]] \in Seq(Char)
    BY DEF Written
  <2>2. DOMAIN items = 1 .. Len(items) /\ Len(items) \in Nat
    OBVIOUS
  <2>3. ItemTexts(items) = [k \in 1 .. Len(items) |-> Encoded[items[k]]]
    BY <2>2 DEF ItemTexts
  <2> QED
    BY <2>1, <2>2, <2>3
<1>2. ASSUME NEW pairs \in Seq([key : Str, value : I])
      PROVE  PairTexts(pairs) \in Seq(Seq(Char)) /\ Len(PairTexts(pairs)) = Len(pairs)
  <2>1. DOMAIN pairs = 1 .. Len(pairs) /\ Len(pairs) \in Nat
    OBVIOUS
  <2>2. ASSUME NEW k \in 1 .. Len(pairs)
        PROVE  EncodedStr(pairs[k].key) \o Encoded[pairs[k].value] \in Seq(Char)
    <3>1. pairs[k].key \in Str /\ pairs[k].value \in I
      BY <2>1, PairsInside
    <3>2. EncodedStr(pairs[k].key) \in Seq(Char) /\ Encoded[pairs[k].value] \in Seq(Char)
      BY <3>1, EncodedStrSeq DEF Written
    <3> QED
      BY <3>2
  <2>3. PairTexts(pairs) =
          [k \in 1 .. Len(pairs) |-> EncodedStr(pairs[k].key) \o Encoded[pairs[k].value]]
    BY <2>1 DEF PairTexts
  <2> QED
    BY <2>1, <2>2, <2>3
<1> QED
  BY <1>1, <1>2

\* The text of a list or dictionary: a character, the rest of the texts, "e".
LEMMA Enclosed ==
  ASSUME NEW c \in Char, NEW ts \in Seq(Seq(Char)), NEW r, Rests(ts, r), FlattenSeq(ts) = r[1]
  PROVE  /\ r[1] \in Seq(Char)
         /\ r[1] \o <<"e">> \in Seq(Char)
         /\ <<c>> \o FlattenSeq(ts) \o <<"e">> = <<c>> \o (r[1] \o <<"e">>)
<1>1. PICK s \in Seq(Char) : s = r[1]
  BY DEF Rests
<1>2. PICK e \in Seq(Char) : e = <<"e">>
  <2>1. "e" \in Char
    BY BencodeAssumption
  <2>2. <<"e">> \in Seq(Char)
    BY <2>1
  <2> QED
    BY <2>2
<1>3. PICK a \in Seq(Char) : a = <<c>>
  <2>1. <<c>> \in Seq(Char)
    OBVIOUS
  <2> QED
    BY <2>1
<1>4. s \o e \in Seq(Char)
  OBVIOUS
<1>5. (a \o s) \o e = a \o (s \o e)
  BY ConcatAssociative, SMTT(30)
<1> QED
  BY <1>1, <1>2, <1>3, <1>4, <1>5, Zenon

\* The text of a value, by its type.
LEMMA EncodedAs ==
  ASSUME NEW v \in Data
  PROVE  /\ v.type = "BINT" => Encoded[v] = EncodedInt(v.i)
         /\ v.type = "BSTR" => Encoded[v] = EncodedStr(v.str)
         /\ v.type = "BLIST" => Encoded[v] = <<"l">> \o FlattenSeq(ItemTexts(v.list)) \o <<"e">>
         /\ v.type = "BDICT" => Encoded[v] = <<"d">> \o FlattenSeq(PairTexts(v.dict)) \o <<"e">>
<1>1. Encoded[v] = EncodedBy(Encoded, v)
  BY EncodedEquation
<1> QED
  BY <1>1 DEF EncodedBy, EncodedInt, ItemTexts, PairTexts

\* Every value is written in characters, the first of which is not "e".
LEMMA EncodedSeq == \A v \in Data : Written(v)
<1> DEFINE S == {I \in SUBSET Data : \A v \in I : Written(v)}
<1>1. {} \in S
  OBVIOUS
<1>2. ASSUME NEW I \in S, DataOver(I) \subseteq Data PROVE DataOver(I) \in S
  <2> SUFFICES ASSUME NEW v \in DataOver(I) PROVE Written(v)
    BY <1>2
  <2>1. v \in Data
    BY <1>2
  <2>2. ASSUME NEW c \in {"l", "d"}, NEW ts \in Seq(Seq(Char)),
               Encoded[v] = <<c>> \o FlattenSeq(ts) \o <<"e">>
        PROVE  Written(v)
    <3>1. PICK r : Rests(ts, r) /\ FlattenSeq(ts) = r[1]
      BY FlattenRests
    <3>2. c \in Char
      BY BencodeAssumption
    <3>3. r[1] \o <<"e">> \in Seq(Char) /\ Encoded[v] = <<c>> \o (r[1] \o <<"e">>)
      BY <2>2, <3>1, <3>2, Enclosed
    <3>4. /\ Encoded[v] \in Seq(Char) /\ Encoded[v][1] = c
          /\ Len(Encoded[v]) = Len(r[1] \o <<"e">>) + 1
      BY <3>2, <3>3, Prefixed
    <3>5. Len(r[1] \o <<"e">>) \in Nat
      BY <3>3
    <3> QED
      BY <3>4, <3>5 DEF Written
  <2>3. CASE v.type = "BINT"
    <3>1. v.i \in -MaxBint .. MaxBint /\ Encoded[v] = EncodedInt(v.i)
      BY <2>1, <2>3, EncodedAs, Parts
    <3> QED
      BY <3>1, EncodedIntSeq DEF Written
  <2>4. CASE v.type = "BSTR"
    <3>1. v.str \in Str /\ Encoded[v] = EncodedStr(v.str)
      BY <2>1, <2>4, EncodedAs, Parts
    <3> QED
      BY <3>1, EncodedStrSeq DEF Written
  <2>5. CASE v.type = "BLIST"
    <3>1. v.list \in Seq(I) /\ \A x \in I : Written(x)
      BY <2>5, Parts
    <3>2. ItemTexts(v.list) \in Seq(Seq(Char))
      BY <3>1, TextsSeq
    <3>3. Encoded[v] = <<"l">> \o FlattenSeq(ItemTexts(v.list)) \o <<"e">>
      BY <2>1, <2>5, EncodedAs
    <3> QED
      BY <2>2, <3>2, <3>3
  <2>6. CASE v.type = "BDICT"
    <3>1. v.dict \in Seq([key : Str, value : I]) /\ \A x \in I : Written(x)
      BY <2>6, Parts
    <3>2. PairTexts(v.dict) \in Seq(Seq(Char))
      BY <3>1, TextsSeq
    <3>3. Encoded[v] = <<"d">> \o FlattenSeq(PairTexts(v.dict)) \o <<"e">>
      BY <2>1, <2>6, EncodedAs
    <3> QED
      BY <2>2, <3>2, <3>3
  <2> QED
    BY <2>3, <2>4, <2>5, <2>6, Parts
<1> HIDE DEF S
<1>3. Data \in S
  BY <1>1, <1>2, LevelInduction DEF S
<1> QED
  BY <1>3 DEF S

-----------------------------------------------------------------------------
(* Reading lists and dictionaries *)

\* x is v as it was read: with ranges, each of which is the text of its value.
IsRead(x, v, I) ==
  /\ x \in I
  /\ Encoded[x] = Encoded[v]
  /\ Bare[x] = Bare[v]
  /\ \A w \in Within[x] : SubSeq(text, w.range[1], w.range[2]) = Encoded[w]

\* What bencode_dest_parse has to return where v is written at p.
ReadAt(v, p, I) ==
  IF Fits(p, Encoded[v])
  THEN /\ ParseData(Loops, p).ok
       /\ ParseData(Loops, p).next = p + Len(Encoded[v])
       /\ IsRead(ParseData(Loops, p).data, v, I)
  ELSE ~ParseData(Loops, p).ok

AllRead(I) == \A v \in I, p \in Position : Agrees(p, Encoded[v]) => ReadAt(v, p, I)

\* Where the text ends there is no value and no string.
LEMMA DataAtEnd ==
  ASSUME text \in Seq(Char), NEW p \in Position, p > Len(text)
  PROVE  ParseData(Loops, p) = NULL /\ ParseStr(p) = NULL
<1>1. Peek(p) = BUF_EOF
  BY DEF Peek
<1>2. ParseData(Loops, p) = NULL
  BY <1>1, Marks DEF ParseData, NULL
<1>3. ParseUint(p, ":") = NULL
  BY UintAtEnd
<1> QED
  BY <1>2, <1>3 DEF ParseStr, NULL

\* The "e" behind the last item, or the end of the text in its place.
LEMMA LoopAtEnd ==
  ASSUME text \in Seq(Char), NEW p \in Position, Agrees(p, <<"e">>), NEW type \in Kind
  PROVE  Loops[p][type] = IF Fits(p, <<"e">>) THEN Parsed(<< >>, p + 1) ELSE NULL
<1>1. "e" \in Char
  BY BencodeAssumption
<1>2. /\ Peek(p) = IF p <= Len(text) THEN "e" ELSE BUF_EOF
      /\ Fits(p, <<"e">>) <=> p <= Len(text)
  BY <1>1, CharAgrees
<1>3. Loops[p][type] = LoopBy(Loops, type, p)
  BY LoopsEquation
<1>4. CASE p <= Len(text)
  BY <1>2, <1>3, <1>4 DEF LoopBy, ParseItems, ParsePairs, AtEnd
<1>5. CASE ~(p <= Len(text))
  <2>1. p > Len(text)
    BY <1>5 DEF Position
  <2>2. ~AtEnd(p)
    BY <1>2, <1>5, Marks DEF AtEnd
  <2>3. ParseData(Loops, p) = NULL /\ ParseStr(p) = NULL
    BY <2>1, DataAtEnd
  <2>4. ParseItems(Loops, p) = NULL /\ ParsePairs(Loops, p) = NULL
    BY <2>2, <2>3 DEF ParseItems, ParsePairs, NULL
  <2> QED
    BY <1>2, <1>3, <1>5, <2>4 DEF LoopBy
<1> QED
  BY <1>4, <1>5

\* The k-th text, and what is behind it up to the "e".
LEMMA RestsParts ==
  ASSUME NEW ts \in Seq(Seq(Char)), NEW r, Rests(ts, r), NEW k \in 1 .. Len(ts)
  PROVE  \E b \in Seq(Char) :
           /\ ts[k] \in Seq(Char)
           /\ b = r[k + 1] \o <<"e">>
           /\ r[k] \o <<"e">> = ts[k] \o b
           /\ Len(b) = Len(r[k + 1]) + 1
           /\ Len(r[k]) = Len(ts[k]) + Len(r[k + 1])
           /\ Len(r[k + 1]) \in Nat
<1>1. PICK a \in Seq(Char) : a = ts[k]
  OBVIOUS
<1>2. PICK s \in Seq(Char) : s = r[k + 1]
  <2>1. k + 1 \in 1 .. Len(ts) + 1
    OBVIOUS
  <2> QED
    BY <2>1 DEF Rests
<1>3. r[k] = a \o s
  BY <1>1, <1>2 DEF Rests
<1>4. PICK e \in Seq(Char) : e = <<"e">> /\ Len(e) = 1
  <2>1. "e" \in Char
    BY BencodeAssumption
  <2>2. <<"e">> \in Seq(Char) /\ Len(<<"e">>) = 1
    BY <2>1
  <2> QED
    BY <2>2
<1>5. (a \o s) \o e = a \o (s \o e)
  BY ConcatAssociative, SMTT(30)
<1>6. /\ s \o e \in Seq(Char) /\ Len(s \o e) = Len(s) + 1
      /\ Len(a \o s) = Len(a) + Len(s) /\ Len(s) \in Nat
  BY <1>4
<1> QED
  BY <1>1, <1>2, <1>3, <1>4, <1>5, <1>6, Zenon

\* A sequence with one more element in front.
LEMMA ConsProperties ==
  ASSUME NEW I, NEW x \in I, NEW d \in Seq(I)
  PROVE  /\ <<x>> \o d \in Seq(I)
         /\ Len(<<x>> \o d) = Len(d) + 1
         /\ (<<x>> \o d)[1] = x
         /\ \A j \in 1 .. Len(d) : (<<x>> \o d)[j + 1] = d[j]
  OBVIOUS

\* What the loop over the items has to return in front of the k-th of them.
ItemsAt(items, rest, k, p, I) ==
  LET res == Loops[p]["BLIST"]
  IN IF Fits(p, rest \o <<"e">>)
     THEN /\ res.ok
          /\ res.next = p + Len(rest) + 1
          /\ res.data \in Seq(I)
          /\ Len(res.data) = Len(items) + 1 - k
          /\ \A j \in 1 .. Len(res.data) : IsRead(res.data[j], items[k + j - 1], I)
     ELSE ~res.ok

\* The loop of bencode_list_parse reads all items that are left, or fails if one of them
\* or the "e" is not there.
LEMMA ItemsRead ==
  ASSUME text \in Seq(Char), NEW I \in SUBSET Data, AllRead(I), NEW items \in Seq(I),
         NEW r, Rests(ItemTexts(items), r)
  PROVE  \A k \in 1 .. Len(items) + 1, p \in Position :
           Agrees(p, r[k] \o <<"e">>) => ItemsAt(items, r[k], k, p, I)
<1>1. PICK N \in Nat : N = Len(items)
  OBVIOUS
<1>2. PICK ts \in Seq(Seq(Char)) : /\ ts = ItemTexts(items) /\ Len(ts) = N
                                   /\ \A k \in 1 .. N : ts[k] = Encoded[items[k]]
  <2>1. \A x \in I : Written(x)
    BY EncodedSeq
  <2>2. ItemTexts(items) \in Seq(Seq(Char)) /\ Len(ItemTexts(items)) = N
    BY <1>1, <2>1, TextsSeq
  <2>3. \A k \in 1 .. N : ItemTexts(items)[k] = Encoded[items[k]]
    BY <1>1 DEF ItemTexts
  <2> QED
    BY <2>2, <2>3
<1> DEFINE At(k) == \A p \in Position :
                      Agrees(p, r[k] \o <<"e">>) => ItemsAt(items, r[k], k, p, I)
<1> DEFINE S == {m \in Nat : \A k \in 1 .. N + 1 : k + m = N + 1 => At(k)}
<1>3. At(N + 1)
  <2> SUFFICES ASSUME NEW p \in Position, Agrees(p, r[N + 1] \o <<"e">>)
               PROVE  ItemsAt(items, r[N + 1], N + 1, p, I)
    OBVIOUS
  <2>1. r[N + 1] = << >> /\ << >> \o <<"e">> = <<"e">>
    BY <1>2 DEF Rests
  <2>2. Loops[p]["BLIST"] = IF Fits(p, <<"e">>) THEN Parsed(<< >>, p + 1) ELSE NULL
    BY <2>1, LoopAtEnd DEF Kind
  <2>3. CASE Fits(p, <<"e">>)
    <3>1. /\ Loops[p]["BLIST"].ok /\ Loops[p]["BLIST"].next = p + 1
          /\ Loops[p]["BLIST"].data = << >>
      BY <2>2, <2>3 DEF Parsed
    <3>2. << >> \in Seq(I) /\ Len(<< >>) = 0 /\ p + 0 + 1 = p + 1 /\ N + 1 - (N + 1) = 0
      BY DEF Position
    <3>3. \A j \in 1 .. 0 : FALSE
      OBVIOUS
    <3> QED
      BY <1>1, <2>1, <2>3, <3>1, <3>2, <3>3 DEF ItemsAt
  <2>4. CASE ~Fits(p, <<"e">>)
    BY <2>1, <2>2, <2>4 DEF ItemsAt, NULL
  <2> QED
    BY <2>3, <2>4
<1>4. ASSUME NEW k \in 1 .. N, At(k + 1)
      PROVE  At(k)
  <2> SUFFICES ASSUME NEW p \in Position, Agrees(p, r[k] \o <<"e">>)
               PROVE  ItemsAt(items, r[k], k, p, I)
    OBVIOUS
  <2>1. PICK v \in I : v = items[k]
    BY <1>1
  <2>2. PICK a \in Seq(Char) : /\ a = Encoded[v] /\ a = ts[k] /\ Len(a) >= 1
                               /\ IsDigit(a[1]) \/ a[1] \in {"i", "l", "d"}
    <3>1. Written(v) /\ Encoded[v] = ts[k]
      BY <1>2, <2>1, EncodedSeq
    <3> QED
      BY <3>1 DEF Written
  <2>3. PICK b \in Seq(Char) : /\ b = r[k + 1] \o <<"e">>
                               /\ r[k] \o <<"e">> = a \o b
                               /\ Len(b) = Len(r[k + 1]) + 1
                               /\ Len(r[k]) = Len(a) + Len(r[k + 1])
                               /\ Len(r[k + 1]) \in Nat
    <3>1. k \in 1 .. Len(ts) /\ Rests(ts, r)
      BY <1>2
    <3>2. \E b \in Seq(Char) :
            /\ ts[k] \in Seq(Char)
            /\ b = r[k + 1] \o <<"e">>
            /\ r[k] \o <<"e">> = ts[k] \o b
            /\ Len(b) = Len(r[k + 1]) + 1
            /\ Len(r[k]) = Len(ts[k]) + Len(r[k + 1])
            /\ Len(r[k + 1]) \in Nat
      BY <3>1, RestsParts, Zenon
    <3> QED
      BY <2>2, <3>2, Zenon
  <2>4. /\ Agrees(p, a)
        /\ Fits(p, a) => p + Len(a) \in Position /\ Agrees(p + Len(a), b)
        /\ Fits(p, r[k] \o <<"e">>) <=> Fits(p, a) /\ Fits(p + Len(a), b)
    <3>1. Agrees(p, a \o b)
      BY <2>3, Zenon
    <3>2. /\ Agrees(p, a)
          /\ Fits(p, a) => p + Len(a) \in Position /\ Agrees(p + Len(a), b)
          /\ Fits(p, a \o b) <=> Fits(p, a) /\ Fits(p + Len(a), b)
      BY <3>1, AgreesParts, Zenon
    <3> QED
      BY <2>3, <3>2, Zenon
  <2>5. ~AtEnd(p)
    <3>1. Peek(p) \in {a[1], BUF_EOF}
      BY <2>2, <2>4, FirstAgrees
    <3> QED
      BY <2>2, <3>1, Marks DEF AtEnd
  <2>6. PICK res : res = Loops[p]["BLIST"] /\ res = ParseItems(Loops, p)
    BY LoopsEquation DEF Kind, LoopBy
  <2>7. PICK item : item = ParseData(Loops, p)
    OBVIOUS
  <2>8. IF Fits(p, a) THEN item.ok /\ item.next = p + Len(a) /\ IsRead(item.data, v, I)
                      ELSE ~item.ok
    BY <2>2, <2>4, <2>7 DEF AllRead, ReadAt
  <2>9. CASE ~Fits(p, a)
    <3>1. res = NULL
      BY <2>5, <2>6, <2>7, <2>8, <2>9 DEF ParseItems
    <3> QED
      BY <2>4, <2>6, <2>9, <3>1 DEF ItemsAt, NULL
  <2>10. CASE Fits(p, a)
    <3>1. PICK others : others = Loops[p + Len(a)]["BLIST"]
      OBVIOUS
    <3>2. ItemsAt(items, r[k + 1], k + 1, p + Len(a), I)
      BY <1>4, <2>3, <2>4, <2>10
    <3>3. CASE ~Fits(p + Len(a), b)
      <4>1. ~others.ok
        BY <2>3, <3>1, <3>2, <3>3 DEF ItemsAt
      <4>2. res = NULL
        BY <2>5, <2>6, <2>7, <2>8, <2>10, <3>1, <4>1 DEF ParseItems
      <4> QED
        BY <2>4, <2>6, <3>3, <4>2 DEF ItemsAt, NULL
    <3>4. CASE Fits(p + Len(a), b)
      <4>1. /\ others.ok
            /\ others.next = p + Len(a) + Len(r[k + 1]) + 1
            /\ others.data \in Seq(I)
            /\ Len(others.data) = Len(items) + 1 - (k + 1)
            /\ \A j \in 1 .. Len(others.data) : IsRead(others.data[j], items[k + 1 + j - 1], I)
        BY <2>3, <3>1, <3>2, <3>4 DEF ItemsAt
      <4>2. res = Parsed(<<item.data>> \o others.data, others.next)
        BY <2>5, <2>6, <2>7, <2>8, <2>10, <3>1, <4>1 DEF ParseItems
      <4>3. PICK d \in Seq(I) :
              /\ d = <<item.data>> \o others.data
              /\ Len(d) = Len(others.data) + 1
              /\ d[1] = item.data
              /\ \A j \in 1 .. Len(others.data) : d[j + 1] = others.data[j]
        <5>1. PICK x \in I : x = item.data
          BY <2>8, <2>10 DEF IsRead
        <5>2. PICK o \in Seq(I) : o = others.data
          BY <4>1
        <5>3. /\ <<x>> \o o \in Seq(I) /\ Len(<<x>> \o o) = Len(o) + 1 /\ (<<x>> \o o)[1] = x
              /\ \A j \in 1 .. Len(o) : (<<x>> \o o)[j + 1] = o[j]
          BY ConsProperties
        <5> QED
          BY <5>1, <5>2, <5>3, Zenon
      <4>4. res.ok /\ res.next = others.next /\ res.data = d
        BY <4>2, <4>3 DEF Parsed
      <4>5. res.next = p + Len(r[k]) + 1 /\ Len(d) = Len(items) + 1 - k
        <5>1. PICK n \in Nat, m \in Nat : n = Len(a) /\ m = Len(r[k + 1])
          BY <2>3
        <5>2. res.next = p + n + m + 1 /\ Len(r[k]) = n + m
          BY <2>3, <4>1, <4>4, <5>1, Zenon
        <5>3. p + n + m + 1 = p + (n + m) + 1
          BY DEF Position
        <5>4. Len(d) = N + 1 - (k + 1) + 1
          BY <1>1, <4>1, <4>3, Zenon
        <5>5. N + 1 - (k + 1) + 1 = N + 1 - k
          OBVIOUS
        <5> QED
          BY <1>1, <5>2, <5>3, <5>4, <5>5, Zenon
      <4>6. ASSUME NEW j \in 1 .. Len(d) PROVE IsRead(d[j], items[k + j - 1], I)
        <5>1. CASE j = 1
          <6>1. k + j - 1 = k
            BY <5>1
          <6> QED
            BY <2>1, <2>8, <2>10, <4>3, <5>1, <6>1
        <5>2. CASE j # 1
          <6>1. PICK i \in 1 .. Len(others.data) : i + 1 = j /\ k + 1 + i - 1 = k + j - 1
            <7>1. j - 1 \in 1 .. Len(others.data) /\ (j - 1) + 1 = j
              BY <4>1, <4>3, <5>2
            <7> QED
              BY <7>1
          <6>2. d[j] = others.data[i] /\ IsRead(others.data[i], items[k + j - 1], I)
            BY <4>1, <4>3, <6>1
          <6> QED
            BY <6>2
        <5> QED
          BY <5>1, <5>2
      <4>7. Fits(p, r[k] \o <<"e">>)
        BY <2>4, <2>10, <3>4
      <4> QED
        BY <2>6, <4>4, <4>5, <4>6, <4>7 DEF ItemsAt
    <3> QED
      BY <3>3, <3>4
  <2> QED
    BY <2>9, <2>10
<1>5. 0 \in S
  <2> HIDE DEF At
  <2> QED
    BY <1>3
<1>6. ASSUME NEW m \in S PROVE m + 1 \in S
  <2> HIDE DEF At
  <2> SUFFICES ASSUME NEW k \in 1 .. N + 1, k + (m + 1) = N + 1 PROVE At(k)
    OBVIOUS
  <2>1. k \in 1 .. N /\ k + 1 \in 1 .. N + 1 /\ (k + 1) + m = N + 1
    OBVIOUS
  <2>2. At(k + 1)
    BY <2>1
  <2> QED
    BY <1>4, <2>1, <2>2
<1>7. S = Nat
  <2> HIDE DEF S
  <2> QED
    BY <1>5, <1>6, SetInduction DEF S
<1>8. ASSUME NEW k \in 1 .. N + 1 PROVE At(k)
  <2>1. N + 1 - k \in Nat /\ k + (N + 1 - k) = N + 1
    OBVIOUS
  <2>2. N + 1 - k \in S
    <3> HIDE DEF S
    <3> QED
      BY <1>7, <2>1
  <2> HIDE DEF At
  <2> QED
    BY <2>1, <2>2
<1> QED
  BY <1>1, <1>8

SamePair(x, y, I) == x.key = y.key /\ IsRead(x.value, y.value, I)

\* What the loop over the pairs has to return in front of the k-th of them.
PairsAt(pairs, rest, k, p, I) ==
  LET res == Loops[p]["BDICT"]
  IN IF Fits(p, rest \o <<"e">>)
     THEN /\ res.ok
          /\ res.next = p + Len(rest) + 1
          /\ res.data \in Seq([key : Str, value : I])
          /\ Len(res.data) = Len(pairs) + 1 - k
          /\ \A j \in 1 .. Len(res.data) : SamePair(res.data[j], pairs[k + j - 1], I)
     ELSE ~res.ok

\* The loop of bencode_dict_parse does the same with pairs.
LEMMA PairsRead ==
  ASSUME text \in Seq(Char), NEW I \in SUBSET Data, AllRead(I),
         NEW pairs \in Seq([key : Str, value : I]), NEW r, Rests(PairTexts(pairs), r)
  PROVE  \A k \in 1 .. Len(pairs) + 1, p \in Position :
           Agrees(p, r[k] \o <<"e">>) => PairsAt(pairs, r[k], k, p, I)
<1>1. PICK N \in Nat : N = Len(pairs)
  OBVIOUS
<1>2. PICK ts \in Seq(Seq(Char)) :
        /\ ts = PairTexts(pairs) /\ Len(ts) = N
        /\ \A k \in 1 .. N : ts[k] = EncodedStr(pairs[k].key) \o Encoded[pairs[k].value]
  <2>1. \A x \in I : Written(x)
    BY EncodedSeq
  <2>2. PairTexts(pairs) \in Seq(Seq(Char)) /\ Len(PairTexts(pairs)) = N
    BY <1>1, <2>1, TextsSeq
  <2>3. \A k \in 1 .. N : PairTexts(pairs)[k] = EncodedStr(pairs[k].key) \o Encoded[pairs[k].value]
    <3>1. DOMAIN pairs = 1 .. N
      BY <1>1
    <3> QED
      BY <3>1, Zenon DEF PairTexts
  <2> QED
    BY <2>2, <2>3
<1> DEFINE At(k) == \A p \in Position :
                      Agrees(p, r[k] \o <<"e">>) => PairsAt(pairs, r[k], k, p, I)
<1> DEFINE S == {m \in Nat : \A k \in 1 .. N + 1 : k + m = N + 1 => At(k)}
<1>3. At(N + 1)
  <2> SUFFICES ASSUME NEW p \in Position, Agrees(p, r[N + 1] \o <<"e">>)
               PROVE  PairsAt(pairs, r[N + 1], N + 1, p, I)
    OBVIOUS
  <2>1. r[N + 1] = << >> /\ << >> \o <<"e">> = <<"e">>
    BY <1>2 DEF Rests
  <2>2. Loops[p]["BDICT"] = IF Fits(p, <<"e">>) THEN Parsed(<< >>, p + 1) ELSE NULL
    BY <2>1, LoopAtEnd DEF Kind
  <2>3. CASE Fits(p, <<"e">>)
    <3>1. /\ Loops[p]["BDICT"].ok /\ Loops[p]["BDICT"].next = p + 1
          /\ Loops[p]["BDICT"].data = << >>
      BY <2>2, <2>3 DEF Parsed
    <3>2. /\ << >> \in Seq([key : Str, value : I]) /\ Len(<< >>) = 0
          /\ p + 0 + 1 = p + 1 /\ N + 1 - (N + 1) = 0
      BY DEF Position
    <3>3. \A j \in 1 .. 0 : FALSE
      OBVIOUS
    <3> QED
      BY <1>1, <2>1, <2>3, <3>1, <3>2, <3>3 DEF PairsAt
  <2>4. CASE ~Fits(p, <<"e">>)
    BY <2>1, <2>2, <2>4 DEF PairsAt, NULL
  <2> QED
    BY <2>3, <2>4
<1>4. ASSUME NEW k \in 1 .. N, At(k + 1)
      PROVE  At(k)
  <2> SUFFICES ASSUME NEW p \in Position, Agrees(p, r[k] \o <<"e">>)
               PROVE  PairsAt(pairs, r[k], k, p, I)
    OBVIOUS
  <2>1. PICK y \in Str, v \in I : y = pairs[k].key /\ v = pairs[k].value
    <3>1. k \in DOMAIN pairs
      BY <1>1
    <3> QED
      BY <3>1, PairsInside
  <2>2. PICK key \in Seq(Char) : /\ key = EncodedStr(y) /\ Len(key) >= 1
                                 /\ IsDigit(key[1])
    BY EncodedStrSeq
  <2>3. PICK val \in Seq(Char) : val = Encoded[v]
    BY EncodedSeq DEF Written
  <2>4. PICK a \in Seq(Char) : a = key \o val /\ a = ts[k]
    <3>1. key \o val \in Seq(Char)
      OBVIOUS
    <3>2. ts[k] = key \o val
      BY <1>2, <2>1, <2>2, <2>3, Zenon
    <3> QED
      BY <3>1, <3>2
  <2>5. PICK b \in Seq(Char) : /\ b = r[k + 1] \o <<"e">>
                               /\ r[k] \o <<"e">> = a \o b
                               /\ Len(b) = Len(r[k + 1]) + 1
                               /\ Len(r[k]) = Len(a) + Len(r[k + 1])
                               /\ Len(r[k + 1]) \in Nat
    <3>1. k \in 1 .. Len(ts) /\ Rests(ts, r)
      BY <1>2
    <3>2. \E b \in Seq(Char) :
            /\ ts[k] \in Seq(Char)
            /\ b = r[k + 1] \o <<"e">>
            /\ r[k] \o <<"e">> = ts[k] \o b
            /\ Len(b) = Len(r[k + 1]) + 1
            /\ Len(r[k]) = Len(ts[k]) + Len(r[k + 1])
            /\ Len(r[k + 1]) \in Nat
      BY <3>1, RestsParts, Zenon
    <3> QED
      BY <2>4, <3>2, Zenon
  <2>6. /\ Agrees(p, a)
        /\ Fits(p, a) => p + Len(a) \in Position /\ Agrees(p + Len(a), b)
        /\ Fits(p, r[k] \o <<"e">>) <=> Fits(p, a) /\ Fits(p + Len(a), b)
    <3>1. Agrees(p, a \o b)
      BY <2>5, Zenon
    <3>2. /\ Agrees(p, a)
          /\ Fits(p, a) => p + Len(a) \in Position /\ Agrees(p + Len(a), b)
          /\ Fits(p, a \o b) <=> Fits(p, a) /\ Fits(p + Len(a), b)
      BY <3>1, AgreesParts, Zenon
    <3> QED
      BY <2>5, <3>2, Zenon
  <2>7. /\ Agrees(p, key)
        /\ Fits(p, key) => p + Len(key) \in Position /\ Agrees(p + Len(key), val)
        /\ Fits(p, a) <=> Fits(p, key) /\ Fits(p + Len(key), val)
        /\ p + Len(a) = p + Len(key) + Len(val)
    <3>1. Agrees(p, key \o val)
      BY <2>4, <2>6, Zenon
    <3>2. /\ Agrees(p, key)
          /\ Fits(p, key) => p + Len(key) \in Position /\ Agrees(p + Len(key), val)
          /\ Fits(p, key \o val) <=> Fits(p, key) /\ Fits(p + Len(key), val)
          /\ p + Len(key \o val) = p + Len(key) + Len(val)
      BY <3>1, AgreesParts, Zenon
    <3> QED
      BY <2>4, <3>2, Zenon
  <2>8. ~AtEnd(p)
    <3>1. Peek(p) \in {key[1], BUF_EOF}
      BY <2>2, <2>7, FirstAgrees
    <3> QED
      BY <2>2, <3>1, Marks DEF AtEnd
  <2>9. PICK res : res = Loops[p]["BDICT"] /\ res = ParsePairs(Loops, p)
    BY LoopsEquation DEF Kind, LoopBy
  <2>10. ParseStr(p) = IF Fits(p, key) THEN Parsed(BStr(y), p + Len(key)) ELSE NULL
    BY <2>2, <2>7, StrRead
  <2>11. CASE ~Fits(p, a)
    <3>1. CASE ~Fits(p, key)
      <4>1. res = NULL
        BY <2>8, <2>9, <2>10, <3>1 DEF ParsePairs, NULL
      <4> QED
        BY <2>6, <2>9, <2>11, <4>1 DEF PairsAt, NULL
    <3>2. CASE Fits(p, key)
      <4>1. ~Fits(p + Len(key), val)
        BY <2>7, <2>11, <3>2
      <4>2. ~ParseData(Loops, p + Len(key)).ok
        BY <2>3, <2>7, <3>2, <4>1 DEF AllRead, ReadAt
      <4>3. ParseStr(p).next = p + Len(key)
        BY <2>10, <3>2 DEF Parsed
      <4>4. res = NULL
        BY <2>8, <2>9, <4>2, <4>3 DEF ParsePairs
      <4> QED
        BY <2>6, <2>9, <2>11, <4>4 DEF PairsAt, NULL
    <3> QED
      BY <3>1, <3>2
  <2>12. CASE Fits(p, a)
    <3>1. /\ ParseStr(p).ok /\ ParseStr(p).next = p + Len(key)
          /\ ParseStr(p).data.str = y
      BY <2>7, <2>10, <2>12 DEF Parsed, BStr
    <3>2. PICK item : item = ParseData(Loops, p + Len(key))
      OBVIOUS
    <3>3. item.ok /\ item.next = p + Len(a) /\ IsRead(item.data, v, I)
      <4>1. ReadAt(v, p + Len(key), I)
        BY <2>7, <2>12, <2>3 DEF AllRead
      <4>2. /\ ParseData(Loops, p + Len(key)).ok
            /\ ParseData(Loops, p + Len(key)).next = p + Len(key) + Len(val)
            /\ IsRead(ParseData(Loops, p + Len(key)).data, v, I)
        BY <2>3, <2>7, <2>12, <4>1 DEF ReadAt
      <4> QED
        BY <2>7, <3>2, <4>2, Zenon
    <3>4. PICK others : others = Loops[p + Len(a)]["BDICT"]
      OBVIOUS
    <3>5. PairsAt(pairs, r[k + 1], k + 1, p + Len(a), I)
      BY <1>4, <2>5, <2>6, <2>12
    <3>6. CASE ~Fits(p + Len(a), b)
      <4>1. ~others.ok
        BY <2>5, <3>4, <3>5, <3>6 DEF PairsAt
      <4>2. res = NULL
        BY <2>8, <2>9, <3>1, <3>2, <3>3, <3>4, <4>1 DEF ParsePairs
      <4> QED
        BY <2>6, <2>9, <3>6, <4>2 DEF PairsAt, NULL
    <3>7. CASE Fits(p + Len(a), b)
      <4>1. /\ others.ok
            /\ others.next = p + Len(a) + Len(r[k + 1]) + 1
            /\ others.data \in Seq([key : Str, value : I])
            /\ Len(others.data) = Len(pairs) + 1 - (k + 1)
            /\ \A j \in 1 .. Len(others.data) : SamePair(others.data[j], pairs[k + 1 + j - 1], I)
        BY <2>5, <3>4, <3>5, <3>7 DEF PairsAt
      <4>2. PICK x : x = [key |-> y, value |-> item.data]
        OBVIOUS
      <4>3. /\ x \in [key : Str, value : I]
             /\ SamePair(x, pairs[k], I)
        BY <2>1, <3>3, <4>2 DEF SamePair, IsRead
      <4>4. res = Parsed(<<x>> \o others.data, others.next)
        BY <2>8, <2>9, <3>1, <3>2, <3>3, <3>4, <4>1, <4>2 DEF ParsePairs
      <4>5. PICK d \in Seq([key : Str, value : I]) :
              /\ d = <<x>> \o others.data
              /\ Len(d) = Len(others.data) + 1
              /\ d[1] = x
              /\ \A j \in 1 .. Len(others.data) : d[j + 1] = others.data[j]
        <5>1. PICK J : J = [key : Str, value : I]
          OBVIOUS
        <5>2. PICK o \in Seq(J) : o = others.data
          BY <4>1, <5>1
        <5>3. /\ <<x>> \o o \in Seq(J) /\ Len(<<x>> \o o) = Len(o) + 1 /\ (<<x>> \o o)[1] = x
              /\ \A j \in 1 .. Len(o) : (<<x>> \o o)[j + 1] = o[j]
          BY <4>3, <5>1, ConsProperties
        <5> QED
          BY <5>1, <5>2, <5>3, Zenon
      <4>6. res.ok /\ res.next = others.next /\ res.data = d
        BY <4>5, <4>4 DEF Parsed
      <4>7. res.next = p + Len(r[k]) + 1 /\ Len(d) = Len(pairs) + 1 - k
        <5>1. PICK n \in Nat, m \in Nat : n = Len(a) /\ m = Len(r[k + 1])
          BY <2>5
        <5>2. res.next = p + n + m + 1 /\ Len(r[k]) = n + m
          BY <2>5, <4>1, <4>6, <5>1, Zenon
        <5>3. p + n + m + 1 = p + (n + m) + 1
          BY DEF Position
        <5>4. Len(d) = N + 1 - (k + 1) + 1
          BY <1>1, <4>1, <4>5, Zenon
        <5>5. N + 1 - (k + 1) + 1 = N + 1 - k
          OBVIOUS
        <5> QED
          BY <1>1, <5>2, <5>3, <5>4, <5>5, Zenon
      <4>8. ASSUME NEW j \in 1 .. Len(d) PROVE SamePair(d[j], pairs[k + j - 1], I)
        <5>1. CASE j = 1
          <6>1. k + j - 1 = k
            BY <5>1
          <6> QED
            BY <4>3, <4>5, <5>1, <6>1
        <5>2. CASE j # 1
          <6>1. PICK i \in 1 .. Len(others.data) : i + 1 = j /\ k + 1 + i - 1 = k + j - 1
            <7>1. j - 1 \in 1 .. Len(others.data) /\ (j - 1) + 1 = j
              BY <4>1, <4>5, <5>2
            <7> QED
              BY <7>1
          <6>2. d[j] = others.data[i] /\ SamePair(others.data[i], pairs[k + j - 1], I)
            BY <4>1, <4>5, <6>1
          <6> QED
            BY <6>2
        <5> QED
          BY <5>1, <5>2
      <4>9. Fits(p, r[k] \o <<"e">>)
        BY <2>6, <2>12, <3>7
      <4> QED
        BY <2>9, <4>6, <4>7, <4>8, <4>9 DEF PairsAt
    <3> QED
      BY <3>6, <3>7
  <2> QED
    BY <2>11, <2>12
<1>5. 0 \in S
  <2> HIDE DEF At
  <2> QED
    BY <1>3
<1>6. ASSUME NEW m \in S PROVE m + 1 \in S
  <2> HIDE DEF At
  <2> SUFFICES ASSUME NEW k \in 1 .. N + 1, k + (m + 1) = N + 1 PROVE At(k)
    OBVIOUS
  <2>1. k \in 1 .. N /\ k + 1 \in 1 .. N + 1 /\ (k + 1) + m = N + 1
    OBVIOUS
  <2>2. At(k + 1)
    BY <2>1
  <2> QED
    BY <1>4, <2>1, <2>2
<1>7. S = Nat
  <2> HIDE DEF S
  <2> QED
    BY <1>5, <1>6, SetInduction DEF S
<1>8. ASSUME NEW k \in 1 .. N + 1 PROVE At(k)
  <2>1. N + 1 - k \in Nat /\ k + (N + 1 - k) = N + 1
    OBVIOUS
  <2>2. N + 1 - k \in S
    <3> HIDE DEF S
    <3> QED
      BY <1>7, <2>1
  <2> HIDE DEF At
  <2> QED
    BY <2>1, <2>2
<1> QED
  BY <1>1, <1>8

-----------------------------------------------------------------------------
(* Reading values *)

\* x is v with another range, and so are the values in x.
Same(x, v, range, J) ==
  /\ x \in J
  /\ x.range = range
  /\ Encoded[x] = Encoded[v]
  /\ Bare[x] = Bare[v]
  /\ \A w \in Within[x] : w = x \/ SubSeq(text, w.range[1], w.range[2]) = Encoded[w]

\* Lists and dictionaries of items in I.
LEMMA DataShapes ==
  ASSUME NEW I, NEW range \in Nat \X Nat
  PROVE  /\ \A items \in Seq(I) :
              [type |-> "BLIST", list |-> items, range |-> range] \in DataOver(I)
         /\ \A pairs \in Seq([key : Str, value : I]) :
              [type |-> "BDICT", dict |-> pairs, range |-> range] \in DataOver(I)
<1>1. ASSUME NEW L, NEW R, NEW l \in L, NEW z \in R
      PROVE  /\ [type |-> "BLIST", list |-> l, range |-> z] \in
                  [type : {"BLIST"}, list : L, range : R]
             /\ [type |-> "BDICT", dict |-> l, range |-> z] \in
                  [type : {"BDICT"}, dict : L, range : R]
  OBVIOUS
<1>2. ASSUME NEW items \in Seq(I)
      PROVE  [type |-> "BLIST", list |-> items, range |-> range] \in
               [type : {"BLIST"}, list : Seq(I), range : Nat \X Nat]
  BY <1>1, Zenon
<1>3. ASSUME NEW pairs \in Seq([key : Str, value : I])
      PROVE  [type |-> "BDICT", dict |-> pairs, range |-> range] \in
               [type : {"BDICT"}, dict : Seq([key : Str, value : I]), range : Nat \X Nat]
  BY <1>1, Zenon
<1> QED
  BY <1>2, <1>3, Zenon DEF DataOver

\* With another range a number is the same value,
LEMMA SameInt ==
  ASSUME NEW I, DataOver(I) \subseteq Data, NEW v \in DataOver(I), v.type = "BINT",
         NEW range \in Nat \X Nat
  PROVE  Same([BInt(v.i) EXCEPT !.range = range], v, range, DataOver(I))
<1>1. PICK x : /\ x = [BInt(v.i) EXCEPT !.range = range]
               /\ x = [type |-> "BINT", i |-> v.i, range |-> range]
  <2>1. [BInt(v.i) EXCEPT !.range = range] =
        [type |-> "BINT", i |-> v.i, range |-> range]
    BY DEF BInt
  <2> QED
    BY <2>1
<1>2. x \in DataOver(I)
  <2>1. v.i \in -MaxBint .. MaxBint
    BY Parts
  <2> QED
    BY <1>1, <2>1 DEF DataOver
<1>3. x.type = "BINT" /\ x.i = v.i /\ x.range = range
  BY <1>1
<1>4. x \in Data /\ v \in Data
  BY <1>2
<1>5. Encoded[x] = Encoded[v]
  BY <1>3, <1>4, EncodedAs
<1>6. Bare[x] = Bare[v]
  BY <1>3, <1>4, BareEquation DEF BareBy
<1>7. Within[x] = {x}
  BY <1>3, <1>4, WithinEquation DEF WithinBy
<1> QED
  BY <1>1, <1>2, <1>3, <1>5, <1>6, <1>7 DEF Same

\* and so is a string,
LEMMA SameStr ==
  ASSUME NEW I, DataOver(I) \subseteq Data, NEW v \in DataOver(I), v.type = "BSTR",
         NEW range \in Nat \X Nat
  PROVE  Same([BStr(v.str) EXCEPT !.range = range], v, range, DataOver(I))
<1>1. PICK x : /\ x = [BStr(v.str) EXCEPT !.range = range]
               /\ x = [type |-> "BSTR", str |-> v.str, range |-> range]
  <2>1. [BStr(v.str) EXCEPT !.range = range] =
        [type |-> "BSTR", str |-> v.str, range |-> range]
    BY DEF BStr
  <2> QED
    BY <2>1
<1>2. x \in DataOver(I)
  <2>1. v.str \in Str
    BY Parts
  <2> QED
    BY <1>1, <2>1 DEF DataOver
<1>3. x.type = "BSTR" /\ x.str = v.str /\ x.range = range
  BY <1>1
<1>4. x \in Data /\ v \in Data
  BY <1>2
<1>5. Encoded[x] = Encoded[v]
  BY <1>3, <1>4, EncodedAs
<1>6. Bare[x] = Bare[v]
  BY <1>3, <1>4, BareEquation DEF BareBy
<1>7. Within[x] = {x}
  BY <1>3, <1>4, WithinEquation DEF WithinBy
<1> QED
  BY <1>1, <1>2, <1>3, <1>5, <1>6, <1>7 DEF Same

\* a list of items that are the same values,
LEMMA SameList ==
  ASSUME NEW I \in SUBSET Data, DataOver(I) \subseteq Data,
         NEW v \in DataOver(I), v.type = "BLIST", NEW range \in Nat \X Nat,
         NEW items \in Seq(I), Len(items) = Len(v.list),
         \A j \in 1 .. Len(items) : IsRead(items[j], v.list[j], I)
  PROVE  Same([BList(items) EXCEPT !.range = range], v, range, DataOver(I))
<1>1. PICK x : /\ x = [BList(items) EXCEPT !.range = range]
               /\ x = [type |-> "BLIST", list |-> items, range |-> range]
  <2>1. [BList(items) EXCEPT !.range = range] =
        [type |-> "BLIST", list |-> items, range |-> range]
    BY DEF BList
  <2> QED
    BY <2>1
<1>2. x \in DataOver(I)
  <2>1. [type |-> "BLIST", list |-> items, range |-> range] \in DataOver(I)
    BY DataShapes
  <2> QED
    BY <1>1, <2>1
<1>3. x.type = "BLIST" /\ x.list = items /\ x.range = range
  BY <1>1
<1>4. x \in Data /\ v \in Data
  BY <1>2
<1>5. DOMAIN items = 1 .. Len(items) /\ DOMAIN v.list = 1 .. Len(items)
  <2>1. v.list \in Seq(I)
    BY Parts
  <2> QED
    BY <2>1
<1>6. Encoded[x] = Encoded[v]
  <2>1. ItemTexts(items) = ItemTexts(v.list)
    BY <1>5 DEF ItemTexts, IsRead
  <2> QED
    BY <1>3, <1>4, <2>1, EncodedAs
<1>7. Bare[x] = Bare[v]
  <2>1. [k \in DOMAIN items |-> Bare[items[k]]] = [k \in DOMAIN v.list |-> Bare[v.list[k]]]
    BY <1>5 DEF IsRead
  <2>2. Bare[x] = BareBy(Bare, x) /\ Bare[v] = BareBy(Bare, v)
    BY <1>4, BareEquation
  <2> QED
    BY <1>3, <2>1, <2>2 DEF BareBy
<1>8. Within[x] = {x} \cup UNION {Within[items[k]] : k \in DOMAIN items}
  BY <1>3, <1>4, WithinEquation DEF WithinBy
<1>9. ASSUME NEW w \in Within[x], w # x
      PROVE  SubSeq(text, w.range[1], w.range[2]) = Encoded[w]
  <2>1. PICK k \in DOMAIN items : w \in Within[items[k]]
    BY <1>8, <1>9
  <2> QED
    BY <1>5, <2>1 DEF IsRead
<1> QED
  BY <1>1, <1>2, <1>3, <1>6, <1>7, <1>9 DEF Same

\* and a dictionary of the same keys with values that are the same.
LEMMA SameDict ==
  ASSUME NEW I \in SUBSET Data, DataOver(I) \subseteq Data,
         NEW v \in DataOver(I), v.type = "BDICT", NEW range \in Nat \X Nat,
         NEW pairs \in Seq([key : Str, value : I]), Len(pairs) = Len(v.dict),
         \A j \in 1 .. Len(pairs) : SamePair(pairs[j], v.dict[j], I)
  PROVE  Same([BDict(pairs) EXCEPT !.range = range], v, range, DataOver(I))
<1>1. PICK x : /\ x = [BDict(pairs) EXCEPT !.range = range]
               /\ x = [type |-> "BDICT", dict |-> pairs, range |-> range]
  <2>1. [BDict(pairs) EXCEPT !.range = range] =
        [type |-> "BDICT", dict |-> pairs, range |-> range]
    BY DEF BDict
  <2> QED
    BY <2>1
<1>2. x \in DataOver(I)
  <2>1. [type |-> "BDICT", dict |-> pairs, range |-> range] \in DataOver(I)
    BY DataShapes
  <2> QED
    BY <1>1, <2>1
<1>3. x.type = "BDICT" /\ x.dict = pairs /\ x.range = range
  BY <1>1
<1>4. x \in Data /\ v \in Data
  BY <1>2
<1>5. DOMAIN pairs = 1 .. Len(pairs) /\ DOMAIN v.dict = 1 .. Len(pairs)
  <2>1. v.dict \in Seq([key : Str, value : I])
    BY Parts
  <2> QED
    BY <2>1
<1>6. Encoded[x] = Encoded[v]
  <2>1. PairTexts(pairs) = PairTexts(v.dict)
    BY <1>5 DEF PairTexts, SamePair, IsRead
  <2> QED
    BY <1>3, <1>4, <2>1, EncodedAs
<1>7. Bare[x] = Bare[v]
  <2>1. [k \in DOMAIN pairs |-> [key |-> pairs[k].key, value |-> Bare[pairs[k].value]]] =
        [k \in DOMAIN v.dict |-> [key |-> v.dict[k].key, value |-> Bare[v.dict[k].value]]]
    BY <1>5 DEF SamePair, IsRead
  <2>2. Bare[x] = BareBy(Bare, x) /\ Bare[v] = BareBy(Bare, v)
    BY <1>4, BareEquation
  <2> QED
    BY <1>3, <2>1, <2>2 DEF BareBy
<1>8. Within[x] = {x} \cup UNION {Within[pairs[k].value] : k \in DOMAIN pairs}
  BY <1>3, <1>4, WithinEquation DEF WithinBy
<1>9. ASSUME NEW w \in Within[x], w # x
      PROVE  SubSeq(text, w.range[1], w.range[2]) = Encoded[w]
  <2>1. PICK k \in DOMAIN pairs : w \in Within[pairs[k].value]
    BY <1>8, <1>9
  <2> QED
    BY <1>5, <2>1 DEF SamePair, IsRead
<1> QED
  BY <1>1, <1>2, <1>3, <1>6, <1>7, <1>9 DEF Same

\* How bencode_dest_parse completes a value.
Ranged(res, p) ==
  IF res.ok THEN Parsed([res.data EXCEPT !.range = RangeOf(p, res.next)], res.next) ELSE NULL

\* bencode_dest_parse chooses by the first character.
LEMMA DataByFirst ==
  ASSUME NEW p
  PROVE  /\ Peek(p) = "i" => ParseData(Loops, p) = Ranged(ParseInt(p), p)
         /\ IsDigit(Peek(p)) => ParseData(Loops, p) = Ranged(ParseStr(p), p)
         /\ Peek(p) = "l" => ParseData(Loops, p) = Ranged(ParseList(Loops, p), p)
         /\ Peek(p) = "d" => ParseData(Loops, p) = Ranged(ParseDict(Loops, p), p)
<1>1. Peek(p) = "i" => ParseData(Loops, p) = Ranged(ParseInt(p), p)
  BY Marks DEF ParseData, Ranged
<1>2. IsDigit(Peek(p)) => ParseData(Loops, p) = Ranged(ParseStr(p), p)
  <2>1. IsDigit(Peek(p)) => Peek(p) \notin {"i", "l", "d"}
    BY Marks
  <2> QED
    BY <2>1 DEF ParseData, Ranged
<1>3. Peek(p) = "l" => ParseData(Loops, p) = Ranged(ParseList(Loops, p), p)
  BY Marks DEF ParseData, Ranged
<1>4. Peek(p) = "d" => ParseData(Loops, p) = Ranged(ParseDict(Loops, p), p)
  BY Marks DEF ParseData, Ranged
<1> QED
  BY <1>1, <1>2, <1>3, <1>4

\* A value is read if the part that was chosen reads it: the range is then its text.
LEMMA ReadBy ==
  ASSUME text \in Seq(Char), NEW v \in Data, NEW p \in Position, Agrees(p, Encoded[v]),
         NEW J, NEW res, ParseData(Loops, p) = Ranged(res, p),
         Fits(p, Encoded[v]) =>
           /\ res.ok
           /\ res.next = p + Len(Encoded[v])
           /\ RangeOf(p, p + Len(Encoded[v])) \in Nat \X Nat =>
                Same([res.data EXCEPT !.range = RangeOf(p, p + Len(Encoded[v]))], v,
                     RangeOf(p, p + Len(Encoded[v])), J),
         ~Fits(p, Encoded[v]) => ~res.ok
  PROVE  ReadAt(v, p, J)
<1>1. CASE ~Fits(p, Encoded[v])
  <2>1. ParseData(Loops, p) = NULL
    BY <1>1 DEF Ranged
  <2> QED
    BY <1>1, <2>1 DEF ReadAt, NULL
<1>2. CASE Fits(p, Encoded[v])
  <2>1. PICK s \in Seq(Char) : s = Encoded[v]
    BY EncodedSeq DEF Written
  <2>2. PICK range : range = RangeOf(p, p + Len(s)) /\ range = <<p, p + Len(s) - 1>>
    <3>1. p + Len(s) - 1 = (p + Len(s)) - 1
      BY DEF Position
    <3>2. RangeOf(p, p + Len(s)) = <<p, (p + Len(s)) - 1>>
      BY Zenon DEF RangeOf
    <3> QED
      BY <3>1, <3>2
  <2>3. range \in Nat \X Nat /\ range[1] = p /\ range[2] = p + Len(s) - 1
    BY <2>2 DEF Position
  <2>4. PICK x : x = [res.data EXCEPT !.range = range]
    OBVIOUS
  <2>5. Same(x, v, range, J)
    BY <1>2, <2>1, <2>2, <2>3, <2>4
  <2>6. ParseData(Loops, p) = Parsed(x, p + Len(s))
    BY <1>2, <2>1, <2>2, <2>4 DEF Ranged
  <2>7. SubSeq(text, p, p + Len(s) - 1) = s
    BY <1>2, <2>1, OwnText
  <2>8. \A w \in Within[x] : SubSeq(text, w.range[1], w.range[2]) = Encoded[w]
    BY <2>1, <2>3, <2>5, <2>7 DEF Same
  <2> QED
    BY <1>2, <2>1, <2>5, <2>6, <2>8 DEF ReadAt, IsRead, Same, Parsed
<1> QED
  BY <1>1, <1>2

\* The text of a list or dictionary at p: its first character, and what the loop reads.
LEMMA EnclosedAt ==
  ASSUME text \in Seq(Char), NEW p \in Position, p <= Len(text), NEW c \in {"l", "d"},
         NEW ts \in Seq(Seq(Char)), Agrees(p, <<c>> \o FlattenSeq(ts) \o <<"e">>)
  PROVE  \E r : /\ Rests(ts, r)
                /\ p + 1 \in Position
                /\ Agrees(p + 1, r[1] \o <<"e">>)
                /\ Fits(p, <<c>> \o FlattenSeq(ts) \o <<"e">>) <=> Fits(p + 1, r[1] \o <<"e">>)
                /\ p + Len(<<c>> \o FlattenSeq(ts) \o <<"e">>) = (p + 1) + Len(r[1]) + 1
<1>1. PICK r : Rests(ts, r) /\ FlattenSeq(ts) = r[1]
  BY FlattenRests
<1>2. c \in Char /\ "e" \in Char
  BY BencodeAssumption
<1>3. PICK s \in Seq(Char) : s = r[1]
  BY <1>1, <1>2, Enclosed
<1>4. PICK b \in Seq(Char) : b = s \o <<"e">> /\ Len(b) = Len(s) + 1
  <2>1. s \o <<"e">> \in Seq(Char) /\ Len(s \o <<"e">>) = Len(s) + 1
    BY <1>2
  <2> QED
    BY <2>1
<1>5. PICK a \in Seq(Char) : a = <<c>> /\ Len(a) = 1
  <2>1. <<c>> \in Seq(Char) /\ Len(<<c>>) = 1
    BY <1>2
  <2> QED
    BY <2>1
<1>6. <<c>> \o FlattenSeq(ts) \o <<"e">> = a \o b
  BY <1>1, <1>2, <1>3, <1>4, <1>5, Enclosed, Zenon
<1>7. Agrees(p, a \o b)
  BY <1>6, Zenon
<1>8. /\ Fits(p, a) => p + Len(a) \in Position /\ Agrees(p + Len(a), b)
      /\ Fits(p, a \o b) <=> Fits(p, a) /\ Fits(p + Len(a), b)
      /\ p + Len(a \o b) = p + Len(a) + Len(b)
  BY <1>7, AgreesParts, Zenon
<1>9. Fits(p, a)
  BY <1>5 DEF Fits, Position
<1>10. p + Len(a) = p + 1 /\ p + Len(a) + Len(b) = (p + 1) + Len(s) + 1
  BY <1>4, <1>5 DEF Position
<1> QED
  BY <1>1, <1>3, <1>4, <1>6, <1>8, <1>9, <1>10, Zenon

\* A list or dictionary begins with its character.
LEMMA FirstOfEnclosed ==
  ASSUME NEW c \in {"l", "d"}, NEW ts \in Seq(Seq(Char))
  PROVE  (<<c>> \o FlattenSeq(ts) \o <<"e">>)[1] = c
<1>1. PICK r : Rests(ts, r) /\ FlattenSeq(ts) = r[1]
  BY FlattenRests
<1>2. c \in Char
  BY BencodeAssumption
<1>3. /\ r[1] \o <<"e">> \in Seq(Char)
      /\ <<c>> \o FlattenSeq(ts) \o <<"e">> = <<c>> \o (r[1] \o <<"e">>)
  BY <1>1, <1>2, Enclosed
<1> QED
  BY <1>2, <1>3, Prefixed

\* bencode_dest_parse reads every value that is written at p, if all of it is there: if
\* it does so with the values in I, then with those whose items are in I.
LEMMA NextRead ==
  ASSUME text \in Seq(Char), NEW I \in SUBSET Data, DataOver(I) \subseteq Data, AllRead(I),
         NEW v \in DataOver(I), NEW p \in Position, Agrees(p, Encoded[v])
  PROVE  ReadAt(v, p, DataOver(I))
<1>1. v \in Data
  OBVIOUS
<1>2. PICK s \in Seq(Char) : s = Encoded[v] /\ Len(s) >= 1
  BY <1>1, EncodedSeq DEF Written
<1>3. Peek(p) = IF p <= Len(text) THEN s[1] ELSE BUF_EOF
  BY <1>2, FirstAgrees
<1>4. PICK range : range = RangeOf(p, p + Len(s))
  OBVIOUS
<1>5. CASE ~(p <= Len(text))
  <2>1. p > Len(text)
    BY <1>5 DEF Position
  <2>2. ParseData(Loops, p) = NULL
    BY <2>1, DataAtEnd
  <2>3. ~Fits(p, s)
    BY <1>2, <1>5 DEF Fits, Position
  <2> QED
    BY <1>2, <2>2, <2>3 DEF ReadAt, NULL
<1>6. CASE p <= Len(text) /\ v.type = "BINT"
  <2>1. v.i \in -MaxBint .. MaxBint /\ s = EncodedInt(v.i)
    BY <1>1, <1>2, <1>6, Parts, EncodedAs
  <2>2. Peek(p) = "i"
    BY <1>3, <1>6, <2>1, EncodedIntSeq
  <2>3. PICK res : res = ParseInt(p)
    OBVIOUS
  <2>4. ParseData(Loops, p) = Ranged(res, p)
    BY <2>2, <2>3, DataByFirst
  <2>5. res = IF Fits(p, s) THEN Parsed(BInt(v.i), p + Len(s)) ELSE NULL
    BY <1>2, <1>6, <2>1, <2>3, IntRead
  <2>6. Fits(p, s) => res.ok /\ res.next = p + Len(s) /\ res.data = BInt(v.i)
    BY <2>5 DEF Parsed
  <2>7. ~Fits(p, s) => ~res.ok
    BY <2>5 DEF NULL
  <2>8. range \in Nat \X Nat => Same([BInt(v.i) EXCEPT !.range = range], v, range, DataOver(I))
    BY <1>6, SameInt
  <2> QED
    BY <1>1, <1>2, <1>4, <2>4, <2>6, <2>7, <2>8, ReadBy
<1>7. CASE p <= Len(text) /\ v.type = "BSTR"
  <2>1. v.str \in Str /\ s = EncodedStr(v.str)
    BY <1>1, <1>2, <1>7, Parts, EncodedAs
  <2>2. IsDigit(Peek(p))
    BY <1>3, <1>7, <2>1, EncodedStrSeq
  <2>3. PICK res : res = ParseStr(p)
    OBVIOUS
  <2>4. ParseData(Loops, p) = Ranged(res, p)
    BY <2>2, <2>3, DataByFirst
  <2>5. res = IF Fits(p, s) THEN Parsed(BStr(v.str), p + Len(s)) ELSE NULL
    BY <1>2, <2>1, <2>3, StrRead
  <2>6. Fits(p, s) => res.ok /\ res.next = p + Len(s) /\ res.data = BStr(v.str)
    BY <2>5 DEF Parsed
  <2>7. ~Fits(p, s) => ~res.ok
    BY <2>5 DEF NULL
  <2>8. range \in Nat \X Nat => Same([BStr(v.str) EXCEPT !.range = range], v, range, DataOver(I))
    BY <1>7, SameStr
  <2> QED
    BY <1>1, <1>2, <1>4, <2>4, <2>6, <2>7, <2>8, ReadBy
<1>8. CASE p <= Len(text) /\ v.type = "BLIST"
  <2>1. v.list \in Seq(I) /\ s = <<"l">> \o FlattenSeq(ItemTexts(v.list)) \o <<"e">>
    BY <1>1, <1>2, <1>8, Parts, EncodedAs
  <2>2. PICK ts \in Seq(Seq(Char)) : ts = ItemTexts(v.list)
    <3>1. \A x \in I : Written(x)
      BY EncodedSeq
    <3> QED
      BY <2>1, <3>1, TextsSeq
  <2>3. PICK r : /\ Rests(ts, r)
                 /\ p + 1 \in Position
                 /\ Agrees(p + 1, r[1] \o <<"e">>)
                 /\ Fits(p, s) <=> Fits(p + 1, r[1] \o <<"e">>)
                 /\ p + Len(s) = (p + 1) + Len(r[1]) + 1
    <3>1. PICK c \in {"l", "d"} : c = "l"
      OBVIOUS
    <3>2. s = <<c>> \o FlattenSeq(ts) \o <<"e">>
      BY <2>1, <2>2, <3>1, Zenon
    <3>3. Agrees(p, <<c>> \o FlattenSeq(ts) \o <<"e">>)
      BY <1>2, <3>2, Zenon
    <3>4. \E r :
                /\ Rests(ts, r)
                /\ p + 1 \in Position
                /\ Agrees(p + 1, r[1] \o <<"e">>)
                /\ Fits(p, <<c>> \o FlattenSeq(ts) \o <<"e">>) <=> Fits(p + 1, r[1] \o <<"e">>)
                /\ p + Len(<<c>> \o FlattenSeq(ts) \o <<"e">>) = (p + 1) + Len(r[1]) + 1
      BY <1>8, <3>3, EnclosedAt
    <3> QED
      BY <3>2, <3>4, Zenon
  <2>4. Peek(p) = "l"
    BY <1>3, <1>8, <2>1, <2>2, FirstOfEnclosed
  <2>5. PICK loop : loop = Loops[p + 1]["BLIST"]
    OBVIOUS
  <2>6. ItemsAt(v.list, r[1], 1, p + 1, I)
    <3>1. 1 \in 1 .. Len(v.list) + 1
      BY <2>1
    <3> QED
      BY <2>1, <2>2, <2>3, <3>1, ItemsRead
  <2>7. PICK res : res = ParseList(Loops, p)
    OBVIOUS
  <2>8. ParseData(Loops, p) = Ranged(res, p)
    BY <2>4, <2>7, DataByFirst
  <2>9. ASSUME Fits(p, s)
        PROVE  /\ res.ok /\ res.next = p + Len(s)
               /\ range \in Nat \X Nat =>
                    Same([res.data EXCEPT !.range = range], v, range, DataOver(I))
    <3>1. /\ loop.ok
          /\ loop.next = (p + 1) + Len(r[1]) + 1
          /\ loop.data \in Seq(I)
          /\ Len(loop.data) = Len(v.list) + 1 - 1
          /\ \A j \in 1 .. Len(loop.data) : IsRead(loop.data[j], v.list[1 + j - 1], I)
      BY <2>3, <2>5, <2>6, <2>9 DEF ItemsAt
    <3>2. res.ok /\ res.next = p + Len(s) /\ res.data = BList(loop.data)
      BY <2>3, <2>5, <2>7, <3>1 DEF ParseList, Parsed
    <3>3. Len(loop.data) = Len(v.list) /\ \A j \in 1 .. Len(loop.data) : 1 + j - 1 = j
      BY <2>1, <3>1
    <3>4. \A j \in 1 .. Len(loop.data) : IsRead(loop.data[j], v.list[j], I)
      BY <3>1, <3>3
    <3> QED
      BY <1>8, <3>1, <3>2, <3>3, <3>4, SameList
  <2>10. ASSUME ~Fits(p, s) PROVE ~res.ok
    BY <2>3, <2>5, <2>6, <2>7, <2>10 DEF ItemsAt, ParseList, NULL
  <2> QED
    BY <1>1, <1>2, <1>4, <2>8, <2>9, <2>10, ReadBy
<1>9. CASE p <= Len(text) /\ v.type = "BDICT"
  <2>1. v.dict \in Seq([key : Str, value : I])
        /\ s = <<"d">> \o FlattenSeq(PairTexts(v.dict)) \o <<"e">>
    BY <1>1, <1>2, <1>9, Parts, EncodedAs
  <2>2. PICK ts \in Seq(Seq(Char)) : ts = PairTexts(v.dict)
    <3>1. \A x \in I : Written(x)
      BY EncodedSeq
    <3> QED
      BY <2>1, <3>1, TextsSeq
  <2>3. PICK r : /\ Rests(ts, r)
                 /\ p + 1 \in Position
                 /\ Agrees(p + 1, r[1] \o <<"e">>)
                 /\ Fits(p, s) <=> Fits(p + 1, r[1] \o <<"e">>)
                 /\ p + Len(s) = (p + 1) + Len(r[1]) + 1
    <3>1. PICK c \in {"l", "d"} : c = "d"
      OBVIOUS
    <3>2. s = <<c>> \o FlattenSeq(ts) \o <<"e">>
      BY <2>1, <2>2, <3>1, Zenon
    <3>3. Agrees(p, <<c>> \o FlattenSeq(ts) \o <<"e">>)
      BY <1>2, <3>2, Zenon
    <3>4. \E r :
                /\ Rests(ts, r)
                /\ p + 1 \in Position
                /\ Agrees(p + 1, r[1] \o <<"e">>)
                /\ Fits(p, <<c>> \o FlattenSeq(ts) \o <<"e">>) <=> Fits(p + 1, r[1] \o <<"e">>)
                /\ p + Len(<<c>> \o FlattenSeq(ts) \o <<"e">>) = (p + 1) + Len(r[1]) + 1
      BY <1>9, <3>3, EnclosedAt
    <3> QED
      BY <3>2, <3>4, Zenon
  <2>4. Peek(p) = "d"
    BY <1>3, <1>9, <2>1, <2>2, FirstOfEnclosed
  <2>5. PICK loop : loop = Loops[p + 1]["BDICT"]
    OBVIOUS
  <2>6. PairsAt(v.dict, r[1], 1, p + 1, I)
    <3>1. 1 \in 1 .. Len(v.dict) + 1
      BY <2>1
    <3> QED
      BY <2>1, <2>2, <2>3, <3>1, PairsRead
  <2>7. PICK res : res = ParseDict(Loops, p)
    OBVIOUS
  <2>8. ParseData(Loops, p) = Ranged(res, p)
    BY <2>4, <2>7, DataByFirst
  <2>9. ASSUME Fits(p, s)
        PROVE  /\ res.ok /\ res.next = p + Len(s)
               /\ range \in Nat \X Nat =>
                    Same([res.data EXCEPT !.range = range], v, range, DataOver(I))
    <3>1. /\ loop.ok
          /\ loop.next = (p + 1) + Len(r[1]) + 1
          /\ loop.data \in Seq([key : Str, value : I])
          /\ Len(loop.data) = Len(v.dict) + 1 - 1
          /\ \A j \in 1 .. Len(loop.data) : SamePair(loop.data[j], v.dict[1 + j - 1], I)
      BY <2>3, <2>5, <2>6, <2>9 DEF PairsAt
    <3>2. res.ok /\ res.next = p + Len(s) /\ res.data = BDict(loop.data)
      BY <2>3, <2>5, <2>7, <3>1 DEF ParseDict, Parsed
    <3>3. Len(loop.data) = Len(v.dict) /\ \A j \in 1 .. Len(loop.data) : 1 + j - 1 = j
      BY <2>1, <3>1
    <3>4. \A j \in 1 .. Len(loop.data) : SamePair(loop.data[j], v.dict[j], I)
      BY <3>1, <3>3
    <3> QED
      BY <1>9, <3>1, <3>2, <3>3, <3>4, SameDict
  <2>10. ASSUME ~Fits(p, s) PROVE ~res.ok
    BY <2>3, <2>5, <2>6, <2>7, <2>10 DEF PairsAt, ParseDict, NULL
  <2> QED
    BY <1>1, <1>2, <1>4, <2>8, <2>9, <2>10, ReadBy
<1> QED
  BY <1>5, <1>6, <1>7, <1>8, <1>9, Parts

\* bencode_dest_parse reads every value that is written at p, or fails if it is cut off.
LEMMA DataRead ==
  ASSUME text \in Seq(Char)
  PROVE  AllRead(Data)
<1> DEFINE S == {I \in SUBSET Data : AllRead(I)}
<1>1. {} \in S
  BY DEF AllRead
<1>2. ASSUME NEW I \in S, DataOver(I) \subseteq Data PROVE DataOver(I) \in S
  <2>1. AllRead(DataOver(I))
    BY <1>2, NextRead DEF AllRead
  <2> QED
    BY <1>2, <2>1
<1> HIDE DEF S
<1>3. Data \in S
  BY <1>1, <1>2, LevelInduction DEF S
<1> QED
  BY <1>3 DEF S

-----------------------------------------------------------------------------
(* The properties *)

\* The text is the value's, whole or cut short; what has been read from it is the value,
\* or nothing.
ReadInv ==
  /\ value \in Value
  /\ \/ text = Encoded[value]
     \/ \E n \in 0 .. Len(Encoded[value]) - 1 : text = SubSeq(Encoded[value], 1, n)
  /\ Done => IF Whole
             THEN /\ result.ok
                  /\ result.next = Len(text) + 1
                  /\ IsRead(result.data, value, Data)
             ELSE ~result.ok

\* The text agrees with the one of the value, and all of it is there only if it was not cut.
LEMMA TextAgrees ==
  ASSUME ReadInv
  PROVE  /\ value \in Data
         /\ text \in Seq(Char)
         /\ 1 \in Position
         /\ Agrees(1, Encoded[value])
         /\ Fits(1, Encoded[value]) <=> Whole
         /\ Whole => 1 + Len(Encoded[value]) = Len(text) + 1
<1>1. value \in Data
  BY BencodeAssumption DEF ReadInv
<1>2. PICK s \in Seq(Char) : s = Encoded[value]
  BY <1>1, EncodedSeq DEF Written
<1>3. /\ text \in Seq(Char)
      /\ \A j \in 1 .. Len(s) : 1 + j - 1 <= Len(text) => text[1 + j - 1] = s[j]
      /\ 1 + Len(s) <= Len(text) + 1 <=> text = s
  <2>1. CASE text = s
    BY <2>1
  <2>2. CASE text # s
    <3>1. PICK n \in 0 .. Len(s) - 1 : text = SubSeq(s, 1, n)
      BY <1>2, <2>2 DEF ReadInv
    <3>2. \A i \in 1 .. n : s[i] \in Char
      OBVIOUS
    <3>3. /\ SubSeq(s, 1, n) \in Seq(Char)
          /\ Len(SubSeq(s, 1, n)) = IF 1 <= n THEN n - 1 + 1 ELSE 0
          /\ \A i \in 1 .. n - 1 + 1 : SubSeq(s, 1, n)[i] = s[1 + i - 1]
      BY <3>2, SubSeqProperties
    <3>4. text \in Seq(Char) /\ Len(text) = n /\ \A i \in 1 .. n : text[i] = s[i]
      BY <3>1, <3>3
    <3> QED
      BY <2>2, <3>4
  <2> QED
    BY <2>1, <2>2
<1>4. 1 \in Position
  BY <1>3 DEF Position
<1> QED
  BY <1>1, <1>2, <1>3, <1>4 DEF Agrees, Fits, Whole

\* Every text that comes from a value, whole or cut short, is read as that value, or
\* refused.
THEOREM ReadAlways == Spec => []ReadInv
<1>1. Init => ReadInv
  BY DEF Init, ReadInv, Done
<1>2. ReadInv /\ [Next]_vars => ReadInv'
  <2> SUFFICES ASSUME ReadInv, [Next]_vars PROVE ReadInv'
    OBVIOUS
  <2>1. ASSUME NEW n \in 0 .. Len(text) - 1, Truncate(n) PROVE ReadInv'
    <3>1. value' = value /\ result' = Pending
      BY <2>1 DEF Truncate
    <3>2. text' = SubSeq(Encoded[value], 1, n) /\ n \in 0 .. Len(Encoded[value]) - 1
      BY <2>1 DEF Truncate
    <3> QED
      BY <3>1, <3>2 DEF ReadInv, Done
  <2>2. CASE Parse
    <3>1. value' = value /\ text' = text /\ result' = ParseData(Loops, 1)
      BY <2>2 DEF Parse
    <3>2. ReadAt(value, 1, Data)
      BY TextAgrees, DataRead DEF AllRead
    <3>3. IF Whole THEN /\ result'.ok
                        /\ result'.next = Len(text) + 1
                        /\ IsRead(result'.data, value, Data)
                   ELSE ~result'.ok
      BY <3>1, <3>2, TextAgrees DEF ReadAt
    <3> QED
      BY <3>1, <3>3 DEF ReadInv, Whole, IsRead
  <2>3. CASE UNCHANGED vars
    BY <2>3 DEF ReadInv, vars, Done, Whole, IsRead
  <2> QED
    BY <2>1, <2>2, <2>3 DEF Next
<1> QED
  BY <1>1, <1>2, PTL DEF Spec

\* bencode_parse reads back every value that is written by the rules, and consumes all
\* of its text.
THEOREM ReadBack == Spec => []RoundTrip
<1>1. ReadInv => RoundTrip
  BY BencodeAssumption DEF ReadInv, RoundTrip, IsRead
<1> QED
  BY <1>1, ReadAlways, PTL

\* bencode_parse refuses every text that was cut short, wherever it was cut.
THEOREM CutRefused == Spec => []TruncatedRefused
<1>1. ReadInv => TruncatedRefused
  BY DEF ReadInv, TruncatedRefused
<1> QED
  BY <1>1, ReadAlways, PTL

\* The range bencode_dest_parse stores with a value is the text of that value, at any
\* depth.
THEOREM RangesAlwaysExact == Spec => []RangesExact
<1>1. ReadInv => RangesExact
  BY DEF ReadInv, RangesExact, IsRead
<1> QED
  BY <1>1, ReadAlways, PTL

\* bdict_find finds a key that is there, and no other, unless another key of the
\* dictionary is the beginning of the name.
THEOREM LookupsExact == Spec => []LookupExact
<1>1. ReadInv => LookupExact
  <2> SUFFICES ASSUME ReadInv, Done, result.ok, result.data.type = "BDICT",
                      NEW name \in Names, NEW pairs, pairs = result.data.dict,
                      \A k \in DOMAIN pairs : IsPrefix(pairs[k].key, name) => pairs[k].key = name
               PROVE  IF \E k \in DOMAIN pairs : pairs[k].key = name
                      THEN \E k \in DOMAIN pairs :
                             pairs[k].key = name /\ Find(pairs, name) = pairs[k].value
                      ELSE Find(pairs, name) = NULL
    BY DEF LookupExact
  <2>1. PICK n \in Nat : DOMAIN pairs = 1 .. n
    <3>1. PICK v \in Data : v = result.data
      BY DEF ReadInv, IsRead
    <3>2. PICK I : Data = DataOver(I)
      BY BencodeAssumption, LevelEquation DEF Data
    <3>3. pairs \in Seq([key : Str, value : I])
      BY <3>1, <3>2, Parts
    <3>4. DOMAIN pairs = 1 .. Len(pairs) /\ Len(pairs) \in Nat
      BY <3>3
    <3> QED
      BY <3>4
  <2>2. name \in Seq(Char)
    BY BencodeAssumption
  <2>3. IsPrefix(name, name)
    BY <2>2 DEF IsPrefix
  <2>4. PICK found : found = {k \in DOMAIN pairs : Matches(pairs[k].key, name)}
    OBVIOUS
  <2>5. \A k \in DOMAIN pairs : k \in found <=> pairs[k].key = name
    BY <2>3, <2>4 DEF Matches
  <2>6. CASE found = {}
    BY <2>4, <2>5, <2>6 DEF Find
  <2>7. CASE found # {}
    <3>1. found \in SUBSET Nat
      BY <2>1, <2>4
    <3>2. \E k \in found : \A m \in found : k <= m
      BY <2>7, <3>1, LeastElement
    <3>3. PICK k \in found : k = CHOOSE l \in found : \A m \in found : l <= m
      BY <3>2, Zenon
    <3>4. Find(pairs, name) = pairs[k].value
      BY <2>4, <2>7, <3>3, Zenon DEF Find
    <3>5. k \in DOMAIN pairs /\ pairs[k].key = name
      BY <2>4, <2>5
    <3> QED
      BY <3>4, <3>5
  <2> QED
    BY <2>6, <2>7
<1> QED
  BY <1>1, ReadAlways, PTL

=============================================================================
