------------------------------- MODULE Bencode -------------------------------
(***************************************************************************)
(* The bencode parser and bdict_find.  A text is a sequence of characters, *)
(* the s_dbuf being consumed is a position in it, and NULL is a result     *)
(* that is not ok.  Memory and the overflow of t_bint are left out.        *)
(*                                                                         *)
(* A behaviour takes one value, writes it by the definition of bencode,    *)
(* possibly cuts the text short, and parses it.                            *)
(***************************************************************************)
EXTENDS Integers, Sequences, SequencesExt

CONSTANTS
  Char,      \* the characters
  MaxBint,   \* the greatest t_bint
  MaxDepth,  \* how deep lists and dictionaries lie inside each other
  Value,     \* the values that are written
  Names      \* what bdict_find is asked for

VARIABLES
  value,   \* the value that was written
  text,    \* the buffer given to bencode_parse
  result   \* what it returned, or Pending

vars == <<value, text, result>>

Pending == [ok |-> FALSE, pending |-> TRUE]
NULL    == [ok |-> FALSE]

Digits == <<"0", "1", "2", "3", "4", "5", "6", "7", "8", "9">>
IsDigit(c) == Contains(Digits, c)
DigitOf(c) == (CHOOSE k \in 1 .. 10 : Digits[k] = c) - 1

\* A success: what was parsed and where the buffer begins now.
Parsed(data, next) == [ok |-> TRUE, data |-> data, next |-> next]

\* s_bdata.  The range is not set before the value has been read.
NoRange == <<0, 0>>
BInt(n) == [type |-> "BINT", i |-> n, range |-> NoRange]
BStr(s) == [type |-> "BSTR", str |-> s, range |-> NoRange]
BList(items) == [type |-> "BLIST", list |-> items, range |-> NoRange]
BDict(pairs) == [type |-> "BDICT", dict |-> pairs, range |-> NoRange]

\* Faulty variants of definitions below.
Unsigned(n, negative) == n
EndOrEof(p) == p > Len(text) \/ text[p] = "e"
RangeOfData(from, next) == <<from + 1, next - 1>>
SamePrefix(key, name) == IsPrefix(name, key)

-----------------------------------------------------------------------------

\* Where the buffer may begin; at the last of these it is empty.
Position == 1 .. Len(text) + 1

\* buf_peek; after the last character it returns BUF_EOF.
BUF_EOF == "EOF"
Peek(p) == IF p > Len(text) THEN BUF_EOF ELSE text[p]

\* parse_uint; n is what has been read of the number.
ParseUint(p, stop) ==
  LET digits[q \in Position] ==
        [n \in Nat |->
           IF Peek(q) = stop THEN Parsed(n, q + 1)
           ELSE IF IsDigit(Peek(q)) THEN digits[q + 1][n * 10 + DigitOf(Peek(q))]
           ELSE NULL]
  IN digits[p][0]

Signed(n, negative) == IF negative THEN -n ELSE n

\* parse_int and bencode_int_parse, from the "i" on.
ParseInt(p) ==
  LET negative == Peek(p + 1) = "-"
      n == ParseUint(IF negative THEN p + 2 ELSE p + 1, "e")
  IN IF n.ok THEN Parsed(BInt(Signed(n.data, negative)), n.next) ELSE NULL

\* bencode_str_parse.
ParseStr(p) ==
  LET size == ParseUint(p, ":")
  IN IF ~size.ok THEN NULL
     ELSE IF size.data > Len(text) - size.next + 1 THEN NULL
     ELSE Parsed(BStr(SubSeq(text, size.next, size.next + size.data - 1)),
                 size.next + size.data)

\* res->range: the part of the buffer a value was read from.
RangeOf(from, next) == <<from, next - 1>>

\* Whether the loop over the items of a list or dictionary is at its end.
AtEnd(p) == Peek(p) = "e"

\* The loops of bencode_list_parse and bencode_dict_parse call bencode_dest_parse, which
\* calls them.  In the definitions below loops[q][type] is what such a loop makes of the
\* text from q on: the items or pairs that are left.

\* bencode_list_parse and bencode_dict_parse, from the first character on.
ParseList(loops, p) ==
  LET items == loops[p + 1]["BLIST"]
  IN IF items.ok THEN Parsed(BList(items.data), items.next) ELSE NULL

ParseDict(loops, p) ==
  LET pairs == loops[p + 1]["BDICT"]
  IN IF pairs.ok THEN Parsed(BDict(pairs.data), pairs.next) ELSE NULL

\* bencode_dest_parse.
ParseData(loops, p) ==
  LET c == Peek(p)
      res == CASE c = "l" -> ParseList(loops, p)
               [] c = "d" -> ParseDict(loops, p)
               [] c = "i" -> ParseInt(p)
               [] IsDigit(c) -> ParseStr(p)
               [] OTHER -> NULL
  IN IF res.ok
     THEN Parsed([res.data EXCEPT !.range = RangeOf(p, res.next)], res.next)
     ELSE NULL

\* blist_parse_item, and the rest of the loop behind it.
ParseItems(loops, p) ==
  IF AtEnd(p) THEN Parsed(<< >>, p + 1)
  ELSE LET item == ParseData(loops, p)
           others == loops[item.next]["BLIST"]
       IN IF item.ok /\ others.ok
          THEN Parsed(<<item.data>> \o others.data, others.next)
          ELSE NULL

\* bdict_parse_item, and the rest of the loop behind it.
ParsePairs(loops, p) ==
  IF AtEnd(p) THEN Parsed(<< >>, p + 1)
  ELSE LET key == ParseStr(p)
           item == ParseData(loops, key.next)
           others == loops[item.next]["BDICT"]
       IN IF key.ok /\ item.ok /\ others.ok
          THEN Parsed(<<[key |-> key.data.str, value |-> item.data]>> \o others.data, others.next)
          ELSE NULL

\* What the loops make of every part of the text.
Loops[p \in Position] ==
  [type \in {"BLIST", "BDICT"} |->
     IF type = "BLIST" THEN ParseItems(Loops, p) ELSE ParsePairs(Loops, p)]

\* The test of bdict_find: strncmp on the length of the key in the dictionary.
Matches(key, name) == IsPrefix(key, name)

\* bdict_find: the value of the first key that matches, or NULL.
Find(pairs, name) ==
  LET found == {k \in DOMAIN pairs : Matches(pairs[k].key, name)}
  IN IF found = {} THEN NULL
     ELSE pairs[CHOOSE k \in found : \A m \in found : k <= m].value

-----------------------------------------------------------------------------
(* The reference: values and how they are written. *)

Str == {s \in Seq(Char) : Len(s) <= MaxBint}

\* The values whose items are in inner, with any ranges.
DataOver(inner) ==
  LET range == Nat \X Nat
  IN [type : {"BINT"}, i : -MaxBint .. MaxBint, range : range]
     \cup [type : {"BSTR"}, str : Str, range : range]
     \cup [type : {"BLIST"}, list : Seq(inner), range : range]
     \cup [type : {"BDICT"}, dict : Seq([key : Str, value : inner]), range : range]

\* The values with at most n lists and dictionaries around each other.
Level[n \in 0 .. MaxDepth] == DataOver(IF n = 0 THEN {} ELSE Level[n - 1])

Data == Level[MaxDepth]

Decimal[n \in 0 .. MaxBint] ==
  (IF n >= 10 THEN Decimal[n \div 10] ELSE << >>) \o <<Digits[(n % 10) + 1]>>

EncodedStr(s) == Decimal[Len(s)] \o <<":">> \o s

Encoded[v \in Data] ==
  CASE v.type = "BINT" ->
         <<"i">> \o (IF v.i < 0 THEN <<"-">> \o Decimal[-v.i] ELSE Decimal[v.i]) \o <<"e">>
    [] v.type = "BSTR" -> EncodedStr(v.str)
    [] v.type = "BLIST" ->
         <<"l">> \o FlattenSeq([k \in DOMAIN v.list |-> Encoded[v.list[k]]]) \o <<"e">>
    [] OTHER ->
         <<"d">> \o FlattenSeq([k \in DOMAIN v.dict |->
                                  EncodedStr(v.dict[k].key) \o Encoded[v.dict[k].value]]) \o <<"e">>

\* A value without the ranges.
Bare[v \in Data] ==
  CASE v.type = "BINT"  -> BInt(v.i)
    [] v.type = "BSTR"  -> BStr(v.str)
    [] v.type = "BLIST" -> BList([k \in DOMAIN v.list |-> Bare[v.list[k]]])
    [] OTHER -> BDict([k \in DOMAIN v.dict |->
                         [key |-> v.dict[k].key, value |-> Bare[v.dict[k].value]]])

\* A value and all values in it.
Within[v \in Data] ==
  {v} \cup CASE v.type = "BLIST" -> UNION {Within[v.list[k]] : k \in DOMAIN v.list}
             [] v.type = "BDICT" -> UNION {Within[v.dict[k].value] : k \in DOMAIN v.dict}
             [] OTHER -> {}

\* t_bint is signed, and a string is no longer than a t_bint can say.
ASSUME BencodeAssumption ==
  /\ MaxBint \in Nat
  /\ MaxDepth \in Nat
  /\ {Digits[k] : k \in 1 .. 10} \cup {"i", "l", "d", "e", "-", ":"} \subseteq Char
  /\ BUF_EOF \notin Char
  /\ Value \subseteq Data
  /\ \A v \in Value : Bare[v] = v
  /\ Names \subseteq Seq(Char)

-----------------------------------------------------------------------------

Init ==
  /\ value \in Value
  /\ text = Encoded[value]
  /\ result = Pending

\* The file, or the answer of the tracker, was cut short.
Truncate(n) ==
  /\ result = Pending
  /\ text = Encoded[value]
  /\ text' = SubSeq(text, 1, n)
  /\ UNCHANGED <<value, result>>

\* bencode_parse.
Parse ==
  /\ result = Pending
  /\ result' = ParseData(Loops, 1)
  /\ UNCHANGED <<value, text>>

Next == (\E n \in 0 .. Len(text) - 1 : Truncate(n)) \/ Parse

Spec == Init /\ [][Next]_vars

Whole == text = Encoded[value]

Done == result # Pending

\* Every value that is written by the rules is read back as it was, to the last
\* character of its text.
RoundTrip ==
  Done /\ Whole =>
    result.ok /\ Bare[result.data] = value /\ result.next = Len(text) + 1

\* A text that was cut anywhere is refused, not read as a shorter value.
TruncatedRefused == Done /\ ~Whole => ~result.ok

\* The range of every value, at any depth, is its own text: metainfo_init hashes
\* the range of the info dictionary.
RangesExact ==
  Done /\ result.ok =>
    \A v \in Within[result.data] : SubSeq(text, v.range[1], v.range[2]) = Encoded[v]

\* bdict_find returns the value of the key it is asked for, or NULL, in a
\* dictionary where no other key is the beginning of that key.
LookupExact ==
  Done /\ result.ok /\ result.data.type = "BDICT" =>
    LET pairs == result.data.dict
    IN \A name \in Names :
         (\A k \in DOMAIN pairs : IsPrefix(pairs[k].key, name) => pairs[k].key = name) =>
           IF \E k \in DOMAIN pairs : pairs[k].key = name
           THEN \E k \in DOMAIN pairs :
                  pairs[k].key = name /\ Find(pairs, name) = pairs[k].value
           ELSE Find(pairs, name) = NULL
=============================================================================
