----------------------------- MODULE MCBencode -----------------------------
(***************************************************************************)
(* Values for Bencode: strings whose characters look like bencode, one of  *)
(* a length of two digits, and keys one of which begins with another.      *)
(***************************************************************************)
EXTENDS Bencode

Ints == {-12, 0, 10}
Strs == {<< >>, <<"1", ":">>, [k \in 1 .. 11 |-> "e"]}
Keys == {<<"a">>, <<"a", "b">>, <<"b">>}
MaxItems == 2

Scalar == {BInt(n) : n \in Ints} \cup {BStr(s) : s \in Strs}

\* Dictionaries with different keys.
Dicts ==
  UNION {{BDict([k \in 1 .. n |-> [key |-> names[k], value |-> data[k]]]) :
            names \in {f \in [1 .. n -> Keys] : \A j, k \in 1 .. n : f[j] = f[k] => j = k},
            data \in [1 .. n -> Scalar]} : n \in 0 .. MaxItems}

Flat == Scalar \cup {BList(s) : s \in SeqOf(Scalar, MaxItems)} \cup Dicts

\* A flat value inside a list and a dictionary, before and after another.
Nested ==
  UNION {{BList(<<v>>), BList(<<v, BStr(s)>>), BList(<<BInt(n), v>>),
          BDict(<<[key |-> k, value |-> v], [key |-> k \o k, value |-> BInt(n)]>>)} :
           v \in Flat, s \in Strs, n \in Ints, k \in Keys}

MCValue == Flat \cup Nested

MCChar == {Digits[k] : k \in 1 .. 10} \cup {"i", "l", "d", "e", "-", ":", "a", "b"}
=============================================================================
