-------------------------------- MODULE Qpack --------------------------------
(***************************************************************************)
(* The field sections of HTTP/3 (src/http/qpack.cpp), which this library   *)
(* encodes with the static table alone and whose dynamic table stays       *)
(* empty, since its SETTINGS give it no capacity.  A string is a sequence  *)
(* of characters; Huffman coding is left out.                              *)
(***************************************************************************)
EXTENDS Integers, Sequences, SequencesExt

CONSTANT StaticTable  \* [0 .. 98 -> pairs of a name and a value]

\* Integers with a prefix of some bits, under the pattern of the first byte.
Continued[n \in Nat] ==
  IF n < 128 THEN <<n>> ELSE <<(n % 128) + 128>> \o Continued[n \div 128]
qpack_encode_int(v, bits, pattern) ==
  LET max == 2 ^ bits - 1
  IN IF v < max THEN <<pattern + v>> ELSE <<pattern + max>> \o Continued[v - max]

\* What is decoded: a value and the bytes it takes, 0 for a failure.
Failed == [n |-> 0, v |-> <<>>]
LastByte(b) == SelectInSeq(b, LAMBDA d : d < 128)
PrefixOnly(b, bits) ==
  IF b = <<>> THEN [n |-> 0, v |-> 0] ELSE [n |-> 1, v |-> b[1] % 2 ^ bits]
qpack_decode_int(b, bits) ==
  LET max == 2 ^ bits - 1
      rest == Tail(b)
      n == LastByte(rest)
  IN IF b = <<>> THEN [n |-> 0, v |-> 0]
     ELSE IF b[1] % (max + 1) < max THEN [n |-> 1, v |-> b[1] % (max + 1)]
     ELSE IF n = 0 THEN [n |-> 0, v |-> 0]
     ELSE [n |-> n + 1,
           v |-> max + FoldRight(LAMBDA d, v : (d % 128) + 128 * v, SubSeq(rest, 1, n), 0)]

qpack_encode_string(s) == qpack_encode_int(Len(s), 7, 0) \o s
qpack_decode_string(b) ==
  LET d == qpack_decode_int(b, 7)
  IN IF d.n = 0 \/ d.n + d.v > Len(b) THEN Failed
     ELSE [n |-> d.n + d.v, v |-> SubSeq(b, d.n + 1, d.n + d.v)]

-----------------------------------------------------------------------------
Least(S) == IF S = {} THEN -1 ELSE CHOOSE i \in S : \A j \in S : i <= j
find_static(h) == Least({i \in DOMAIN StaticTable : StaticTable[i] = h})
find_static_name(name) == Least({i \in DOMAIN StaticTable : StaticTable[i][1] = name})

FieldLine(h) ==
  IF find_static(h) >= 0 THEN qpack_encode_int(find_static(h), 6, 192)
  ELSE IF find_static_name(h[1]) >= 0
       THEN qpack_encode_int(find_static_name(h[1]), 4, 80) \o qpack_encode_string(h[2])
  ELSE <<32>> \o qpack_encode_string(h[1]) \o qpack_encode_string(h[2])
\* The prefix of a section without dynamic entries, and its lines.
encode_static(hdrs) ==
  <<0, 0>> \o FlattenSeq([i \in DOMAIN hdrs |-> FieldLine(hdrs[i])])

-----------------------------------------------------------------------------
From(b, n) == SubSeq(b, n + 1, Len(b))
Indexed(b) ==
  LET d == qpack_decode_int(b, 6)
  IN IF d.n = 0 \/ d.v \notin DOMAIN StaticTable THEN Failed
     ELSE [n |-> d.n, v |-> StaticTable[d.v]]
NameReference(b) ==
  LET d == qpack_decode_int(b, 4)
      s == qpack_decode_string(From(b, d.n))
  IN IF d.n = 0 \/ (b[1] \div 16) % 2 = 0 \/ d.v \notin DOMAIN StaticTable \/ s.n = 0
     THEN Failed
     ELSE [n |-> d.n + s.n, v |-> <<StaticTable[d.v][1], s.v>>]
Field(k, s) ==
  IF k.n = 0 \/ s.n = 0 THEN Failed ELSE [n |-> 1 + k.n + s.n, v |-> <<k.v, s.v>>]
LiteralName(b) ==
  LET k == qpack_decode_string(From(b, 1))
  IN Field(k, qpack_decode_string(From(b, 1 + k.n)))

\* The other patterns refer to the dynamic table, and fail.
decode_field_line(b) ==
  CASE b[1] >= 192 -> Indexed(b)
    [] b[1] \in 64 .. 127 -> NameReference(b)
    [] b[1] \in 32 .. 63 -> LiteralName(b)
    [] OTHER -> Failed

\* The lines up to the first that fails.
RECURSIVE Lines(_)
AndMore(l, b) == IF l.n = 0 THEN <<>> ELSE <<l.v>> \o Lines(From(b, l.n))
Lines(b) == IF b = <<>> THEN <<>> ELSE AndMore(decode_field_line(b), b)
decode(b) == IF Len(b) < 2 THEN <<>> ELSE Lines(From(b, 2))
=============================================================================
