------------------------------- MODULE H3Frame -------------------------------
(***************************************************************************)
(* The frames of HTTP/3 (src/http/h3_frame.hpp): variable-length integers, *)
(* frames of a type, a length and a payload, and the reader that takes     *)
(* them from the pieces a QUIC stream delivers.  Bytes are numbers.        *)
(***************************************************************************)
EXTENDS Integers, Sequences, SequencesExt

CONSTANT Quarter  \* values of a byte beside its two bits of prefix: 64

\* A varint has one, two, four or eight bytes; the first one says how many.
Widths == <<1, 2, 4, 8>>
Byte == 4 * Quarter
Width(n) == CHOOSE i \in 1 .. 4 : /\ n < Quarter * Byte ^ (Widths[i] - 1)
                                  /\ i = 1 \/ n >= Quarter * Byte ^ (Widths[i - 1] - 1)
Digit(n, i, w) == (n \div Byte ^ (w - i)) % Byte
encode_varint(n) ==
  LET w == Widths[Width(n)]
  IN [i \in 1 .. w |-> Digit(n, i, w) + IF i = 1 THEN (Width(n) - 1) * Quarter ELSE 0]

\* decode_varint: the value and the bytes it takes, 0 when it is not all there.
Expected(byte) == Widths[byte \div Quarter + 1]
Value(b) ==
  FoldLeft(LAMBDA v, d : v * Byte + d, 0, [b EXCEPT ![1] = @ % Quarter])
decode_varint(b) ==
  IF b = <<>> \/ Len(b) < Expected(b[1]) THEN [n |-> 0, v |-> 0]
  ELSE [n |-> Expected(b[1]), v |-> Value(SubSeq(b, 1, Expected(b[1])))]

-----------------------------------------------------------------------------
DATA == 0
HEADERS == 1
SETTINGS == 4
PUSH_PROMISE == 5
MAX_PUSH_ID == 13

CONTROL == 0
PUSH == 1
QPACK_ENCODER == 2
QPACK_DECODER == 3

build_frame(type, p) == encode_varint(type) \o encode_varint(Len(p)) \o p
build_data_frame(p) == build_frame(DATA, p)
build_headers_frame(p) == build_frame(HEADERS, p)
build_settings_frame(id, v) == build_frame(SETTINGS, encode_varint(id) \o encode_varint(v))
build_push_promise_frame(id, p) == build_frame(PUSH_PROMISE, encode_varint(id) \o p)
build_max_push_id_frame(id) == build_frame(MAX_PUSH_ID, encode_varint(id))

-----------------------------------------------------------------------------
\* frame_reader: the bytes of the varint that is read, the frame so far, and
\* the next byte.  A payload of length 0 is complete when a byte follows.
frame_reader == [st |-> "type", v |-> <<>>, type |-> 0, len |-> 0, p |-> <<>>]
take_frame(r) == [r EXCEPT !.st = "type", !.p = <<>>]
feed_varint(r, byte) ==
  LET v == Append(r.v, byte)
  IN IF Len(v) < Expected(v[1]) THEN [r EXCEPT !.v = v]
     ELSE IF r.st = "type" THEN [r EXCEPT !.v = <<>>, !.type = Value(v), !.st = "length"]
     ELSE [r EXCEPT !.v = <<>>, !.len = Value(v), !.p = <<>>, !.st = "payload"]
feed_payload(r, b) ==
  LET n == IF Len(b) < r.len - Len(r.p) THEN Len(b) ELSE r.len - Len(r.p)
  IN [r |-> [r EXCEPT !.p = @ \o SubSeq(b, 1, n),
                      !.st = IF Len(r.p) + n = r.len THEN "complete" ELSE @],
      n |-> n]

\* feed: until the input ends or a frame is complete; n bytes are consumed.
RECURSIVE feed(_, _)
feed(r, b) ==
  IF b = <<>> \/ r.st = "complete" THEN [r |-> r, n |-> 0]
  ELSE IF r.st = "payload" THEN feed_payload(r, b)
  ELSE LET a == feed(feed_varint(r, b[1]), Tail(b)) IN [a EXCEPT !.n = @ + 1]

\* The loop around feed and take_frame: all frames that a piece completes.
RECURSIVE TakeFrames(_, _)
TakeFrames(r, b) ==
  LET a == feed(r, b)
  IN IF a.r.st # "complete" THEN [r |-> a.r, frames |-> <<>>]
     ELSE LET t == TakeFrames(take_frame(a.r), SubSeq(b, a.n + 1, Len(b)))
          IN [t EXCEPT !.frames = <<[type |-> a.r.type, p |-> a.r.p]>> \o @]
=============================================================================
