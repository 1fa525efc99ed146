----------------------------- MODULE Http1Codec -----------------------------
(***************************************************************************)
(* http1_codec (src/http/http1_codec.cpp) and what it asks of the headers  *)
(* (include/async_net/http/types.hpp).  A message on the wire is a         *)
(* sequence of units: the start line with the headers, the blank line, and *)
(* the body, which is read whole once its length says it is complete.      *)
(*                                                                         *)
(* A message is [r, code, conn, upgrade, framing, n]: the request it is or *)
(* answers, the status (0 in a request), the Connection and Upgrade        *)
(* headers ("" when absent), how the length of the body is given, and that *)
(* length.                                                                 *)
(***************************************************************************)
EXTENDS Integers, Sequences, SequencesExt

Unit(kind, x) == <<kind, x>>
Line(m) == Unit("line", m)
Blank == Unit("blank", 0)
Data(r) == Unit("data", r)
Size(n) == Unit("size", n)
Crlf == Unit("crlf", 0)
Units(r, n) == [i \in 1 .. n |-> Data(r)]

\* headers::is_chunked, content_length and is_keep_alive.
is_chunked(m) == m.framing = "chunked"
has_content_length(m) == m.framing = "length"
is_keep_alive(m) == m.conn \in {"", "keep-alive"}

\* serialize writes the headers the message has; the chunked form is that of
\* other implementations: chunks of one unit, and the last one.
Chunked(m) == FlattenSeq([i \in 1 .. m.n |-> <<Size(1), Data(m.r), Crlf>>])
                \o <<Size(0), Crlf>>
serialize(m) ==
  <<Line(m), Blank>> \o IF is_chunked(m) THEN Chunked(m) ELSE Units(m.r, m.n)

-----------------------------------------------------------------------------
find_header_end(b) ==
  IF \E i \in DOMAIN b : b[i] = Blank THEN SelectInSeq(b, LAMBDA u : u = Blank) ELSE 0

Incomplete == [complete |-> FALSE, data |-> <<>>]
Whole(d) == [complete |-> TRUE, data |-> d]

\* The chunks from the front: a chunk counts once it is there with the line
\* end that follows it, the last one too.
RECURSIVE Chunks(_, _)
Chunks(b, d) ==
  IF b = <<>> THEN Incomplete
  ELSE LET n == b[1][2]
       IN IF n = 0 THEN IF Len(b) >= 2 THEN Whole(d) ELSE Incomplete
          ELSE IF n + 2 > Len(b) THEN Incomplete
          ELSE Chunks(SubSeq(b, n + 3, Len(b)), d \o SubSeq(b, 2, n + 1))

EarlyBody(b, m) ==
  IF is_chunked(m) THEN Chunks(b, <<>>)
  ELSE IF has_content_length(m) THEN Whole(b)
  ELSE Whole(<<>>)
LateBody(b, m) ==
  IF is_chunked(m) THEN Chunks(b, <<>>)
  ELSE IF has_content_length(m)
       THEN IF Len(b) <= m.n THEN Incomplete ELSE Whole(SubSeq(b, 1, m.n))
  ELSE Whole(<<>>)
parse_body(b, m) ==
  IF is_chunked(m) THEN Chunks(b, <<>>)
  ELSE IF has_content_length(m)
       THEN IF Len(b) < m.n THEN Incomplete ELSE Whole(SubSeq(b, 1, m.n))
  ELSE Whole(<<>>)

\* The whole buffer is parsed again after every read.
AfterHeaders(b) == SubSeq(b, find_header_end(b) + 1, Len(b))
Parsed(m, body) == [ok |-> body.complete, m |-> m, body |-> body.data]
NoMessage ==
  [r |-> 0, code |-> 0, conn |-> "", upgrade |-> "", framing |-> "none", n |-> 0]
Nothing == [ok |-> FALSE, m |-> NoMessage, body |-> <<>>]

parse_request(b) ==
  IF find_header_end(b) = 0 THEN Nothing
  ELSE Parsed(b[1][2], parse_body(AfterHeaders(b), b[1][2]))

\* A response that gives no length has no body, by its status, or has what
\* is there.
parse_response(b) ==
  IF find_header_end(b) = 0 THEN Nothing
  ELSE LET m == b[1][2]
           rest == AfterHeaders(b)
       IN IF has_content_length(m) \/ is_chunked(m) THEN Parsed(m, parse_body(rest, m))
          ELSE IF m.code \in {204, 304} \/ m.code \in 100 .. 199 THEN Parsed(m, Whole(<<>>))
          ELSE IF rest = <<>> THEN Nothing
          ELSE Parsed(m, Whole(rest))
=============================================================================
