------------------------------ MODULE WebSocket ------------------------------
(***************************************************************************)
(* The WebSocket layer (include/async_net/http/websocket.hpp): frames, and *)
(* websocket_connection::receive, which joins fragments and answers        *)
(* control frames.  Payloads are sequences of bits.  A frame is            *)
(* [fin, op, key, p]; key is the masking key of a client's frame, and the  *)
(* empty sequence in a frame that is not masked.                           *)
(***************************************************************************)
EXTENDS Integers, Sequences, SequencesExt

CONSTANTS
  ShortLen,  \* longest payload whose length fits the second byte: 125
  KeyLen     \* units of the masking key: 4

Frame(fin, op, key, p) == [fin |-> fin, op |-> op, key |-> key, p |-> p]
Masked(f) == f.key # <<>>

\* payload[i] ^= mask_key[i % 4]
Xor(a, b) == (a + b) % 2
Mask(p, key) == [i \in DOMAIN p |-> Xor(p[i], key[((i - 1) % KeyLen) + 1])]

\* The length is in the second byte, or in the two bytes that follow it.
Extended(n) == n > ShortLen
encode(f) ==
  <<[fin |-> f.fin, op |-> f.op],
    [masked |-> Masked(f), len |-> IF Extended(Len(f.p)) THEN -1 ELSE Len(f.p)]>>
    \o (IF Extended(Len(f.p)) THEN <<0, Len(f.p)>> ELSE <<>>)
    \o f.key
    \o (IF Masked(f) THEN Mask(f.p, f.key) ELSE f.p)
encode_frame(op, p) == encode(Frame(TRUE, op, <<>>, p))

-----------------------------------------------------------------------------
\* parse_frame: how many bytes stand before the payload, and its length, once
\* they are there.
NoFrame == [ok |-> FALSE, frm |-> Frame(TRUE, "text", <<>>, <<>>), consumed |-> 0]
Enough(b, n) == Len(b) >= n
parse_frame(b) ==
  IF ~Enough(b, 2) THEN NoFrame
  ELSE LET ext == b[2].len = -1
           pos == IF ext THEN 4 ELSE 2
           keys == IF b[2].masked THEN KeyLen ELSE 0
       IN IF Len(b) < pos + keys THEN NoFrame
          ELSE LET len == IF ext THEN b[4] ELSE b[2].len
                   key == SubSeq(b, pos + 1, pos + keys)
                   p == SubSeq(b, pos + keys + 1, pos + keys + len)
               IN IF ~Enough(b, pos + keys + len) THEN NoFrame
                  ELSE [ok |-> TRUE, consumed |-> pos + keys + len,
                        frm |-> Frame(b[1].fin, b[1].op, <<>>,
                                      IF b[2].masked THEN Mask(p, key) ELSE p)]

-----------------------------------------------------------------------------
\* The locals of receive(), and what becomes of them with a frame: an answer
\* to write, and whether receive() returns, with which message.
Receiving == [message |-> <<>>, in_fragment |-> FALSE]
Goes(l) == [l |-> l, write |-> <<>>, returns |-> FALSE, msg |-> <<>>]
Returns(msg) == [l |-> Receiving, write |-> <<>>, returns |-> TRUE, msg |-> msg]
PingRestarts(l, f) == [Goes(Receiving) EXCEPT !.write = encode_frame("pong", f.p)]
OnPing(l, f) == [Goes(l) EXCEPT !.write = encode_frame("pong", f.p)]
receive(l, f) ==
  CASE f.op = "close" -> [Returns(<<>>) EXCEPT !.write = encode_frame("close", <<>>)]
    [] f.op = "ping" -> OnPing(l, f)
    [] f.op = "pong" -> Goes(l)
    [] f.op = "text" ->
         IF f.fin THEN Returns(f.p) ELSE Goes([message |-> f.p, in_fragment |-> TRUE])
    [] f.op = "continuation" ->
         IF ~l.in_fragment THEN Returns(<<>>)
         ELSE IF f.fin THEN Returns(l.message \o f.p)
         ELSE Goes([l EXCEPT !.message = @ \o f.p])
=============================================================================
