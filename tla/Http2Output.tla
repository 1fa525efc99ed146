----------------------------- MODULE Http2Output -----------------------------
(***************************************************************************)
(* The sending half of http2_session (src/http/http2_session.cpp): one     *)
(* session as a record, and every submit function as an operator from a    *)
(* session to a session.  A frame is a record; a header block and a body   *)
(* are sequences, so that splitting and reassembling them is modelled.     *)
(* The frame size and the windows are scaled down by the constants.        *)
(***************************************************************************)
EXTENDS Integers, Sequences, FiniteSetsExt

CONSTANTS
  DefaultWindow,    \* h2::DEFAULT_WINDOW_SIZE
  MaxWindow,        \* h2::MAX_WINDOW_SIZE
  DefaultMaxFrame,  \* h2::DEFAULT_MAX_FRAME_SIZE
  LongHeaders       \* kinds of header list whose block exceeds DefaultMaxFrame

ASSUME OutputAssumption ==
  /\ DefaultMaxFrame \in Nat \ {0}
  /\ DefaultWindow \in Nat \ {0}
  /\ MaxWindow \in Nat
  /\ DefaultWindow <= MaxWindow
  /\ LongHeaders \subseteq {"request", "response"}

Frame(t, sid, end, eh, p) ==
  [t |-> t, sid |-> sid, end |-> end, eh |-> eh, p |-> p]
Control(t, sid, p) == Frame(t, sid, FALSE, FALSE, p)

\* hpack_encoder::encode uses literals and the static table only: a block is
\* a function of the header list.  Only a whole block decodes to that list.
NoHeaders == [k |-> "none"]
HBlock(m) ==
  [i \in 1 .. (IF m.k \in LongHeaders THEN DefaultMaxFrame + 1 ELSE 1) |-> m]
decode(b) == IF b # <<>> /\ b = HBlock(b[1]) THEN b[1] ELSE NoHeaders

\* s cut into pieces of at most n.
Chunks(s, n) ==
  [i \in 1 .. (Len(s) + n - 1) \div n |->
    SubSeq(s, (i - 1) * n + 1, Min({i * n, Len(s)}))]

-----------------------------------------------------------------------------
\* stream_state and impl.  promises holds the response_promise of each stream
\* the client has one for: n counts how often it was completed.
NewStream ==
  [st |-> "idle", hdrs |-> <<>>, body |-> <<>>, headers_complete |-> FALSE,
   end_stream |-> FALSE, send_window |-> DefaultWindow,
   recv_window |-> DefaultWindow, data_cb |-> FALSE,
   streaming_handled |-> FALSE, pending |-> <<>>]

NewSession(mode, settings) ==
  [mode |-> mode, alive |-> TRUE, out |-> <<Control("SETTINGS", 0, settings)>>,
   streams |-> <<>>, promises |-> <<>>, app |-> <<>>, continuation |-> 0,
   conn_send |-> DefaultWindow, conn_recv |-> DefaultWindow,
   max_frame |-> DefaultMaxFrame, initial_window |-> DefaultWindow,
   enable_push |-> TRUE, next_id |-> 1, next_push |-> 2]

WithStream(s, sid, ss) ==
  [s EXCEPT !.streams = [i \in DOMAIN s.streams \cup {sid} |->
                           IF i = sid THEN ss ELSE s.streams[i]]]
Stream(s, sid) == IF sid \in DOMAIN s.streams THEN s.streams[sid] ELSE NewStream
SetState(s, sid, st) ==
  IF sid \in DOMAIN s.streams THEN [s EXCEPT !.streams[sid].st = st] ELSE s

enqueue(s, fs) == [s EXCEPT !.out = @ \o fs]

goaway(s, code) ==
  [enqueue(s, <<Control("GOAWAY", 0, code)>>) EXCEPT !.alive = FALSE]

-----------------------------------------------------------------------------
\* HEADERS and CONTINUATION frames of one header block.
build_headers_frame(s, sid, end, m) ==
  LET c == Chunks(HBlock(m), s.max_frame)
  IN [i \in 1 .. Len(c) |->
       Frame(IF i = 1 THEN "HEADERS" ELSE "CONTINUATION", sid,
             end /\ i = 1, i = Len(c), c[i])]

build_data_frames(s, sid, body, end) ==
  LET c == Chunks(body, s.max_frame)
  IN IF body = <<>> /\ end THEN <<Frame("DATA", sid, TRUE, FALSE, <<>>)>>
     ELSE [i \in 1 .. Len(c) |-> Frame("DATA", sid, end /\ i = Len(c), FALSE, c[i])]

\* A response is [hdr, body, trailers], trailers = NoHeaders when it has none.
do_submit_response(s, sid, r) ==
  LET bodied == r.body # <<>>
      trailed == r.trailers # NoHeaders
      h == build_headers_frame(s, sid, ~bodied /\ ~trailed, r.hdr)
      d == IF bodied THEN build_data_frames(s, sid, r.body, ~trailed) ELSE <<>>
      t == IF trailed THEN build_headers_frame(s, sid, TRUE, r.trailers) ELSE <<>>
  IN SetState(enqueue(s, h \o d \o t), sid, "closed")

do_submit_response_headers(s, sid, m) ==
  enqueue(s, build_headers_frame(s, sid, FALSE, m))

do_submit_data(s, sid, data, end) ==
  LET d == enqueue(s, IF data = <<>> THEN <<Frame("DATA", sid, end, FALSE, <<>>)>>
                      ELSE build_data_frames(s, sid, data, end))
  IN IF end THEN SetState(d, sid, "closed") ELSE d

do_submit_trailers(s, sid, m) ==
  SetState(enqueue(s, build_headers_frame(s, sid, TRUE, m)), sid, "closed")

\* The promise is handed over with the request; the id is next_stream_id_.
NewPromise == [n |-> 0, error |-> FALSE, hdrs |-> <<>>, body |-> <<>>]
WithPromise(s, sid) ==
  [s EXCEPT !.promises = [i \in DOMAIN s.promises \cup {sid} |->
                            IF i = sid THEN NewPromise ELSE s.promises[i]]]

do_submit_request(s, m, body, no_end_stream) ==
  LET sid == s.next_id
      a == WithPromise(WithStream(s, sid, [NewStream EXCEPT !.st = "open"]), sid)
      b == [a EXCEPT !.next_id = @ + 2]
      h == build_headers_frame(s, sid, body = <<>> /\ ~no_end_stream, m)
      d == IF body # <<>> THEN build_data_frames(s, sid, body, TRUE) ELSE <<>>
  IN enqueue(b, h \o d)

do_submit_push(s, parent, m, r) ==
  LET sid == s.next_push
      a == [enqueue(s, <<Control("PUSH_PROMISE", parent,
                                 [promised |-> sid, block |-> HBlock(m)])>>)
              EXCEPT !.next_push = @ + 2]
      b == WithStream(a, sid, [NewStream EXCEPT !.st = "half_closed_local"])
  IN IF s.enable_push THEN do_submit_response(b, sid, r) ELSE s

\* get_pending_output empties output_buf_.
get_pending_output(s) == [s EXCEPT !.out = <<>>]
=============================================================================
