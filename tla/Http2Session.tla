---------------------------- MODULE Http2Session ----------------------------
(***************************************************************************)
(* The receiving half of http2_session: process_frame and the frame        *)
(* handlers, as operators from a session to a session.  The std::function  *)
(* callbacks of the class are operator constants: the application above    *)
(* the session gives them their meaning.  Padding and priority fields are  *)
(* stripped before the model sees a payload.                               *)
(***************************************************************************)
EXTENDS Http2Output, SequencesExt

CONSTANTS
  request_handler(_, _),              \* request and body to a response
  request_start_handler(_, _, _, _),  \* session, stream, request, end_stream
  data_callback(_, _, _, _),          \* session, stream, data, end_stream
  push_provider(_)                    \* request to a sequence of pushes

\* conn_recv_window_ and recv_window are topped up once under half.
LowWater(w) == w < DefaultWindow \div 2
OverGrant(w) == DefaultWindow
Increment(w) == DefaultWindow - w
TopUp(s, sid, w) ==
  IF LowWater(w) THEN enqueue(s, <<Control("WINDOW_UPDATE", sid, Increment(w))>>) ELSE s
Topped(w) == IF LowWater(w) THEN DefaultWindow ELSE w

Received(s, sid, n) ==
  LET c == s.conn_recv - n
      r == s.streams[sid].recv_window - n
  IN [TopUp(TopUp(s, 0, c), sid, r)
        EXCEPT !.conn_recv = Topped(c), !.streams[sid].recv_window = Topped(r)]

\* complete_promise moves the response and the body into the promise.
Settle(s, sid, err) ==
  IF sid \notin DOMAIN s.promises THEN s
  ELSE [s EXCEPT !.promises[sid] =
         [n |-> @.n + 1, error |-> @.error \/ err,
          hdrs |-> IF err THEN @.hdrs ELSE s.streams[sid].hdrs,
          body |-> IF err THEN @.body ELSE s.streams[sid].body]]
complete_promise(s, sid) ==
  [Settle(s, sid, FALSE) EXCEPT !.streams[sid].body = <<>>]

\* The response, then the pushes, on the buffers in that order.
dispatch_request(s, sid) ==
  LET ss == s.streams[sid]
      m == ss.hdrs[Len(ss.hdrs)]
      a == [s EXCEPT !.streams[sid].body = <<>>]
      b == do_submit_response(a, sid, request_handler(m, ss.body))
      push(t, p) == do_submit_push(t, sid, p.promised, p.response)
  IN IF s.enable_push THEN FoldLeft(push, b, push_provider(m)) ELSE b

-----------------------------------------------------------------------------
\* END_STREAM on DATA: the server dispatches unless the stream was taken by
\* the start handler, the client completes the promise.
DataEnds(s, sid) ==
  IF s.mode = "client" THEN complete_promise(s, sid)
  ELSE IF s.streams[sid].streaming_handled THEN s
  ELSE dispatch_request(s, sid)

handle_data(s, f) ==
  LET sid == f.sid
      d == IF s.streams[sid].data_cb THEN data_callback(s, sid, f.p, f.end)
           ELSE [s EXCEPT !.streams[sid].body = @ \o f.p]
      w == Received(d, sid, Len(f.p))
      e == [w EXCEPT !.streams[sid].end_stream = TRUE]
  IN IF sid = 0 THEN goaway(s, "PROTOCOL_ERROR")
     ELSE IF sid \notin DOMAIN s.streams
     THEN enqueue(s, <<Control("RST_STREAM", sid, "STREAM_CLOSED")>>)
     ELSE IF f.end THEN DataEnds(e, sid) ELSE w

Applied(s, sid, m) ==
  [s EXCEPT !.streams[sid].headers_complete = TRUE,
            !.streams[sid].hdrs = IF m = NoHeaders THEN @ ELSE Append(@, m)]

\* Server: the start handler may take the stream; otherwise a request that
\* has no body is dispatched.
BodilessIgnored(s, sid, m, end) ==
  LET a == Applied(s, sid, m)
      b == IF end THEN [a EXCEPT !.streams[sid].end_stream = TRUE] ELSE a
      h == request_start_handler(b, sid, m, end)
  IN IF h.taken THEN [h.s EXCEPT !.streams[sid].streaming_handled = TRUE] ELSE h.s
apply_headers(s, sid, m, end) ==
  LET a == Applied(s, sid, m)
      b == IF end THEN [a EXCEPT !.streams[sid].end_stream = TRUE] ELSE a
      h == request_start_handler(b, sid, m, end)
  IN IF h.taken THEN [h.s EXCEPT !.streams[sid].streaming_handled = TRUE]
     ELSE IF end THEN dispatch_request(h.s, sid) ELSE h.s

apply_response_headers(s, sid, m, end) ==
  LET a == Applied(s, sid, m)
  IN IF end THEN complete_promise([a EXCEPT !.streams[sid].end_stream = TRUE], sid)
     ELSE a

Apply(s, sid, m, end) ==
  IF s.mode = "server" THEN apply_headers(s, sid, m, end)
  ELSE apply_response_headers(s, sid, m, end)

\* A block without END_HEADERS waits for its CONTINUATION frames.
Await(s, sid, f) ==
  [s EXCEPT !.streams[sid].pending = f.p, !.continuation = sid,
            !.streams[sid].end_stream = @ \/ f.end]

\* Trailers of a stream that a data callback consumes: the callback sees the
\* end; only the client goes on to apply the trailers.
Signalled(s, sid) ==
  IF s.streams[sid].data_cb THEN data_callback(s, sid, <<>>, TRUE) ELSE s
IsTrailers(s, f) ==
  /\ f.sid \in DOMAIN s.streams
  /\ f.end
  /\ IF s.mode = "server" THEN s.streams[f.sid].streaming_handled
     ELSE s.streams[f.sid].headers_complete /\ s.streams[f.sid].data_cb
Trailers(s, f) ==
  IF s.mode = "server"
  THEN [Signalled(s, f.sid) EXCEPT !.streams[f.sid].end_stream = TRUE]
  ELSE apply_response_headers(Signalled(s, f.sid), f.sid, decode(f.p), TRUE)

handle_headers(s, f) ==
  LET sid == f.sid
      o == IF s.mode = "server"
           THEN WithStream(s, sid, [Stream(s, sid) EXCEPT !.st = "open"]) ELSE s
  IN IF sid = 0 THEN goaway(s, "PROTOCOL_ERROR")
     ELSE IF IsTrailers(s, f) THEN Trailers(s, f)
     ELSE IF s.mode = "client" /\ sid \notin DOMAIN s.streams THEN s
     ELSE IF f.eh THEN Apply(o, sid, decode(f.p), f.end)
     ELSE Await(o, sid, f)

BlockNeverEnds(s, f) ==
  LET block == s.streams[f.sid].pending \o f.p
      c == [s EXCEPT !.streams[f.sid].pending = <<>>]
  IN IF f.sid \notin DOMAIN s.streams THEN goaway(s, "PROTOCOL_ERROR")
     ELSE IF f.eh THEN Apply(c, f.sid, decode(block), s.streams[f.sid].end_stream)
     ELSE [s EXCEPT !.streams[f.sid].pending = block]
handle_continuation(s, f) ==
  LET block == s.streams[f.sid].pending \o f.p
      c == [s EXCEPT !.continuation = 0, !.streams[f.sid].pending = <<>>]
  IN IF f.sid \notin DOMAIN s.streams THEN goaway(s, "PROTOCOL_ERROR")
     ELSE IF f.eh THEN Apply(c, f.sid, decode(block), s.streams[f.sid].end_stream)
     ELSE [s EXCEPT !.streams[f.sid].pending = block]

-----------------------------------------------------------------------------
\* The ACK flag is the bit of END_STREAM.  A SETTINGS frame that is no ACK
\* carries what the peer advertises, in this order: [window, frame, push].
Ack(t) == Frame(t, 0, TRUE, FALSE, <<>>)
handle_settings(s, f) ==
  LET delta == f.p.window - s.initial_window
      w == [s EXCEPT !.streams = [i \in DOMAIN s.streams |->
              [s.streams[i] EXCEPT !.send_window = @ + delta]]]
      t == [w EXCEPT !.initial_window = f.p.window, !.max_frame = f.p.frame,
                     !.enable_push = f.p.push]
  IN IF f.end THEN s
     ELSE IF f.p.window > MaxWindow THEN goaway(s, "FLOW_CONTROL_ERROR")
     ELSE IF f.p.frame < DefaultMaxFrame
     THEN goaway([w EXCEPT !.initial_window = f.p.window], "PROTOCOL_ERROR")
     ELSE enqueue(t, <<Ack("SETTINGS")>>)

handle_ping(s, f) ==
  IF f.end THEN s ELSE enqueue(s, <<Ack("PING")>>)

handle_window_update(s, f) ==
  LET c == s.conn_send + f.p
      w == s.streams[f.sid].send_window + f.p
      a == [s EXCEPT !.conn_send = c]
      b == [s EXCEPT !.streams[f.sid].send_window = w]
  IN IF f.p = 0
     THEN IF f.sid = 0 THEN goaway(s, "PROTOCOL_ERROR")
          ELSE enqueue(s, <<Control("RST_STREAM", f.sid, "PROTOCOL_ERROR")>>)
     ELSE IF f.sid = 0
     THEN IF c > MaxWindow THEN goaway(a, "FLOW_CONTROL_ERROR") ELSE a
     ELSE IF f.sid \notin DOMAIN s.streams THEN s
     ELSE IF w > MaxWindow
     THEN enqueue(b, <<Control("RST_STREAM", f.sid, "FLOW_CONTROL_ERROR")>>) ELSE b

handle_goaway(s, f) == [s EXCEPT !.alive = FALSE]

\* The promise is failed and the stream forgotten.
handle_rst_stream(s, f) ==
  IF f.sid \notin DOMAIN s.streams THEN s
  ELSE [Settle(s, f.sid, TRUE) EXCEPT
          !.streams = [i \in DOMAIN s.streams \ {f.sid} |-> s.streams[i]]]

handle_push_promise(s, f) ==
  IF s.mode = "server" THEN goaway(s, "PROTOCOL_ERROR")
  ELSE WithPromise(WithStream(s, f.p.promised,
                              [Stream(s, f.p.promised) EXCEPT !.st = "open"]),
                   f.p.promised)

handle(s, f) ==
  CASE f.t = "DATA" -> handle_data(s, f)
    [] f.t = "HEADERS" -> handle_headers(s, f)
    [] f.t = "RST_STREAM" -> handle_rst_stream(s, f)
    [] f.t = "SETTINGS" -> handle_settings(s, f)
    [] f.t = "PUSH_PROMISE" -> handle_push_promise(s, f)
    [] f.t = "PING" -> handle_ping(s, f)
    [] f.t = "GOAWAY" -> handle_goaway(s, f)
    [] f.t = "WINDOW_UPDATE" -> handle_window_update(s, f)
    [] f.t = "CONTINUATION" -> goaway(s, "PROTOCOL_ERROR")

\* While a header block is open only its CONTINUATION is allowed.
process_frame(s, f) ==
  IF s.continuation = 0 THEN handle(s, f)
  ELSE IF f.t = "CONTINUATION" /\ f.sid = s.continuation
  THEN handle_continuation(s, f)
  ELSE goaway(s, "PROTOCOL_ERROR")

\* feed drains complete frames until the session dies.
feed(s, fs) ==
  LET step(t, f) == IF t.alive THEN process_frame(t, f) ELSE t
  IN FoldLeft(step, s, fs)
=============================================================================
