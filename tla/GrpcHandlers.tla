---------------------------- MODULE GrpcHandlers ----------------------------
(***************************************************************************)
(* What runs above an HTTP/2 session: the gRPC server's and channel's      *)
(* callbacks (src/grpc/*.cpp), and the request dispatch and push provider  *)
(* of the HTTP server.  All of them run synchronously inside feed(), on    *)
(* the session that called them.                                           *)
(*                                                                         *)
(* A request is [k, r, kind, h]: r numbers the call, kind is the method's  *)
(* handler type, h is what its handler does when it runs.                  *)
(***************************************************************************)
EXTENDS Http2Output, SequencesExt

Streaming == {"server_stream", "client_stream", "bidi_stream"}

Request(r, kind, h) == [k |-> "request", r |-> r, kind |-> kind, h |-> h]
ResponseHeaders(r, status) == [k |-> "response", r |-> r, status |-> status]
GrpcTrailers(r, code) == [k |-> "trailers", r |-> r, code |-> code]

\* The length-prefixed frame: a header of two units that holds the length.
encode_grpc_message(p) == <<0, Len(p)>> \o p
HasMessage(b) == Len(b) >= 2 /\ 2 + b[2] <= Len(b)
decode_grpc_message(b) == SubSeq(b, 3, 2 + b[2])

-----------------------------------------------------------------------------
\* stream_deframer::feed, unit by unit: a message leaves the buffer as soon
\* as it is complete.
NewApp(m) ==
  [m |-> m, buf |-> <<>>, msgs |-> <<>>, done |-> FALSE, launched |-> FALSE,
   finished |-> FALSE, suspended |-> FALSE]
KeepsBuffer(a, u) ==
  LET b == Append(a.buf, u)
  IN IF HasMessage(b)
     THEN [a EXCEPT !.msgs = Append(@, decode_grpc_message(b)), !.buf = SubSeq(b, 1, 2)]
     ELSE [a EXCEPT !.buf = b]
Deframe(a, u) ==
  LET b == Append(a.buf, u)
  IN IF HasMessage(b)
     THEN [a EXCEPT !.msgs = Append(@, decode_grpc_message(b)), !.buf = <<>>]
     ELSE [a EXCEPT !.buf = b]
deframer_feed(a, data) == FoldLeft(Deframe, a, data)

SetApp(s, sid, a) ==
  [s EXCEPT !.app = [i \in DOMAIN s.app \cup {sid} |-> IF i = sid THEN a ELSE s.app[i]]]

\* writer::write and writer::finish: neither flushes.
Write(s, sid, p) ==
  IF s.app[sid].finished THEN s
  ELSE do_submit_data(s, sid, encode_grpc_message(p), FALSE)
Finish(s, sid, code) ==
  IF s.app[sid].finished THEN s
  ELSE do_submit_trailers([s EXCEPT !.app[sid].finished = TRUE], sid,
                          GrpcTrailers(s.app[sid].m.r, code))

-----------------------------------------------------------------------------
\* The handlers of the example services: a server stream answers its request
\* twice, a client stream returns all it read, a bidi stream echoes.
Replies(kind, msgs) ==
  CASE kind = "server_stream" -> msgs \o msgs
    [] kind = "client_stream" -> <<FlattenSeq(msgs)>>
    [] kind = "bidi_stream" -> msgs

RunHandler(s, sid) ==
  LET a == s.app[sid]
      write(t, p) == Write(t, sid, p)
  IN Finish(FoldLeft(write, s, Replies(a.m.kind, a.msgs)), sid, "ok")

\* Launched once, at the end of the request.  A handler that suspends leaves
\* its task behind.
Launch(s, sid) ==
  LET t == [s EXCEPT !.app[sid].launched = TRUE]
  IN IF s.app[sid].launched THEN s
     ELSE IF s.app[sid].m.h = "suspends" THEN [t EXCEPT !.app[sid].suspended = TRUE]
     ELSE RunHandler(t, sid)

\* What is left of it runs later.  The result of a client stream's handler is
\* read only when the handler returns at once.
Resumed(s, sid) ==
  LET t == [s EXCEPT !.app[sid].suspended = FALSE]
  IN IF s.app[sid].m.kind = "client_stream" THEN t ELSE RunHandler(t, sid)

\* The callback the start handler installs, and the channel's own.
ServerData(s, sid, data, end) ==
  LET t == [s EXCEPT !.app[sid] = deframer_feed(@, data)]
  IN IF end THEN Launch([t EXCEPT !.app[sid].done = TRUE], sid) ELSE t
ChannelData(s, sid, data, end) ==
  [s EXCEPT !.app[sid] = [deframer_feed(@, data) EXCEPT !.done = @ \/ end]]

\* A streaming method is answered with headers at once.  Another server
\* implementation may refuse the stream.
OnStart(s, sid, m, end) ==
  LET h == do_submit_response_headers(s, sid, ResponseHeaders(m.r, "200"))
      t == SetApp([h EXCEPT !.streams[sid].data_cb = TRUE], sid, NewApp(m))
  IN IF m.k = "request" /\ m.h = "refused"
     THEN [taken |-> TRUE,
           s |-> enqueue(s, <<Control("RST_STREAM", sid, "REFUSED_STREAM")>>)]
     ELSE IF m.k = "request" /\ m.kind \in Streaming
     THEN [taken |-> TRUE,
           s |-> IF end THEN Launch([t EXCEPT !.app[sid].done = TRUE], sid) ELSE t]
     ELSE [taken |-> FALSE, s |-> s]

-----------------------------------------------------------------------------
\* server::dispatch and the request handler of a unary method.
dispatch(m, b) ==
  IF ~HasMessage(b) THEN [code |-> "internal", data |-> <<>>]
  ELSE IF m.h = "unregistered" THEN [code |-> "unimplemented", data |-> <<>>]
  ELSE IF m.h \in {"throws", "suspends"} THEN [code |-> "internal", data |-> <<>>]
  ELSE [code |-> "ok", data |-> decode_grpc_message(b)]
UnaryResponse(m, d) ==
  [hdr |-> ResponseHeaders(m.r, "200"),
   body |-> IF d.data = <<>> THEN <<>> ELSE encode_grpc_message(d.data),
   trailers |-> GrpcTrailers(m.r, d.code)]
OnRequest(m, b) == UnaryResponse(m, dispatch(m, b))

\* h2_dispatch_adapter::dispatch of the HTTP server: the page is four units.
Page(r) == <<r, r, r, r>>
HttpResponse(m) ==
  [hdr |-> ResponseHeaders(m.r, IF m.h = "suspends" THEN "500" ELSE "200"),
   body |-> IF m.h = "suspends" THEN <<>> ELSE Page(m.r), trailers |-> NoHeaders]

\* The HTTP server's push provider: a page brings one resource with it.
PushId(r) == 10 + r
OnPush(m) ==
  IF m.kind # "page" THEN <<>>
  ELSE <<[promised |-> [k |-> "promised", r |-> PushId(m.r)],
          response |-> [hdr |-> ResponseHeaders(PushId(m.r), "200"),
                        body |-> Page(PushId(m.r)), trailers |-> NoHeaders]]>>
=============================================================================
