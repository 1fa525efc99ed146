---------------------------- MODULE Http3Session ----------------------------
(***************************************************************************)
(* http3_session (src/http/http3_session.cpp), as operators from a session *)
(* to a session.  The QUIC connection below it is ngtcp2's, from which the *)
(* session needs this: streams that deliver bytes in order, in pieces; a   *)
(* packet that takes what fits of one write; and callbacks out of a packet *)
(* that is read.                                                           *)
(*                                                                         *)
(* A packet is [sid, data, fin]; stream -1 is the handshake.               *)
(***************************************************************************)
EXTENDS H3Frame, Qpack

CONSTANTS
  MaxUni,          \* initial_max_streams_uni: 3
  MaxBidi,         \* initial_max_streams_bidi, which is never extended: 100
  Handler(_),      \* request_handler_: the response to a request
  Pushes(_)        \* push_provider_: pairs of a promised request and a response

Colon == 58
Method == <<Colon, 1>>
Path == <<Colon, 2>>
Scheme == <<Colon, 3>>
Authority == <<Colon, 4>>
Status == <<Colon, 5>>
Host == <<72>>
Https == <<115>>
Localhost == <<108>>
Pseudo(name) == name[1] = Colon

NoRequest == [method |-> <<>>, path |-> <<>>, hdrs |-> <<>>, bd |-> <<>>]
NoResponse == [status |-> <<>>, hdrs |-> <<>>, bd |-> <<>>]
NoPromise == [has |-> FALSE, complete |-> FALSE, error |-> FALSE, resp |-> NoResponse]
NewPromise == [NoPromise EXCEPT !.has = TRUE]
NewStream ==
  [state |-> "idle", req |-> NoRequest, resp |-> NoResponse, body |-> <<>>,
   resp_body |-> <<>>, headers_complete |-> FALSE, resp_headers_complete |-> FALSE,
   end_stream |-> FALSE, reader |-> frame_reader, promise |-> NoPromise,
   shut |-> FALSE, push_id |-> -1]

\* mtu is how many bytes of a stream fit a packet; a session of another
\* implementation may leave the streams of QPACK closed.  served is a history,
\* the requests given to the handler; pushed is completed_promises_.
NewSession(mode, mtu, qpack) ==
  [mode |-> mode, mtu |-> mtu, qpack |-> qpack, alive |-> TRUE, conn |-> FALSE, hello |-> FALSE,
   handshake_done |-> FALSE, streams |-> <<>>,
   bidi |-> 0, uni |-> 0, control |-> -1, pending |-> <<>>, uni_stream_buf |-> <<>>,
   next_push_id |-> 0, max_push_id |-> 0, out |-> <<>>, served |-> <<>>, pushed |-> <<>>]

\* streams_[id] makes the entry.
At(f, x, d) == IF x \in DOMAIN f THEN f[x] ELSE d
Put(f, x, v) == [y \in DOMAIN f \cup {x} |-> IF y = x THEN v ELSE f[y]]
Stream(s, id) == At(s.streams, id, NewStream)
WithStream(s, id, ss) == [s EXCEPT !.streams = Put(@, id, ss)]

-----------------------------------------------------------------------------
\* ngtcp2_conn_writev_stream: one packet, with what fits, and with FIN when
\* all does; none after FIN.
Packet(id, data, fin) == [sid |-> id, data |-> data, fin |-> fin]
writev_stream(s, id, data, fin) ==
  LET all == Len(data) <= s.mtu
      part == IF all THEN data ELSE SubSeq(data, 1, s.mtu)
  IN IF Stream(s, id).shut THEN s
     ELSE [WithStream(s, id, [Stream(s, id) EXCEPT !.shut = fin /\ all])
             EXCEPT !.out = Append(@, Packet(id, part, fin /\ all))]

\* ngtcp2_conn_open_uni_stream and _bidi_stream: the numbers of streams.
UniId(s) == 4 * s.uni + IF s.mode = "client" THEN 2 ELSE 3
CanOpenUni(s) == s.uni < MaxUni
BidiId(s) == 4 * s.bidi
CanOpenBidi(s) == s.bidi < MaxBidi

\* write_packets: what ngtcp2 has of its own, here of the handshake: the first
\* packet of either side, or the client's last.
write_packets(s, last) == [s EXCEPT !.out = Append(@, Packet(-1, <<>>, last))]
Retry == Packet(-2, <<>>, FALSE)

\* The connection of ngtcp2, with its limits: a client's sends its hello, and
\* a server's is made from one.
init_client(s) == write_packets([s EXCEPT !.conn = TRUE], FALSE)
init_server(s) == [s EXCEPT !.conn = TRUE]
init_server_from_packet(s, p) == IF p.sid = -1 THEN init_server(s) ELSE s

\* open_control_streams.
OpenUni(s, data) ==
  IF ~CanOpenUni(s) THEN s ELSE writev_stream([s EXCEPT !.uni = @ + 1], UniId(s), data, FALSE)
open_control_streams(s) ==
  IF s.control >= 0 \/ ~CanOpenUni(s) THEN s
  ELSE LET c == OpenUni([s EXCEPT !.control = UniId(s)],
                        encode_varint(CONTROL) \o build_settings_frame(6, 8))
       IN IF s.qpack THEN OpenUni(OpenUni(c, encode_varint(QPACK_ENCODER)), encode_varint(QPACK_DECODER))
          ELSE c

-----------------------------------------------------------------------------
\* Messages as field sections and frames.  The host is sent as :authority and
\* again as the Host header, but not in a promise.
Body(bd) == IF bd = <<>> THEN <<>> ELSE build_data_frame(bd)
StartFields(req) == <<<<Method, req.method>>, <<Path, req.path>>, <<Scheme, Https>>>>
AuthorityFields(req) ==
  LET named == SelectSeq(req.hdrs, LAMBDA h : h[1] \in {Authority, Host})
  IN IF named = <<>> THEN <<>> ELSE <<<<Authority, Last(named)[2]>>>>
RequestFields(req) ==
  StartFields(req) \o AuthorityFields(req) \o SelectSeq(req.hdrs, LAMBDA h : ~Pseudo(h[1]))
PromiseAuthority(req) ==
  LET named == SelectSeq(req.hdrs, LAMBDA h : h[1] = Host)
  IN <<Authority, IF named = <<>> THEN Localhost ELSE named[1][2]>>
PromiseFields(req) ==
  Append(StartFields(req), PromiseAuthority(req)) \o SelectSeq(req.hdrs, LAMBDA h : h[1] # Host)
RequestFrames(req) == build_headers_frame(encode_static(RequestFields(req))) \o Body(req.bd)
ResponseFields(resp) == <<<<Status, resp.status>>>> \o resp.hdrs
ResponseFrames(resp) == build_headers_frame(encode_static(ResponseFields(resp))) \o Body(resp.bd)

\* submit_request after the handshake, and submit_queued_request: a stream,
\* and one packet; nothing, when the stream cannot be opened, which a queued
\* request, the first of its connection, does not meet.
Submit(s, req) ==
  LET id == BidiId(s)
      opened == WithStream([s EXCEPT !.bidi = @ + 1], id,
                  [NewStream EXCEPT !.state = "open", !.promise = NewPromise])
  IN IF CanOpenBidi(s) THEN writev_stream(opened, id, RequestFrames(req), TRUE) ELSE s
submit_request(s, req) ==
  IF ~s.conn THEN s
  ELSE IF ~s.handshake_done THEN [s EXCEPT !.pending = <<req>>] ELSE Submit(s, req)
submit_queued_request(s) ==
  IF s.pending = <<>> THEN s ELSE Submit([s EXCEPT !.pending = <<>>], s.pending[1])

submit_response(s, id, resp) == writev_stream(s, id, ResponseFrames(resp), TRUE)

\* do_submit_push: MAX_PUSH_ID on the control stream, the PUSH_PROMISE on the
\* stream of the request, whose FIN has been written, and a push stream, when
\* the peer lets one be opened.
do_submit_push(s, id, push) ==
  LET n == s.next_push_id
      m == IF n < s.max_push_id THEN s
           ELSE [writev_stream(s, s.control, build_max_push_id_frame(n + 10), FALSE)
                   EXCEPT !.max_push_id = n + 10]
      p == writev_stream([m EXCEPT !.next_push_id = n + 1], id,
             build_push_promise_frame(n, encode_static(PromiseFields(push[1]))), FALSE)
  IN IF ~CanOpenUni(p) THEN p
     ELSE writev_stream([p EXCEPT !.uni = @ + 1], UniId(p),
            encode_varint(PUSH) \o encode_varint(n) \o ResponseFrames(push[2]), TRUE)

-----------------------------------------------------------------------------
\* dispatch_request: the handler, the response, the pushes.
dispatch_request(s, id) ==
  LET req == [Stream(s, id).req EXCEPT !.bd = Stream(s, id).body]
      answered == submit_response([s EXCEPT !.served = Append(@, req)], id, Handler(req))
  IN FoldLeft(LAMBDA t, push : do_submit_push(t, id, push), answered, Pushes(req))

\* A field of a request, and of a response.
RequestField(req, h) ==
  CASE h[1] = Method -> [req EXCEPT !.method = h[2]]
    [] h[1] = Path -> [req EXCEPT !.path = h[2]]
    [] h[1] = Authority -> [req EXCEPT !.hdrs = Append(@, <<Host, h[2]>>)]
    [] Pseudo(h[1]) /\ h[1] \notin {Method, Path, Authority} -> req
    [] ~Pseudo(h[1]) -> [req EXCEPT !.hdrs = Append(@, h)]
ResponseField(resp, h) ==
  CASE h[1] = Status -> [resp EXCEPT !.status = h[2]]
    [] Pseudo(h[1]) /\ h[1] # Status -> resp
    [] ~Pseudo(h[1]) -> [resp EXCEPT !.hdrs = Append(SelectSeq(@, LAMBDA g : g[1] # h[1]), h)]

\* The frames of a stream.  end_stream is set after all of them, so that they
\* neither dispatch the request nor complete the promise.
handle_request_headers(ss, p) ==
  [ss EXCEPT !.headers_complete = TRUE, !.req = FoldLeft(RequestField, @, decode(p))]
handle_response_headers(ss, p) ==
  [ss EXCEPT !.resp_headers_complete = TRUE, !.resp = FoldLeft(ResponseField, @, decode(p))]
handle_request_data(ss, p) == [ss EXCEPT !.body = @ \o p]
handle_response_data(ss, p) == [ss EXCEPT !.resp_body = @ \o p]
OnFrame(mode, ss, f) ==
  CASE f.type = HEADERS /\ mode = "server" -> handle_request_headers(ss, f.p)
    [] f.type = HEADERS /\ mode = "client" -> handle_response_headers(ss, f.p)
    [] f.type = DATA /\ mode = "server" -> handle_request_data(ss, f.p)
    [] f.type = DATA /\ mode = "client" -> handle_response_data(ss, f.p)
    [] f.type \notin {HEADERS, DATA} -> ss

Complete(ss, resp) ==
  IF ss.promise.has /\ ~ss.promise.complete
  THEN [ss EXCEPT !.promise.complete = TRUE, !.promise.resp = [resp EXCEPT !.bd = ss.resp_body]]
  ELSE ss

\* cb_recv_stream_data on the stream of a request: the frames the piece
\* completes, and with FIN the request is dispatched or the promise completed.
OnHeaders(ss, fin) == ss.headers_complete
Dispatches(ss, fin) == fin /\ ss.headers_complete
OnFrames(s, id, t) ==
  FoldLeft(LAMBDA x, f : OnFrame(s.mode, x, f),
           [Stream(s, id) EXCEPT !.reader = t.r, !.state = "open"], t.frames)
AfterFrames(s, id, ss, fin) ==
  LET ended == [ss EXCEPT !.end_stream = TRUE]
  IN CASE s.mode = "server" /\ Dispatches(ss, fin) -> dispatch_request(WithStream(s, id, ended), id)
       [] s.mode = "client" /\ fin /\ ss.resp_headers_complete ->
            WithStream(s, id, Complete(ended, ss.resp))
       [] OTHER -> WithStream(s, id, IF fin THEN ended ELSE ss)
OnBidiData(s, id, data, fin) ==
  AfterFrames(s, id, OnFrames(s, id, TakeFrames(Stream(s, id).reader, data)), fin)

\* handle_push_stream, on all of the stream so far with every piece of it:
\* one frame is read of it.
PushField(resp, h) ==
  CASE h[1] = Status -> [resp EXCEPT !.status = h[2]]
    [] Pseudo(h[1]) /\ h[1] # Status -> resp
    [] ~Pseudo(h[1]) -> [resp EXCEPT !.hdrs = Append(@, h)]
PushFrame(ss, data) ==
  LET a == feed(ss.reader, data)
      t == [ss EXCEPT !.reader = take_frame(a.r)]
  IN CASE a.r.st # "complete" -> [ss EXCEPT !.reader = a.r]
       [] a.r.st = "complete" /\ a.r.type = HEADERS ->
            [t EXCEPT !.headers_complete = TRUE, !.resp = FoldLeft(PushField, @, decode(a.r.p))]
       [] a.r.st = "complete" /\ a.r.type = DATA -> [t EXCEPT !.resp_body = @ \o a.r.p]
       [] a.r.st = "complete" /\ a.r.type \notin {HEADERS, DATA} -> t
Pushed(s, id, ss, fin) ==
  IF fin /\ ss.headers_complete
  THEN [WithStream(s, id, ss) EXCEPT !.pushed =
          Append(@, [push_id |-> ss.push_id, resp |-> [ss.resp EXCEPT !.bd = ss.resp_body]])]
  ELSE WithStream(s, id, ss)
handle_push_stream(s, id, data, fin) ==
  LET d == decode_varint(data)
      ss == Stream(s, id)
      first == ~ss.headers_complete
  IN IF first /\ d.n = 0 THEN s
     ELSE Pushed(s, id, PushFrame(IF first THEN [ss EXCEPT !.push_id = d.v] ELSE ss,
                                  IF first THEN From(data, d.n) ELSE data), fin)

\* cb_recv_stream_data on a unidirectional stream: its type, then what is its
\* own; SETTINGS and the streams of QPACK change nothing.
OnUniData(s, id, data, fin) ==
  LET buf == At(s.uni_stream_buf, id, <<>>) \o data
      d == decode_varint(buf)
      r == WithStream([s EXCEPT !.uni_stream_buf = Put(@, id, buf)], id, Stream(s, id))
  IN IF d.n > 0 /\ d.v = PUSH /\ s.mode = "client"
     THEN handle_push_stream(r, id, From(buf, d.n), fin) ELSE r

Unidirectional(id) == (id \div 2) % 2 = 1
cb_recv_stream_data(s, p) ==
  IF Unidirectional(p.sid) THEN OnUniData(s, p.sid, p.data, p.fin)
  ELSE OnBidiData(s, p.sid, p.data, p.fin)

cb_handshake_completed(s) ==
  LET o == open_control_streams([s EXCEPT !.handshake_done = TRUE])
  IN IF s.mode = "client" THEN submit_queued_request(o) ELSE o

\* cb_stream_close, after the peer reset the stream: what has come counts as
\* the response when its headers have.
cb_stream_close(s, id) ==
  LET ss == Stream(s, id)
      failed == [ss EXCEPT !.promise.complete = TRUE, !.promise.error = TRUE]
  IN IF id \notin DOMAIN s.streams THEN s
     ELSE WithStream(s, id, [
       (IF s.mode = "client" /\ ss.promise.has /\ ~ss.promise.complete
        THEN IF ss.resp_headers_complete THEN Complete(ss, NoResponse) ELSE failed
        ELSE ss) EXCEPT !.state = "closed"])

-----------------------------------------------------------------------------
\* feed_packet.  The first packet of the handshake makes the server answer;
\* the answer completes it for the client, and the client's for the server.
Dead(s) == [s EXCEPT !.alive = FALSE]
AsksRetry(s) == [Dead(s) EXCEPT !.out = <<Retry>>]
OnHandshake(s, p) ==
  IF s.mode = "client"
  THEN IF s.handshake_done THEN s ELSE write_packets(cb_handshake_completed(s), TRUE)
  ELSE IF p.fin = s.hello THEN IF p.fin THEN cb_handshake_completed(s)
                               ELSE write_packets([s EXCEPT !.hello = TRUE], FALSE)
  ELSE IF p.fin THEN Dead(s) ELSE s
feed_packet(s, p) ==
  CASE ~s.alive \/ ~s.conn -> s
    [] s.alive /\ s.conn /\ p.sid = -1 -> OnHandshake(s, p)
    [] s.alive /\ s.conn /\ p = Retry -> write_packets(s, FALSE)
    [] s.alive /\ s.conn /\ p.sid >= 0 -> cb_recv_stream_data(s, p)
get_pending_packets(s) == [s EXCEPT !.out = <<>>]
=============================================================================
