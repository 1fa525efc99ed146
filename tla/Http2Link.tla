------------------------------ MODULE Http2Link ------------------------------
(***************************************************************************)
(* A client and a server of this library on one TCP or TLS connection: the *)
(* two http2_sessions, the coroutines that feed and flush them, and the    *)
(* calls made on the client's end.  service says which pair it is:         *)
(*   "grpc"      grpc::channel with its background read_loop, any number   *)
(*               of calls at a time, and grpc::server::handle_connection;  *)
(*   "grpc_tls"  a client of another implementation (the channel has no    *)
(*               TLS yet) and grpc::server::handle_tls_connection;         *)
(*   "frpc", "frpc_tls"  the same with frpc::channel and frpc::server;     *)
(*   "http"      http::client::send, one request at a time on a session    *)
(*               taken from the pool, and https_handler::run_tls with a    *)
(*               push provider.                                            *)
(* The byte stream is reliable and ordered until it fails.  Reads and      *)
(* writes move whole frames.                                               *)
(***************************************************************************)
EXTENDS FrpcHandlers

CONSTANTS
  Services,    \* the pairs to check
  Methods,     \* methods the r-th call may be to: sets of
               \* <<handler type, what the handler does>>
  CopyCalls,   \* bound on the calls made on "grpc_tls", "frpc" and "frpc_tls"
  QuietCalls,  \* bound on the calls made when the connection or the peer fails
  MaxMessages, \* bound on the messages written to a client or bidi stream
  Settings,    \* settings an end may advertise
  Troubles     \* what may go wrong: the connection fails, or a server of
               \* another implementation pings or goes away

ASSUME LinkAssumption ==
  /\ Services \subseteq {"grpc", "grpc_tls", "frpc", "frpc_tls", "http"}
  /\ CopyCalls \in Nat
  /\ QuietCalls \in Nat
  /\ MaxMessages \in Nat
  /\ Methods \in Seq(SUBSET ((Streaming \cup {"unary", "get", "page"})
                        \X {"ok", "suspends", "throws", "unregistered", "refused"}))
  /\ Troubles \subseteq {"FAILURE", "PING", "GOAWAY"}

VARIABLES
  service,  \* which pair of applications is on the connection
  ses,      \* the session of each end
  wire,     \* frames each end has written and the other has not yet read
  flusher,  \* flushing_ and whose flush() it is: Nobody, Reader, Stranger, or the
            \* number of a call
  batch,    \* what that flush() still has to write
  link,     \* the connection is in the TLS "handshake"; it waits for the client's
            \* "preface"; it is "up"; "broken", not yet noticed; or "closed"
  call,     \* call r: how it was made and what it returned
  credit,   \* history: DATA units each end has received
  lazy,     \* history: submitted by a writer, which does not flush
  trouble   \* what went wrong, or "none"

vars == <<service, ses, wire, flusher, batch, link, call, credit, lazy, trouble>>

Ends == {"client", "server"}
Peer(e) == IF e = "client" THEN "server" ELSE "client"
Calls == DOMAIN call
Grpc == service \in {"grpc", "grpc_tls"}
Frpc == service \in {"frpc", "frpc_tls"}
Http == service = "http"
MaxCalls == IF service \in {"grpc", "http"} THEN Len(Methods) ELSE CopyCalls
Sid(r) == 2 * r - 1
Nobody == 0
Reader == -1
Stranger == -2
Up == link \in {"preface", "up"}

\* The callbacks the applications on the connection gave their sessions.
request_handler(m, b) ==
  CASE service = "http" -> HttpResponse(m)
    [] service = "grpc" -> OnRequest(m, b)
    [] service = "grpc_tls" -> TlsRequest(m, b)
    [] service = "frpc" -> FrpcRequest(m, b)
    [] service = "frpc_tls" -> FrpcTlsRequest(m, b)
request_start_handler(s, sid, m, end) ==
  CASE service = "http" -> OnStart(s, sid, m, end)
    [] service = "grpc" -> OnStart(s, sid, m, end)
    [] service = "grpc_tls" -> TlsStart(s, sid, m, end)
    [] service = "frpc" -> FrpcStart(s, sid, m, end)
    [] service = "frpc_tls" -> FrpcTlsStart(s, sid, m, end)
data_callback(s, sid, d, end) ==
  CASE s.mode = "client" /\ ~Frpc -> ChannelData(s, sid, d, end)
    [] s.mode = "client" /\ Frpc -> FrpcChannelData(s, sid, d, end)
    [] s.mode = "server" /\ service = "grpc" -> ServerData(s, sid, d, end)
    [] s.mode = "server" /\ service = "grpc_tls" -> TlsData(s, sid, d, end)
    [] s.mode = "server" /\ service = "frpc" -> FrpcData(s, sid, d, end)
    [] s.mode = "server" /\ service = "frpc_tls" -> FrpcTlsData(s, sid, d, end)

H2 == INSTANCE Http2Session WITH push_provider <- OnPush

\* connect() writes the preface, and it and the start of handle_connection
\* flush the initial SETTINGS, before they do anything else.
Connected ==
  /\ service \notin {"grpc_tls", "frpc_tls"}
  /\ \E a, b \in Settings :
       LET s == [e \in Ends |-> NewSession(e, IF e = "client" THEN a ELSE b)]
       IN /\ ses = [e \in Ends |-> get_pending_output(s[e])]
          /\ wire = [e \in Ends |-> s[e].out]
  /\ link = "preface"
Connecting ==
  /\ service \in {"grpc_tls", "frpc_tls"}
  /\ \E a, b \in Settings :
       ses = [e \in Ends |-> NewSession(e, IF e = "client" THEN a ELSE b)]
  /\ wire = [e \in Ends |-> <<>>]
  /\ link = "handshake"
Init ==
  /\ service \in Services
  /\ Connected \/ Connecting
  /\ batch = [e \in Ends |-> <<>>]
  /\ flusher = [e \in Ends |-> Nobody]
  /\ call = <<>>
  /\ credit = [e \in Ends |-> 0]
  /\ lazy = [e \in Ends |-> FALSE]
  /\ trouble = "none"

-----------------------------------------------------------------------------
\* flush(): returns at once while another flush() runs; otherwise it takes
\* the output and writes it, until there is none.
MustWait(e) == flusher[e] # Nobody
Flush(e, s, who) ==
  IF MustWait(e) \/ s.out = <<>>
  THEN /\ ses' = [ses EXCEPT ![e] = s]
       /\ UNCHANGED <<flusher, batch, lazy>>
  ELSE /\ ses' = [ses EXCEPT ![e] = get_pending_output(s)]
       /\ flusher' = [flusher EXCEPT ![e] = who]
       /\ batch' = [batch EXCEPT ![e] = s.out]
       /\ lazy' = [lazy EXCEPT ![e] = FALSE]

\* The writes of a batch.  A write that takes less is repeated before the
\* session's output is looked at again, so the batch goes out in one step;
\* flush() then takes what was submitted meanwhile.
MoreOutput(e) == ses[e].out # <<>>
Send(e) ==
  /\ Up
  /\ flusher[e] # Nobody
  /\ wire' = [wire EXCEPT ![e] = @ \o batch[e]]
  /\ IF MoreOutput(e)
     THEN /\ batch' = [batch EXCEPT ![e] = ses[e].out]
          /\ ses' = [ses EXCEPT ![e] = get_pending_output(@)]
          /\ lazy' = [lazy EXCEPT ![e] = FALSE]
          /\ UNCHANGED flusher
     ELSE /\ batch' = [batch EXCEPT ![e] = <<>>]
          /\ flusher' = [flusher EXCEPT ![e] = Nobody]
          /\ UNCHANGED <<ses, lazy>>
  /\ UNCHANGED <<service, link, call, credit, trouble>>

\* The coroutine that reads is not inside its own flush(), and the session
\* is alive.  http::client::send reads only while its request is open.
Open(r) == call[r].st = "open"
Reads(e) ==
  /\ Up
  /\ ses[e].alive
  /\ flusher[e] # Reader
  /\ e = "server" => link = "up"
  /\ (Http /\ e = "client") =>
       (flusher[e] = Nobody /\ \E r \in Calls : Open(r) /\ ses[e].promises[Sid(r)].n = 0)

DataUnits(fs) ==
  FoldLeft(LAMBDA n, f : IF f.t = "DATA" THEN n + Len(f.p) ELSE n, 0, fs)

\* One read of k frames, feed() and flush().
Feed(e, k) ==
  /\ Reads(e)
  /\ wire[Peer(e)] # <<>>
  /\ k \in {1, Len(wire[Peer(e)])}
  /\ LET fs == SubSeq(wire[Peer(e)], 1, k)
     IN /\ Flush(e, H2!feed(ses[e], fs), Reader)
        /\ credit' = [credit EXCEPT ![e] = @ + DataUnits(fs)]
  /\ wire' = [wire EXCEPT ![Peer(e)] = SubSeq(@, k + 1, Len(@))]
  /\ UNCHANGED <<service, link, call, trouble>>

\* The handshake, without which handle_tls_connection closes the socket; then
\* each end flushes its SETTINGS.
Handshake ==
  /\ link = "handshake"
  /\ link' = "preface"
  /\ wire' = [e \in Ends |-> ses[e].out]
  /\ ses' = [e \in Ends |-> get_pending_output(ses[e])]
  /\ UNCHANGED <<service, flusher, batch, call, credit, lazy, trouble>>
HandshakeFails ==
  /\ link = "handshake"
  /\ "FAILURE" \in Troubles
  /\ link' = "closed"
  /\ trouble' = "FAILURE"
  /\ UNCHANGED <<service, ses, wire, flusher, batch, call, credit, lazy>>

\* The read that completes the preface may bring the frames that follow it.
Preface(k) ==
  /\ link = "preface"
  /\ link' = "up"
  /\ k \in {0, Len(wire["client"])}
  /\ LET fs == SubSeq(wire["client"], 1, k)
     IN /\ Flush("server", H2!feed(ses["server"], fs), Reader)
        /\ credit' = [credit EXCEPT !["server"] = @ + DataUnits(fs)]
  /\ wire' = [wire EXCEPT !["client"] = SubSeq(@, k + 1, Len(@))]
  /\ UNCHANGED <<service, call, trouble>>

\* The coroutines that read: the channels', the client's, and the handlers of
\* the servers.
grpc_read_loop(k) == Grpc /\ Feed("client", k)
frpc_read_loop(k) == Frpc /\ Feed("client", k)
send_reads(k) == Http /\ Feed("client", k)
Serves(k) == Preface(k) \/ Feed("server", k)
run_tls(k) == Http /\ Serves(k)
grpc_handle_connection(k) == service = "grpc" /\ Serves(k)
grpc_handle_tls_connection(k) == service = "grpc_tls" /\ Serves(k)
frpc_handle_connection(k) == service = "frpc" /\ Serves(k)
frpc_handle_tls_connection(k) == service = "frpc_tls" /\ Serves(k)

-----------------------------------------------------------------------------
\* unary_call, server_stream_call, client_stream_call, bidi_stream_call and
\* client::send up to their flush().
Payload(r) == <<r>>
Body(kind, r) ==
  IF kind \in {"unary", "server_stream"} THEN encode_grpc_message(Payload(r)) ELSE <<>>
HasReader(kind) == kind \in {"server_stream", "bidi_stream"}
HasWriter(kind) == kind \in {"client_stream", "bidi_stream"}

Submitted(r, kind, h) ==
  LET m == IF Frpc THEN make_frpc_request(r, kind, h) ELSE Request(r, kind, h)
      s == do_submit_request(ses["client"], m, Body(kind, r), HasWriter(kind))
      t == IF kind \in Streaming THEN SetApp(s, Sid(r), NewApp(m)) ELSE s
  IN IF HasReader(kind) THEN [t EXCEPT !.streams[Sid(r)].data_cb = TRUE] ELSE t

\* connected_ is the read loop's: it is still set on a broken connection,
\* where flush() takes the output, fails, and nobody looks at its result.
NewCall(kind, h, st, code) ==
  [kind |-> kind, h |-> h, st |-> st, wrote |-> 0, code |-> code, data |-> <<>>]
StartCall(kind, h) ==
  LET r == Len(call) + 1
      s == Submitted(r, kind, h)
  IN /\ r <= MaxCalls
     /\ <<kind, h>> \in Methods[r]
     /\ link # "handshake"
     /\ Http => /\ Up
                            /\ ses["client"].alive
                            /\ flusher["client"] = Nobody
                            /\ \A q \in Calls : call[q].st = "done"
     /\ call' = Append(call, IF link = "closed"
                             THEN NewCall(kind, h, "done", "unavailable")
                             ELSE NewCall(kind, h, "open", "none"))
     /\ \/ /\ Up
           /\ Flush("client", s, r)
        \/ /\ link = "broken"
           /\ ses' = [ses EXCEPT !["client"] = get_pending_output(s)]
           /\ UNCHANGED <<flusher, batch, lazy>>
        \/ /\ link = "closed"
           /\ UNCHANGED <<ses, flusher, batch, lazy>>
     /\ UNCHANGED <<service, wire, link, credit, trouble>>

unary_call(h) == Grpc /\ StartCall("unary", h)
server_stream_call(h) == Grpc /\ StartCall("server_stream", h)
client_stream_call(h) == Grpc /\ StartCall("client_stream", h)
bidi_stream_call(h) == Grpc /\ StartCall("bidi_stream", h)
frpc_unary_call(h) == Frpc /\ StartCall("unary", h)
frpc_server_stream_call(h) == Frpc /\ StartCall("server_stream", h)
frpc_client_stream_call(h) == Frpc /\ StartCall("client_stream", h)
frpc_bidi_stream_call(h) == Frpc /\ StartCall("bidi_stream", h)
send(h) == Http /\ \E kind \in {"get", "page"} : StartCall(kind, h)
Calling(h) ==
  \/ unary_call(h)
  \/ server_stream_call(h)
  \/ client_stream_call(h)
  \/ bidi_stream_call(h)
  \/ frpc_unary_call(h)
  \/ frpc_server_stream_call(h)
  \/ frpc_client_stream_call(h)
  \/ frpc_bidi_stream_call(h)
  \/ send(h)

\* The caller of a client or bidi stream uses its writer.
WriteMessage(r) ==
  /\ Up
  /\ Open(r)
  /\ HasWriter(call[r].kind)
  /\ flusher["client"] # r
  /\ call[r].wrote < MaxMessages
  /\ ~ses["client"].app[Sid(r)].finished
  /\ ses' = [ses EXCEPT !["client"] = Write(@, Sid(r), Payload(r))]
  /\ call' = [call EXCEPT ![r].wrote = @ + 1]
  /\ lazy' = [lazy EXCEPT !["client"] = TRUE]
  /\ UNCHANGED <<service, wire, flusher, batch, link, credit, trouble>>

FinishWrites(r) ==
  /\ Up
  /\ Open(r)
  /\ HasWriter(call[r].kind)
  /\ flusher["client"] # r
  /\ ~ses["client"].app[Sid(r)].finished
  /\ ses' = [ses EXCEPT !["client"] = Finish(@, Sid(r), "ok")]
  /\ lazy' = [lazy EXCEPT !["client"] = TRUE]
  /\ UNCHANGED <<service, wire, flusher, batch, link, call, credit, trouble>>

\* A handler that had suspended goes on, outside any read loop.
HandlerResumes(sid) ==
  /\ Up
  /\ sid \in DOMAIN ses["server"].app
  /\ ses["server"].app[sid].suspended
  /\ ses' = [ses EXCEPT !["server"] = Resumed(@, sid)]
  /\ lazy' = [lazy EXCEPT !["server"] = TRUE]
  /\ UNCHANGED <<service, wire, flusher, batch, link, call, credit, trouble>>

-----------------------------------------------------------------------------
\* The end of a call: the promise is complete, the caller's flush() is over.
\* A bidi stream's caller reads until its reader is done.
Promise(r) == ses["client"].promises[Sid(r)]
Complete(r) ==
  IF call[r].kind = "bidi_stream" THEN ses["client"].app[Sid(r)].done
  ELSE Promise(r).n > 0

\* extract_grpc_status: the default is ok.
extract_grpc_status(hs) ==
  LET t == SelectSeq(hs, LAMBDA m : m.k = "trailers")
  IN IF t = <<>> THEN "ok" ELSE t[1].code
extract_frpc_status(hs) == extract_grpc_status(hs)
Result(r) ==
  LET p == Promise(r)
      code == IF Frpc THEN extract_frpc_status(p.hdrs) ELSE extract_grpc_status(p.hdrs)
      msgs == ses["client"].app[Sid(r)].msgs
  IN CASE call[r].kind = "bidi_stream" -> [code |-> "ok", data |-> msgs]
       [] p.error -> [code |-> "internal", data |-> <<>>]
       [] call[r].kind \in {"get", "page"} -> [code |-> p.hdrs[1].status, data |-> p.body]
       [] call[r].kind = "unary" /\ p.hdrs[1].status # "200" ->
            [code |-> "internal", data |-> <<>>]
       [] call[r].kind = "server_stream" -> [code |-> code, data |-> msgs]
       [] code # "ok" -> [code |-> code, data |-> <<>>]
       [] ~HasMessage(p.body) -> [code |-> "internal", data |-> <<>>]
       [] OTHER -> [code |-> "ok", data |-> decode_grpc_message(p.body)]

Return(r) ==
  /\ Open(r)
  /\ Complete(r)
  /\ flusher["client"] # r
  /\ Http => flusher["client"] = Nobody
  /\ call' = [call EXCEPT ![r].st = "done", ![r].code = Result(r).code,
                          ![r].data = Result(r).data]
  /\ UNCHANGED <<service, ses, wire, flusher, batch, link, credit, lazy, trouble>>

\* http::client::send gives up when its read loop ends without a response.
GiveUp(r) ==
  /\ Http
  /\ Open(r)
  /\ flusher["client"] = Nobody
  /\ Promise(r).n = 0
  /\ ~Up \/ ~ses["client"].alive
  /\ call' = [call EXCEPT ![r].st = "done", ![r].code = "incomplete"]
  /\ UNCHANGED <<service, ses, wire, flusher, batch, link, credit, lazy, trouble>>

\* A write fails, or the peer is gone: flush() stops, nothing that was on
\* its way arrives, and then the read loop ends.
LinkFails ==
  /\ Up
  /\ trouble = "none"
  /\ "FAILURE" \in Troubles
  /\ Len(call) <= QuietCalls
  /\ trouble' = "FAILURE"
  /\ link' = "broken"
  /\ flusher' = [e \in Ends |-> Nobody]
  /\ batch' = [e \in Ends |-> <<>>]
  /\ wire' = [e \in Ends |-> <<>>]
  /\ UNCHANGED <<service, ses, call, credit, lazy>>

ReadFails ==
  /\ link = "broken"
  /\ link' = "closed"
  /\ UNCHANGED <<service, ses, wire, flusher, batch, call, credit, lazy, trouble>>

\* The server may be another implementation, which pings or goes away.
StrangerSends(t) ==
  /\ link # "handshake"
  /\ trouble = "none"
  /\ t \in Troubles \ {"FAILURE"}
  /\ Len(call) <= QuietCalls
  /\ trouble' = t
  /\ Flush("server", enqueue(ses["server"], <<Control(t, 0, "stranger")>>), Stranger)
  /\ UNCHANGED <<service, wire, link, call, credit>>

Next ==
  \/ \E e \in Ends : Send(e)
  \/ Handshake
  \/ HandshakeFails
  \/ \E k \in 1 .. Len(wire["server"]) :
       \/ grpc_read_loop(k)
       \/ frpc_read_loop(k)
       \/ send_reads(k)
  \/ \E k \in 0 .. Len(wire["client"]) :
       \/ run_tls(k)
       \/ grpc_handle_connection(k)
       \/ grpc_handle_tls_connection(k)
       \/ frpc_handle_connection(k)
       \/ frpc_handle_tls_connection(k)
  \/ \E h \in {m[2] : m \in UNION Range(Methods)} : Calling(h)
  \/ \E r \in Calls : WriteMessage(r)
  \/ \E r \in Calls : FinishWrites(r)
  \/ \E r \in Calls : Return(r)
  \/ \E r \in Calls : GiveUp(r)
  \/ \E sid \in DOMAIN ses["server"].app : HandlerResumes(sid)
  \/ LinkFails
  \/ ReadFails
  \/ \E t \in Troubles : StrangerSends(t)

Spec == Init /\ [][Next]_vars

-----------------------------------------------------------------------------
\* A call returns what the handler of its own method answered to its own
\* request, whatever was multiplexed, split or reassembled on the way.
Echoed(r) == [i \in 1 .. call[r].wrote |-> Payload(r)]
Expected(r) ==
  LET c == call[r]
  IN CASE c.h = "refused" -> [code |-> "internal", data |-> <<>>]
       [] c.kind \in {"get", "page"} ->
            IF c.h = "suspends" THEN [code |-> "500", data |-> <<>>]
            ELSE [code |-> "200", data |-> Page(r)]
       [] c.kind = "server_stream" -> [code |-> "ok", data |-> <<Payload(r), Payload(r)>>]
       [] c.kind = "bidi_stream" -> [code |-> "ok", data |-> Echoed(r)]
       [] c.kind = "client_stream" -> [code |-> "ok", data |-> FlattenSeq(Echoed(r))]
       [] c.h = "unregistered" -> [code |-> "unimplemented", data |-> <<>>]
       [] c.h \in {"throws", "suspends"} -> [code |-> "internal", data |-> <<>>]
       [] OTHER -> [code |-> "ok", data |-> Payload(r)]
OwnAnswer ==
  \A r \in Calls :
    (call[r].st = "done" /\ call[r].code \notin {"unavailable", "incomplete"})
      => [code |-> call[r].code, data |-> call[r].data] = Expected(r)

\* Two ends of this library never find fault with each other's frames: a
\* session dies only because the peer went away.
NoProtocolError ==
  \A e \in Ends : ~ses[e].alive => trouble = "GOAWAY"

\* Credit is conserved: what an end has granted for the connection, received
\* or on its way, is exactly the data it received and has not yet replaced.
Granted(fs) ==
  FoldLeft(LAMBDA n, f : IF f.t = "WINDOW_UPDATE" /\ f.sid = 0 THEN n + f.p ELSE n, 0, fs)
CreditConserved ==
  \A e \in Ends :
    (Up /\ \A x \in Ends : ses[x].alive) =>
      (ses[Peer(e)].conn_send - DefaultWindow)
        + Granted(wire[e]) + Granted(batch[e]) + Granted(ses[e].out)
      = credit[e] - (DefaultWindow - ses[e].conn_recv)

\* No call is stranded: once every frame is written and read, no writer's
\* output lies unflushed and no handler is suspended, a call whose caller has
\* sent its whole request has its answer.  Each step but a new call or write
\* consumes a frame, so this state is reached when the callers pause.
AtRest ==
  /\ Up
  /\ trouble # "GOAWAY"
  /\ \A e \in Ends : wire[e] = <<>> /\ flusher[e] = Nobody /\ ~lazy[e]
  /\ \A sid \in DOMAIN ses["server"].app : ~ses["server"].app[sid].suspended
RequestSent(r) == HasWriter(call[r].kind) => ses["client"].app[Sid(r)].finished
NoCallStranded ==
  AtRest => \A r \in Calls : (Open(r) /\ RequestSent(r)) => Complete(r)
=============================================================================
