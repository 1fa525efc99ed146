---------------------------- MODULE HttpExchange ----------------------------
(***************************************************************************)
(* http::client::send with its pools of idle connections, and the server   *)
(* it talks to: the keep-alive loop of this library's http::server, or a   *)
(* server of another implementation (src/http/client_impl.cpp,             *)
(* src/http/server_impl.cpp).  Requests are sent by coroutines of one      *)
(* thread that share the client.  The exchange of frames on an HTTP/2      *)
(* connection is Http2Link; here such a connection carries whole messages. *)
(* With traffic "websocket" the client is another implementation that      *)
(* upgrades its connection and talks to an echo handler.                   *)
(***************************************************************************)
EXTENDS Http1Codec, FiniteSets

CONSTANTS
  Requests,   \* 1 .. n
  BodyLen,    \* length of the body of request r
  Setups,     \* settings of a behaviour: records [traffic, server, ssl, alpn, requests]
  Framings,   \* how another implementation frames its responses
  Scripts,    \* what a WebSocket client sends after the upgrade: frames
  MaxFaults,  \* bound on the connections that fail
  MaxConns,   \* bound on the connections that are opened
  Reads,      \* sizes a read may have; one that covers any message among them
  ShortLen, KeyLen

VARIABLES
  setup,  \* the traffic, the server's implementation, whether the client's build
          \* has TLS, the protocol that ALPN picks ("" when the URL asks for no
          \* TLS), and the number of requests
  conn,   \* connections, in the order they are opened
  pool,   \* idle connections: h1_pool_[key] and h2_pool_[key]
  node,   \* the number of the map's entry h2_pool_[key], and of the last one
  call,   \* the send() of each request
  execs,  \* history: how often the handler ran for a request
  faults, \* connections that failed
  crash,  \* the client's process died
  ws      \* the WebSocket client and the server's websocket_connection

vars == <<setup, conn, pool, node, call, execs, faults, crash, ws>>

W == INSTANCE WebSocket

Conns == DOMAIN conn
Own == setup.server = "own"
Web == setup.traffic = "http"
Tls == setup.alpn # ""
ResponseLen == 2

Request(r, c, u) ==
  [r |-> r, code |-> 0, conn |-> c, upgrade |-> u, n |-> BodyLen[r],
   framing |-> IF BodyLen[r] > 0 THEN "length" ELSE "none"]
Response(r, code, c, f) ==
  [r |-> r, code |-> code, conn |-> c, upgrade |-> "", framing |-> f,
   n |-> IF f = "none" THEN 0 ELSE ResponseLen]
Upgrade == [r |-> 0, code |-> 0, conn |-> "Upgrade", upgrade |-> "websocket",
            framing |-> "none", n |-> 0]

NewConn(proto, up) ==
  [proto |-> proto, up |-> up, down |-> <<>>, client |-> TRUE, server |-> "read",
   broken |-> FALSE, buf |-> <<>>, req |-> NoMessage]
NoWs == [script |-> <<>>, open |-> FALSE, sent |-> 0, buf |-> <<>>,
         l |-> W!Receiving, rcv |-> <<>>]
NoCall == [pc |-> "idle", k |-> 0, it |-> 0, buf |-> <<>>, code |-> 0, body |-> <<>>]

Init ==
  /\ setup \in Setups
  /\ conn = <<>>
  /\ pool = [h1 |-> <<>>, h2 |-> <<>>]
  /\ node = [cur |-> 0, last |-> 0]
  /\ call = [r \in Requests |-> NoCall]
  /\ execs = [r \in Requests |-> 0]
  /\ faults = 0
  /\ crash = FALSE
  /\ ws \in {[NoWs EXCEPT !.script = s] : s \in IF Web THEN {<<>>} ELSE Scripts}

-----------------------------------------------------------------------------
FirstOf(s, j) == SubSeq(s, 1, IF j < Len(s) THEN j ELSE Len(s))
After(s, j) == SubSeq(s, j + 1, Len(s))

\* The client.  A socket is closed with the h1_conn or h2_conn that owns it.
Sent(c, k, units) == [c EXCEPT ![k].up = @ \o units]
Closed(k) == [conn EXCEPT ![k].client = FALSE, ![k].down = <<>>]
Ended(k) == conn[k].broken \/ (conn[k].down = <<>> /\ conn[k].server = "closed")

\* The convenience functions ask for keep-alive; a new plain connection of a
\* build with TLS offers h2c instead.
Plain(r) == Request(r, "keep-alive", "")
Offer(r) == IF setup.ssl THEN Request(r, "Upgrade,HTTP2-Settings", "h2c") ELSE Plain(r)
H2Message(m) == <<Unit("h2", m)>>

\* take_h1 takes the connection that was returned last, and h2_pool_ is used the
\* same way, and its entry erased with the last connection.
PoolKeeps(s) == s
PoolTakes(s) == Front(s)
UseH2(r, it, c) ==
  LET k == Last(pool.h2)
  IN /\ pool' = [pool EXCEPT !.h2 = PoolTakes(@)]
     /\ node' = IF Len(pool.h2) = 1 THEN [node EXCEPT !.cur = 0] ELSE node
     /\ conn' = Sent(c, k, H2Message(Plain(r)))
     /\ call' = [call EXCEPT ![r] = [NoCall EXCEPT !.pc = "h2_reused", !.k = k, !.it = it]]
Reuse(r, c) ==
  LET k == Last(pool.h1)
  IN /\ pool' = [pool EXCEPT !.h1 = PoolTakes(@)]
     /\ conn' = Sent(c, k, serialize(Plain(r)))
     /\ call' = [call EXCEPT ![r] = [NoCall EXCEPT !.pc = "h1_reused", !.k = k]]
     /\ UNCHANGED node
ReuseTls(r, c) == Tls /\ Reuse(r, c)
ReusePlain(r, c) == ~Tls /\ Reuse(r, c)

\* From one await to the next: an idle HTTP/2 session, an idle connection, or
\* a new connection.
Find(r, it, c) ==
  IF it # 0 THEN UseH2(r, it, c)
  ELSE IF pool.h1 # <<>> THEN ReuseTls(r, c) \/ ReusePlain(r, c)
  ELSE /\ call' = [call EXCEPT ![r] = [NoCall EXCEPT !.pc = "connect"]]
       /\ conn' = c
       /\ UNCHANGED <<pool, node>>
Start(r) ==
  /\ Web
  /\ r <= setup.requests
  /\ call[r].pc = "idle"
  /\ Find(r, IF Tls THEN node.cur ELSE 0, conn)
  /\ UNCHANGED <<setup, execs, faults, crash, ws>>

Finish(r, code, body) ==
  call' = [call EXCEPT ![r] = [NoCall EXCEPT !.pc = "done", !.code = code, !.body = body]]

\* What a new connection carries first: the preface, SETTINGS and HEADERS when
\* ALPN picked h2, or the request.
OpensH2(r) == H2Message(Plain(r))
OpensTls(r) == serialize(Plain(r))
OpensPlain(r) == serialize(Offer(r))

\* async_connect and the handshake, whose ALPN picks the protocol, and then
\* the request.
Connect(r) ==
  /\ call[r].pc = "connect"
  /\ Len(conn) < MaxConns
  /\ conn' = Append(conn, NewConn(IF setup.alpn = "h2" THEN "h2" ELSE "h1",
               CASE setup.alpn = "h2" -> OpensH2(r)
                 [] setup.alpn = "http/1.1" -> OpensTls(r)
                 [] OTHER -> OpensPlain(r)))
  /\ call' = [call EXCEPT ![r] = [NoCall EXCEPT !.k = Len(conn) + 1,
                !.pc = IF setup.alpn = "h2" THEN "h2_new" ELSE "h1_new"]]
  /\ UNCHANGED <<setup, pool, node, execs, faults, crash, ws>>
ConnectFails(r) ==
  /\ call[r].pc = "connect"
  /\ faults < MaxFaults
  /\ faults' = faults + 1
  /\ Finish(r, 500, <<>>)
  /\ UNCHANGED <<setup, conn, pool, node, execs, crash, ws>>

\* The two tests for keep-alive: a reused connection is returned even when
\* the server says it closes.
KeepReused(m) == TRUE
KeepReusedTls(m) == TRUE
KeepNew(m) == m.conn # "close"
KeepNewTls(m) == m.conn # "close"
Keep(r, m) ==
  IF call[r].pc = "h1_reused" THEN IF Tls THEN KeepReusedTls(m) ELSE KeepReused(m)
  ELSE IF Tls THEN KeepNewTls(m) ELSE KeepNew(m)
Drained(k, j) == [conn EXCEPT ![k].down = After(@, j)]
RetriesUnkept(r, p, j, keep) ==
  /\ call' = [call EXCEPT ![r] = [NoCall EXCEPT
       !.pc = IF p.m.conn = "close" THEN "connect" ELSE "done",
       !.code = p.m.code, !.body = p.body]]
  /\ conn' = Closed(call[r].k)
  /\ UNCHANGED <<pool, node>>
Done(r, p, j, keep) ==
  /\ Finish(r, p.m.code, p.body)
  /\ IF keep
     THEN /\ pool' = [pool EXCEPT !.h1 = Append(@, call[r].k)]
          /\ conn' = Drained(call[r].k, j)
     ELSE /\ conn' = Closed(call[r].k)
          /\ UNCHANGED pool
  /\ UNCHANGED node

\* 101 to the offer of h2c: the request is submitted again on a session whose
\* SETTINGS follow no preface.
Switches(r, m) == m.code = 101 /\ call[r].pc = "h1_new" /\ setup.ssl /\ ~Tls
SwitchToH2(r, j) ==
  /\ conn' = [Drained(call[r].k, j) EXCEPT ![call[r].k].up = @ \o H2Message(Plain(r))]
  /\ call' = [call EXCEPT ![r].pc = "h2c", ![r].buf = <<>>]
  /\ UNCHANGED <<pool, node>>

\* The next j units, and the buffer parsed.
ReadsResponse(r, j) ==
  LET k == call[r].k
      b == call[r].buf \o FirstOf(conn[k].down, j)
      p == parse_response(b)
  IN /\ call[r].pc \in {"h1_reused", "h1_new"}
     /\ conn[k].down # <<>>
     /\ \/ /\ ~p.ok
           /\ conn' = Drained(k, j)
           /\ call' = [call EXCEPT ![r].buf = b]
           /\ UNCHANGED <<pool, node>>
        \/ /\ p.ok /\ Switches(r, p.m)
           /\ SwitchToH2(r, j)
        \/ /\ p.ok /\ ~Switches(r, p.m)
           /\ Done(r, p, j, Keep(r, p.m))
     /\ UNCHANGED <<setup, execs, faults, crash, ws>>

read_response(r, j) == ~Tls /\ ReadsResponse(r, j)
read_response_ssl(r, j) == Tls /\ ReadsResponse(r, j)

\* The connection ends before the response is there.  A reused connection was
\* stale: the request goes out again on a new one.
StaleConnection(r) ==
  LET k == call[r].k
  IN /\ call[r].pc = "h1_reused"
     /\ Ended(k)
     /\ conn' = Closed(k)
     /\ call' = [call EXCEPT ![r] = [NoCall EXCEPT !.pc = "connect"]]
     /\ UNCHANGED <<setup, pool, node, execs, faults, crash, ws>>
Incompleted(r) ==
  /\ call[r].pc \in {"h1_new", "h2_new", "h2c"}
  /\ Ended(call[r].k)
  /\ Finish(r, 500, <<>>)
  /\ conn' = Closed(call[r].k)
  /\ UNCHANGED <<setup, pool, node, execs, faults, crash, ws>>

\* The response on an HTTP/2 session, which is then idle again; operator[]
\* makes the entry when there is none.
ReadsH2(r) ==
  LET k == call[r].k
      m == conn[k].down[1][2]
  IN /\ conn[k].down # <<>>
     /\ Finish(r, m.code, Units(m.r, m.n))
     /\ conn' = [conn EXCEPT ![k].down = Tail(@)]
     /\ pool' = [pool EXCEPT !.h2 = Append(@, k)]
     /\ node' = IF node.cur # 0 THEN node
                ELSE [cur |-> node.last + 1, last |-> node.last + 1]
     /\ UNCHANGED <<setup, execs, faults, crash, ws>>
H2Response(r) == call[r].pc = "h2_new" /\ ReadsH2(r)
H2ReusedResponse(r) == call[r].pc = "h2_reused" /\ ReadsH2(r)

\* A reused session is broken: the loop looks at its iterator again.  When
\* its entry has been erased that is undefined: the loop ends as if the list
\* were empty, or the process dies.
Dangling(r) == call[r].it # node.cur
H2Broken(r) ==
  LET k == call[r].k
  IN /\ call[r].pc = "h2_reused"
     /\ Ended(k)
     /\ \/ /\ ~Dangling(r)
           /\ Find(r, call[r].it, Closed(k))
           /\ UNCHANGED crash
        \/ /\ Dangling(r)
           /\ Find(r, 0, Closed(k))
           /\ UNCHANGED crash
        \/ /\ Dangling(r)
           /\ crash' = TRUE
           /\ UNCHANGED <<pool, node, conn, call>>
     /\ UNCHANGED <<setup, execs, faults, ws>>

-----------------------------------------------------------------------------
\* http11_keep_alive_loop: the buffer is cleared, and a request read.
client_vars == <<setup, pool, node, call, crash>>
ServerEnds(k) ==
  \/ conn[k].broken
  \/ conn[k].up = <<>> /\ ~conn[k].client
is_websocket_upgrade(m) == m.upgrade = "websocket"
build_handshake_response == serialize(Response(0, 101, "Upgrade", "none"))
Upgraded(c) == [c EXCEPT !.server = "ws", !.buf = <<>>, !.down = @ \o build_handshake_response]
ServerReads(k, j) ==
  LET b == conn[k].buf \o FirstOf(conn[k].up, j)
      p == parse_request(b)
      c == [conn[k] EXCEPT !.up = After(@, j), !.buf = b]
  IN /\ Own
     /\ conn[k].proto = "h1"
     /\ conn[k].server = "read"
     /\ conn[k].up # <<>>
     /\ conn' = [conn EXCEPT ![k] =
          IF ~p.ok THEN c
          ELSE IF is_websocket_upgrade(p.m) THEN Upgraded(c)
          ELSE [c EXCEPT !.server = "handle", !.req = p.m, !.buf = <<>>]]
     /\ UNCHANGED <<client_vars, execs, faults, ws>>
ServerReadEnds(k) ==
  /\ Own
  /\ conn[k].proto = "h1"
  /\ \/ conn[k].server = "read"
     \/ conn[k].server = "ws" /\ ~W!parse_frame(ws.buf).ok
  /\ ServerEnds(k)
  /\ conn' = [conn EXCEPT ![k].server = "closed", ![k].up = <<>>]
  /\ UNCHANGED <<client_vars, execs, faults, ws>>

\* The handler runs, however long it takes, and its response is written with
\* the Connection and Content-Length headers of the loop.
KeepAlive(m) == is_keep_alive(m)
dispatch_request(m, c) == Response(m.r, 200, c, "length")
Handled(k) ==
  LET m == conn[k].req
      keep == KeepAlive(m)
      resp == dispatch_request(m, IF keep THEN "keep-alive" ELSE "close")
  IN /\ conn[k].server = "handle"
     /\ execs' = [execs EXCEPT ![m.r] = @ + 1]
     /\ conn' = [conn EXCEPT ![k].req = NoMessage,
          ![k].server = IF keep /\ ~conn[k].broken THEN "read" ELSE "closed",
          ![k].down = IF conn[k].client /\ ~conn[k].broken THEN @ \o serialize(resp) ELSE @]
     /\ UNCHANGED <<client_vars, faults, ws>>

\* run_tls with ALPN "h2", for both implementations.
h2_dispatch_adapter(m) == Response(m.r, 200, "", "length")
H2Serves(k) ==
  LET m == conn[k].up[1][2]
  IN /\ conn[k].proto = "h2"
     /\ conn[k].server = "read"
     /\ conn[k].up # <<>>
     /\ execs' = [execs EXCEPT ![m.r] = @ + 1]
     /\ conn' = [conn EXCEPT ![k].up = Tail(@),
          ![k].down = Append(@, Unit("h2", h2_dispatch_adapter(m)))]
     /\ UNCHANGED <<client_vars, faults, ws>>

-----------------------------------------------------------------------------
\* A server of another implementation: it may close after its answer, close
\* an idle connection at any time, and switch to h2c.
ForeignServes(k, f, c) ==
  LET p == parse_request(conn[k].up)
  IN /\ ~Own
     /\ conn[k].proto = "h1"
     /\ conn[k].server = "read"
     /\ p.ok
     /\ execs' = [execs EXCEPT ![p.m.r] = @ + 1]
     /\ conn' = [conn EXCEPT ![k].up = <<>>,
          ![k].server = IF c = "close" THEN "closed" ELSE "read",
          ![k].down = @ \o serialize(Response(p.m.r, 200, c, f))]
     /\ UNCHANGED <<client_vars, faults, ws>>
ForeignSwitches(k) ==
  LET p == parse_request(conn[k].up)
  IN /\ ~Own
     /\ conn[k].proto = "h1"
     /\ conn[k].server = "read"
     /\ p.ok /\ p.m.upgrade = "h2c"
     /\ execs' = [execs EXCEPT ![p.m.r] = @ + 1]
     /\ conn' = [conn EXCEPT ![k].up = <<>>, ![k].server = "preface",
          ![k].down = @ \o serialize(Response(p.m.r, 101, "Upgrade", "none"))]
     /\ UNCHANGED <<client_vars, faults, ws>>
ForeignCloses(k) ==
  /\ ~Own
  /\ \/ conn[k].server = "read"
     \/ conn[k].server = "preface" /\ conn[k].up # <<>>
  /\ conn' = [conn EXCEPT ![k].server = "closed", ![k].up = <<>>]
  /\ UNCHANGED <<client_vars, execs, faults, ws>>

\* The connection fails; nothing that was on its way arrives.
Breaks(k) ==
  /\ faults < MaxFaults
  /\ ~conn[k].broken
  /\ conn[k].server # "closed"
  /\ faults' = faults + 1
  /\ conn' = [conn EXCEPT ![k].broken = TRUE, ![k].up = <<>>, ![k].down = <<>>]
  /\ UNCHANGED <<client_vars, execs, ws>>

-----------------------------------------------------------------------------
\* The WebSocket client, on connection 1.
WsConnects ==
  /\ ~Web
  /\ conn = <<>>
  /\ conn' = <<NewConn("h1", serialize(Upgrade))>>
  /\ UNCHANGED <<client_vars, execs, faults, ws>>
WsOpened ==
  /\ ~Web
  /\ 1 \in Conns
  /\ ~ws.open
  /\ parse_response(conn[1].down).ok
  /\ conn' = [conn EXCEPT ![1].down = <<>>]
  /\ ws' = [ws EXCEPT !.open = TRUE]
  /\ UNCHANGED <<client_vars, execs, faults>>
WsSends ==
  /\ ws.open
  /\ conn[1].client /\ ~conn[1].broken
  /\ ws.sent < Len(ws.script)
  /\ conn' = Sent(conn, 1, W!encode(ws.script[ws.sent + 1]))
  /\ ws' = [ws EXCEPT !.sent = @ + 1]
  /\ UNCHANGED <<client_vars, execs, faults>>
WsGets ==
  LET p == W!parse_frame(conn[1].down)
  IN /\ ws.open
     /\ p.ok
     /\ conn' = [conn EXCEPT ![1].down = SubSeq(@, p.consumed + 1, Len(@))]
     /\ ws' = [ws EXCEPT !.rcv = Append(@, p.frm)]
     /\ UNCHANGED <<client_vars, execs, faults>>
WsLeaves ==
  /\ ws.open
  /\ ws.sent = Len(ws.script)
  /\ conn[1].client
  /\ conn' = [conn EXCEPT ![1].client = FALSE]
  /\ UNCHANGED <<client_vars, execs, faults, ws>>

\* read_frame: what is in the buffer first, then a read of j units.  The
\* handler echoes what receive() returns until that is empty.
ReadFrame ==
  LET p == W!parse_frame(ws.buf)
      q == W!receive(ws.l, p.frm)
      reply == q.write \o IF q.returns /\ q.msg # <<>> THEN W!encode_frame("text", q.msg)
                          ELSE <<>>
  IN /\ ~Web
     /\ 1 \in Conns
     /\ conn[1].server = "ws"
     /\ p.ok
     /\ ws' = [ws EXCEPT !.buf = SubSeq(@, p.consumed + 1, Len(@)), !.l = q.l]
     /\ conn' = [conn EXCEPT
          ![1].down = IF conn[1].client /\ ~conn[1].broken THEN @ \o reply ELSE @,
          ![1].server = IF q.returns /\ q.msg = <<>> THEN "closed" ELSE @]
     /\ UNCHANGED <<client_vars, execs, faults>>
ReadMore(j) ==
  /\ ~Web
  /\ 1 \in Conns
  /\ conn[1].server = "ws"
  /\ ~W!parse_frame(ws.buf).ok
  /\ conn[1].up # <<>>
  /\ ws' = [ws EXCEPT !.buf = @ \o FirstOf(conn[1].up, j)]
  /\ conn' = [conn EXCEPT ![1].up = After(@, j)]
  /\ UNCHANGED <<client_vars, execs, faults>>

-----------------------------------------------------------------------------
ClientSteps ==
  /\ ~crash
  /\ \E r \in Requests :
       \/ Start(r)
       \/ Connect(r)
       \/ ConnectFails(r)
       \/ \E j \in Reads : read_response(r, j)
       \/ \E j \in Reads : read_response_ssl(r, j)
       \/ StaleConnection(r)
       \/ Incompleted(r)
       \/ H2Response(r)
       \/ H2ReusedResponse(r)
       \/ H2Broken(r)
ServerSteps ==
  \E k \in Conns :
    \/ \E j \in Reads : ServerReads(k, j)
    \/ ServerReadEnds(k)
    \/ Handled(k)
    \/ H2Serves(k)
    \/ \E f \in Framings, c \in {"keep-alive", "close"} : ForeignServes(k, f, c)
    \/ ForeignSwitches(k)
    \/ ForeignCloses(k)
WsSteps ==
  \/ WsConnects \/ WsOpened \/ WsSends \/ WsGets
  \/ ReadFrame \/ \E j \in Reads : ReadMore(j)

Next == ClientSteps \/ ServerSteps \/ WsSteps \/ WsLeaves \/ \E k \in Conns : Breaks(k)

Spec == Init /\ [][Next]_vars

-----------------------------------------------------------------------------
\* A response is that of the request and has its whole body, however the
\* bytes were split and whichever connection they came on.
AnswerIsOwn ==
  \A r \in Requests :
    (call[r].pc = "done" /\ call[r].code = 200) => call[r].body = Units(r, ResponseLen)

\* While no connection fails, the handler runs at most once for a request,
\* although send() repeats it when a reused connection turns out stale.
AtMostOnce == faults = 0 => \A r \in Requests : execs[r] <= 1

\* A pooled connection is in nobody's use, is pooled once, and carries
\* nothing of the exchange before.
PoolIsIdle ==
  LET s == pool.h1 \o pool.h2
  IN /\ \A i, j \in DOMAIN s : s[i] = s[j] => i = j
     /\ \A i \in DOMAIN s :
          /\ conn[s[i]].down = <<>>
          /\ \A r \in Requests : call[r].k # s[i]

\* A send() that waits is never stranded: its connection has ended, or has
\* something for it, or the server still has something to do.
NoSendStranded ==
  \A r \in Requests :
    LET k == call[r].k
    IN k # 0 => \/ Ended(k)
                \/ conn[k].down # <<>>
                \/ conn[k].up # <<>> /\ conn[k].server \in {"read", "preface"}
                \/ conn[k].server = "handle"

\* The echo handler's answers, from the script: a pong for a ping, each
\* message once its last fragment is there, the close frame.  Control frames
\* between fragments change nothing.
IsData(f) == f.op \in {"text", "continuation"}
Begins(s, i) ==
  CHOOSE b \in 1 .. i : s[b].op = "text" /\ \A c \in b + 1 .. i : s[c].op # "text"
Joined(s, i) ==
  FlattenSeq([c \in 1 .. i |-> IF c >= Begins(s, i) /\ IsData(s[c]) THEN s[c].p ELSE <<>>])
Answer(s, i) ==
  CASE s[i].op = "ping" -> <<W!Frame(TRUE, "pong", <<>>, s[i].p)>>
    [] s[i].op = "close" -> <<W!Frame(TRUE, "close", <<>>, <<>>)>>
    [] IsData(s[i]) /\ s[i].fin -> <<W!Frame(TRUE, "text", <<>>, Joined(s, i))>>
    [] OTHER -> <<>>
Answers(s) == FlattenSeq([i \in DOMAIN s |-> Answer(s, i)])

\* websocket_connection gives the handler the messages that were sent, whole
\* and in order, however frames are fragmented, masked, mixed with control
\* frames and split over reads; and a client that stays gets every answer.
WsQuiet ==
  /\ ws.open
  /\ ws.sent = Len(ws.script)
  /\ conn[1].client /\ ~conn[1].broken
  /\ conn[1].down = <<>>
  /\ conn[1].server = "ws" => conn[1].up = <<>> /\ ~W!parse_frame(ws.buf).ok
MessagesEchoed ==
  /\ IsPrefix(ws.rcv, Answers(ws.script))
  /\ WsQuiet => ws.rcv = Answers(ws.script)
=============================================================================
