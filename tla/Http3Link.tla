------------------------------ MODULE Http3Link ------------------------------
(***************************************************************************)
(* HTTP/3 from end to end: http::client::send_h3 with its pool of sessions *)
(* (src/http/client_impl.cpp), http::server::serve_h3 with its table of    *)
(* connections (src/http/server_impl.cpp), an http3_session on either      *)
(* side, and UDP between them.  Packets of different streams arrive in any *)
(* order; a packet may be lost, and ngtcp2 sends it again when             *)
(* handle_expiry finds its timer due.  The peer of either side may be      *)
(* another implementation, which sends its messages in pieces.             *)
(***************************************************************************)
EXTENDS Http3Session, FiniteSets

CONSTANTS
  Requests,    \* 1 .. n
  RequestOf,   \* the request of each
  Setups,      \* records [client, server, requests, calls, faults]: 0 for this
               \* library, or the size of the pieces another one sends; which
               \* requests are sent, and how many at a time; and the bound on
               \* lost packets, errors, retries and resets
  PacketSize,  \* bytes of a stream that fit a packet
  MaxRounds,   \* max_rounds: 200
  MaxIdle,     \* bound of idle_rounds: 10
  MaxReorder,  \* how many packets on their way one may overtake
  MaxConns

VARIABLES
  setup,
  conn,    \* the connections, with the sessions at both ends and the packets between
  pool,    \* h3_pool_[key]
  node,    \* the number of the map's entry h3_pool_[key], and of the last one
  call,    \* the send_h3 of each request
  faults,  \* how often each kind of fault has happened
  crash    \* the client's process died

vars == <<setup, conn, pool, node, call, faults, crash>>

Faults == {"resolve", "client", "receive", "reset", "server", "retry", "lost"}
Conns == DOMAIN conn
NoServer == [NewSession("server", 0, TRUE) EXCEPT !.alive = FALSE]
NoCall == [pc |-> "idle", k |-> 0, it |-> 0, sid |-> 0, rounds |-> 0, idle |-> 0, resp |-> NoResponse]
Unlimited == 1000
EndSession(mode, peer) ==
  IF peer = 0 THEN NewSession(mode, PacketSize, TRUE) ELSE NewSession(mode, Unlimited, FALSE)

Init ==
  /\ setup \in Setups
  /\ conn = <<>>
  /\ pool = <<>>
  /\ node = [cur |-> 0, last |-> 0]
  /\ call = [r \in Requests |-> NoCall]
  /\ faults = [f \in Faults |-> 0]
  /\ crash = FALSE

Fault(f) ==
  /\ SumFunction(faults) < setup.faults
  /\ faults' = [faults EXCEPT ![f] = @ + 1]

-----------------------------------------------------------------------------
\* Packets on their way, in pieces when another implementation sends them.
Pieces(p, size) ==
  IF size = 0 \/ p.sid < 0 \/ Len(p.data) <= size THEN <<p>>
  ELSE [i \in 1 .. (Len(p.data) + size - 1) \div size |->
          Packet(p.sid,
                 SubSeq(p.data, (i - 1) * size + 1, IF i * size < Len(p.data) THEN i * size ELSE Len(p.data)),
                 p.fin /\ i * size >= Len(p.data))]
InFlight(s, size) ==
  LET ps == FlattenSeq([i \in DOMAIN s.out |-> Pieces(s.out[i], size)])
  IN [i \in DOMAIN ps |-> [p |-> ps[i], lost |-> "no"]]

\* get_pending_packets and send_to: what was retransmitted goes out too.
Flushed(net, s, size) ==
  [i \in DOMAIN net |-> IF net[i].lost = "due" THEN [net[i] EXCEPT !.lost = "no"] ELSE net[i]]
    \o InFlight(s, size)

\* handle_expiry: ngtcp2 may find that packets are lost.
handle_expiry(net) ==
  [i \in DOMAIN net |-> IF net[i].lost = "lost" THEN [net[i] EXCEPT !.lost = "due"] ELSE net[i]]
Expiries(net) == {net, handle_expiry(net)}

\* What can arrive: each stream in its order, and no stream before the keys.
Readable(net, i, s) ==
  /\ net[i].lost = "no"
  /\ \A j \in 1 .. i - 1 : net[j].p.sid # net[i].p.sid
  /\ net[i].p.sid >= 0 => s.handshake_done
Arrives(net, i, s) ==
  /\ Readable(net, i, s)
  /\ Cardinality({j \in 1 .. i - 1 : Readable(net, j, s)}) <= MaxReorder

-----------------------------------------------------------------------------
\* A request on a session, from submit_request to the read loop.
Waits(k, it, c) ==
  [NoCall EXCEPT !.pc = IF it = 0 THEN "new" ELSE "reused", !.k = k, !.it = it,
                 !.sid = BidiId(c), !.rounds = MaxRounds]
UseH3(r, it) ==
  LET k == Last(pool)
      c == submit_request(conn[k].c, RequestOf[r])
  IN /\ pool' = Front(pool)
     /\ node' = IF Len(pool) = 1 THEN [node EXCEPT !.cur = 0] ELSE node
     /\ conn' = [conn EXCEPT ![k].c = get_pending_packets(c),
                             ![k].up = Flushed(@, c, setup.client)]
     /\ call' = [call EXCEPT ![r] = Waits(k, it, conn[k].c)]
     /\ UNCHANGED <<faults, crash>>

\* A pooled session, as long as the iterator of the loop finds one; the
\* sessions that died in the pool are dropped.
Find(r, it) ==
  IF it # 0 THEN UseH3(r, it)
  ELSE /\ call' = [call EXCEPT ![r] = [NoCall EXCEPT !.pc = "resolve"]]
       /\ UNCHANGED <<conn, pool, node, faults, crash>>
Start(r) ==
  /\ r \in setup.requests
  /\ call[r].pc = "idle"
  /\ Cardinality({q \in Requests : call[q].pc \notin {"idle", "done", "failed"}}) < setup.calls
  /\ Find(r, node.cur)
  /\ UNCHANGED setup

\* async_resolve, the session's ClientHello, and the request queued.
Resolve(r) ==
  LET c == init_client(EndSession("client", setup.client))
  IN /\ call[r].pc = "resolve"
     /\ Len(conn) < MaxConns
     /\ conn' = Append(conn,
          [c |-> submit_request(get_pending_packets(c), RequestOf[r]), s |-> NoServer,
           up |-> InFlight(c, 0), down |-> <<>>])
     /\ call' = [call EXCEPT ![r] = Waits(Len(conn) + 1, 0, c)]
     /\ UNCHANGED <<setup, pool, node, faults, crash>>
ResolveFails(r) ==
  /\ call[r].pc = "resolve"
  /\ Fault("resolve")
  /\ call' = [call EXCEPT ![r] = [NoCall EXCEPT !.pc = "failed"]]
  /\ UNCHANGED <<setup, conn, pool, node, crash>>

\* The end of a turn of the read loop with client session c: it goes on, or
\* the response is returned and the session pooled, or the session is given
\* up.
Outcome(r, c, rounds) ==
  LET p == Stream(c, call[r].sid).promise
  IN CASE p.complete /\ ~p.error -> "answered"
       [] p.complete /\ p.error -> "given up"
       [] ~p.complete /\ (~c.alive \/ rounds = 0) -> "given up"
       [] OTHER -> "waits"
Return(r, c) ==
  /\ call' = [call EXCEPT ![r] = [NoCall EXCEPT !.pc = "done",
                                    !.resp = Stream(c, call[r].sid).promise.resp]]
  /\ pool' = IF c.alive THEN Append(pool, call[r].k) ELSE pool
  /\ node' = IF node.cur = 0 /\ c.alive THEN [cur |-> node.last + 1, last |-> node.last + 1]
             ELSE node
  /\ UNCHANGED crash

\* A reused session is given up: the loop looks at its iterator again.  When
\* the entry has been erased that is undefined: the loop ends as if the list
\* were empty, or the process dies.
GiveUp(r) ==
  \/ /\ call[r].pc = "new"
     /\ call' = [call EXCEPT ![r] = [NoCall EXCEPT !.pc = "failed"]]
     /\ UNCHANGED crash
  \/ /\ call[r].pc = "reused"
     /\ call' = [call EXCEPT ![r] = [NoCall EXCEPT
          !.pc = IF call[r].it = node.cur THEN "again" ELSE "resolve", !.it = call[r].it]]
     /\ UNCHANGED crash
  \/ /\ call[r].pc = "reused" /\ call[r].it # node.cur
     /\ crash' = TRUE
     /\ UNCHANGED call
Again(r) ==
  /\ call[r].pc = "again"
  /\ Find(r, IF call[r].it = node.cur THEN node.cur ELSE 0)
  /\ UNCHANGED setup

Ends(r, c, rounds, idle) ==
  LET o == Outcome(r, c, rounds)
  IN \/ o = "answered" /\ Return(r, c)
     \/ /\ o = "given up" /\ GiveUp(r)
        /\ UNCHANGED <<pool, node>>
     \/ /\ o = "waits"
        /\ call' = [call EXCEPT ![r].rounds = rounds, ![r].idle = idle]
        /\ UNCHANGED <<pool, node, crash>>

-----------------------------------------------------------------------------
\* One turn of the read loop of send_h3: a packet is fed, what is pending is
\* sent, and handle_expiry may leave more for the next turn.
Without(net, i) == SubSeq(net, 1, i - 1) \o SubSeq(net, i + 1, Len(net))
Receiving(r) == call[r].pc \in {"new", "reused"}
Receives(r, i, bad) ==
  LET k == call[r].k
  IN /\ Receiving(r)
     /\ Arrives(conn[k].down, i, conn[k].c)
     /\ IF bad THEN Fault("client") ELSE UNCHANGED faults
     /\ \E c \in {IF bad THEN Dead(conn[k].c) ELSE feed_packet(conn[k].c, conn[k].down[i].p)} :
          /\ \E up \in Expiries(Flushed(conn[k].up, c, setup.client)) :
               conn' = [conn EXCEPT ![k].c = get_pending_packets(c), ![k].up = up,
                                    ![k].down = Without(@, i)]
          /\ Ends(r, c, call[r].rounds - 1, 0)
     /\ UNCHANGED setup

NewReceives(r, i, bad) == call[r].pc = "new" /\ Receives(r, i, bad)
ReusedReceives(r, i, bad) == call[r].pc = "reused" /\ Receives(r, i, bad)

\* The receive fails, as after an ICMP message: here the timer's packets are
\* sent at once.
ReceiveFails(r) ==
  LET k == call[r].k
      c == IF call[r].idle + 1 > MaxIdle THEN Dead(conn[k].c) ELSE conn[k].c
  IN /\ Receiving(r)
     /\ Fault("receive")
     /\ conn' = [conn EXCEPT ![k].up =
          IF call[r].idle + 1 > MaxIdle THEN @ ELSE Flushed(handle_expiry(@), NoServer, 0)]
     /\ Ends(r, c, call[r].rounds - 1, call[r].idle + 1)
     /\ UNCHANGED setup

\* The peer resets the stream, and ngtcp2 closes it.
StreamReset(r) ==
  LET k == call[r].k
      c == cb_stream_close(conn[k].c, call[r].sid)
  IN /\ Receiving(r)
     /\ conn[k].s.alive /\ call[r].sid \in DOMAIN conn[k].s.streams
     /\ Fault("reset")
     /\ conn' = [conn EXCEPT ![k].c = c,
          ![k].down = SelectSeq(@, LAMBDA q : q.p.sid # call[r].sid)]
     /\ Ends(r, c, call[r].rounds - 1, 0)
     /\ UNCHANGED setup

\* One turn of serve_h3: dead sessions are erased, the sender's is found or
\* made, the packet fed, and what is pending sent.  A new session takes its
\* ids from the packet, which must be one of the handshake; QUIC may ask for a
\* Retry.
NewServer(p) ==
  LET s == init_server_from_packet(EndSession("server", setup.server), p)
  IN IF s.conn THEN s ELSE NoServer
KeepsDead(k, p) == IF conn[k].s # NoServer THEN conn[k].s ELSE NewServer(p)
Session(k, p) == IF conn[k].s.alive THEN conn[k].s ELSE NewServer(p)
ServerReceives(k, i, what) ==
  LET p == conn[k].up[i].p
      fed == CASE what = "ok" -> feed_packet(Session(k, p), p)
               [] what = "server" -> Dead(Session(k, p))
               [] what = "retry" -> AsksRetry(Session(k, p))
      erased == [j \in Conns |-> IF conn[j].s.alive THEN conn[j] ELSE [conn[j] EXCEPT !.s = NoServer]]
  IN /\ Arrives(conn[k].up, i, conn[k].s)
     /\ what = "retry" => p = Packet(-1, <<>>, FALSE) /\ ~conn[k].s.alive
     /\ \E s \in {fed} : \E down \in Expiries(Flushed(conn[k].down, s, setup.server)) :
          conn' = [erased EXCEPT ![k].s = get_pending_packets(s), ![k].down = down,
                                 ![k].up = Without(@, i)]
     /\ IF what = "ok" THEN UNCHANGED faults ELSE Fault(what)
     /\ UNCHANGED <<setup, pool, node, call, crash>>

\* UDP loses a packet.
Lose(k, i) ==
  /\ Fault("lost")
  /\ \/ /\ i \in DOMAIN conn[k].up /\ conn[k].up[i].lost = "no"
        /\ conn' = [conn EXCEPT ![k].up[i].lost = "lost"]
     \/ /\ i \in DOMAIN conn[k].down /\ conn[k].down[i].lost = "no"
        /\ conn' = [conn EXCEPT ![k].down[i].lost = "lost"]
  /\ UNCHANGED <<setup, pool, node, call, crash>>

-----------------------------------------------------------------------------
Next ==
  /\ ~crash
  /\ \/ \E r \in Requests : Start(r)
     \/ \E r \in Requests : Resolve(r)
     \/ \E r \in Requests : ResolveFails(r)
     \/ \E r \in Requests : Again(r)
     \/ \E r \in Requests, bad \in BOOLEAN :
          /\ Receiving(r)
          /\ \E i \in DOMAIN conn[call[r].k].down :
               NewReceives(r, i, bad) \/ ReusedReceives(r, i, bad)
     \/ \E r \in Requests : ReceiveFails(r)
     \/ \E r \in Requests : StreamReset(r)
     \/ \E k \in Conns, what \in {"ok", "server", "retry"} :
          \E i \in DOMAIN conn[k].up : ServerReceives(k, i, what)
     \/ \E k \in Conns : \E i \in DOMAIN conn[k].up \cup DOMAIN conn[k].down : Lose(k, i)

Spec == Init /\ [][Next]_vars

-----------------------------------------------------------------------------
\* A response that send_h3 returns has the status, the headers and the whole
\* body the handler gave for that request, whatever the pieces and the order
\* in which streams arrive.  A stream that the peer resets after its headers
\* is the exception: cb_stream_close makes a response of what has come.
H3AnswerIsOwn ==
  faults["reset"] = 0 =>
    \A r \in Requests : call[r].pc = "done" => call[r].resp = Handler(RequestOf[r])

\* The handler gets whole requests, and one for each stream at most.
ServerView(req) ==
  [req EXCEPT !.hdrs = <<<<Host, AuthorityFields(req)[1][2]>>>>
                         \o SelectSeq(@, LAMBDA h : ~Pseudo(h[1]))]
H3RequestWhole ==
  \A k \in Conns :
    LET s == conn[k].s
    IN /\ \A i \in DOMAIN s.served : \E r \in Requests : s.served[i] = ServerView(RequestOf[r])
       /\ Len(s.served) <= Cardinality({id \in DOMAIN s.streams : ~Unidirectional(id)})

\* While packets are not lost and the server's session lives, a send_h3 that
\* waits has a packet on its way in one direction or the other, a Retry in
\* between or not.  Three requests wait for ever: one whose stream is beyond
\* the limit that the server never raises, one that does not fit a packet,
\* and one whose response does not.
Answerable(r) ==
  /\ call[r].sid < 4 * MaxBidi
  /\ setup.client = 0 => Len(RequestFrames(RequestOf[r])) <= PacketSize
  /\ setup.server = 0 => Len(ResponseFrames(Handler(RequestOf[r]))) <= PacketSize
H3NotStranded ==
  \A r \in Requests :
    (~crash /\ Receiving(r) /\ faults["lost"] + faults["server"] = 0) =>
      LET k == call[r].k
      IN \/ \E i \in DOMAIN conn[k].down : Arrives(conn[k].down, i, conn[k].c)
         \/ \E i \in DOMAIN conn[k].up : Arrives(conn[k].up, i, conn[k].s)
         \/ ~Answerable(r)
=============================================================================
