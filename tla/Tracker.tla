------------------------------- MODULE Tracker -------------------------------
(***************************************************************************)
(* The rendezvous of the peer-to-peer layer: p2p::tracker_server with its  *)
(* accept loop, one handle_client coroutine per connection and the cleanup *)
(* task, and the tracker_clients of the peers (src/p2p/tracker_server.cpp, *)
(* src/p2p/tracker_client.cpp).  They talk in lines over TCP.  A peer may  *)
(* close its connection, lose it, or vanish so that the server sees no end *)
(* of the connection for a long time; it may come back under its id.       *)
(*                                                                         *)
(* Connections are numbered in the order they are made.  Time is counted   *)
(* in periods of the cleanup task.                                         *)
(***************************************************************************)
EXTENDS Integers, Sequences, FiniteSets, SequencesExt

CONSTANTS
  Ids,       \* peers, by their id: 1 .. n, in the order of the std::map
  Tries,     \* bound on the connections each peer makes
  MaxOps,    \* bound on the commands each peer gives
  Leavers,   \* the peers that disconnect, lose the connection or vanish
  Timeout    \* peer_timeout_

ASSUME TrackerAssumption ==
  /\ Ids = 1 .. Cardinality(Ids)
  /\ Tries \in [Ids -> Nat]
  /\ MaxOps \in [Ids -> Nat]
  /\ Leavers \subseteq Ids
  /\ Timeout \in Nat

VARIABLES
  running,  \* running_, and the acceptor is open
  peers,    \* peers_: who registered the id, 0 for nobody, and last_seen
  conn,     \* the connections, with the handle_client of each
  cli,      \* the tracker_client of each peer
  cleaner   \* the cleanup task: "asleep", "due" or "ended"

vars == <<running, peers, conn, cli, cleaner>>

Conns == DOMAIN conn
MaxConns == SumFunction(Tries)
Absent == [by |-> 0, age |-> 0]
Registered(id) == peers[id].by # 0
Idle == [k |-> 0, connected |-> FALSE, pc |-> "idle", left |-> 0, list |-> {}, ops |-> 0]

\* The lines of the protocol, as pairs of a keyword and a number.
OK == <<"OK", 0>>
PEERS(n) == <<"PEERS", n>>
PEER(id) == <<"peer", id>>
PONG == <<"PONG", 0>>
EmptyLine == <<"", 0>>

Init ==
  /\ running = TRUE
  /\ peers = [id \in Ids |-> Absent]
  /\ conn = <<>>
  /\ cli = [id \in Ids |-> Idle]
  /\ cleaner = "asleep"

-----------------------------------------------------------------------------
\* tracker_client::connect up to its first read: a new socket, a REGISTER.
\* The connection waits for the server in the backlog.
NewConn(id) ==
  [id |-> id, up |-> <<"REGISTER">>, down |-> <<>>, client |-> "open",
   server |-> "backlog", peer_id |-> 0, listed |-> {}, missed |-> FALSE]
Connect(id) ==
  /\ running
  /\ Cardinality({k \in Conns : conn[k].id = id}) < Tries[id]
  /\ cli[id].k = 0
  /\ conn' = Append(conn, NewConn(id))
  /\ cli' = [cli EXCEPT ![id].k = Len(conn) + 1, ![id].pc = "OK"]
  /\ UNCHANGED <<running, peers, cleaner>>

\* list_peers() and ping() up to their first read.  On a connection that
\* broke the write fails.
Broken(id) == conn[cli[id].k].client = "closed"
Command(id, cmd) ==
  LET c == cli[id]
  IN /\ c.connected
     /\ c.pc = "idle"
     /\ c.ops < MaxOps[id]
     /\ IF Broken(id)
        THEN /\ cli' = [cli EXCEPT ![id].connected = FALSE]
             /\ UNCHANGED conn
        ELSE /\ conn' = [conn EXCEPT ![c.k].up = Append(@, cmd)]
             /\ cli' = [cli EXCEPT ![id].ops = @ + 1, ![id].list = {},
                          ![id].pc = IF cmd = "LIST" THEN "PEERS" ELSE "PONG"]
     /\ UNCHANGED <<running, peers, cleaner>>
list_peers(id) == Command(id, "LIST")
ping(id) == Command(id, "PING")

\* What a line means to the client depends on what it waits for.
Answered(c, line) ==
  CASE c.pc = "OK" -> [c EXCEPT !.connected = (line = OK), !.pc = "idle"]
    [] c.pc = "PONG" -> [c EXCEPT !.pc = IF line = PONG THEN "idle" ELSE "refused"]
    [] c.pc = "PEERS" ->
         IF line[1] # "PEERS" THEN [c EXCEPT !.pc = "refused"]
         ELSE [c EXCEPT !.left = line[2], !.pc = IF line[2] = 0 THEN "got" ELSE "lines"]
    [] c.pc = "lines" ->
         IF line = EmptyLine THEN [c EXCEPT !.left = 0, !.pc = "got"]
         ELSE [c EXCEPT !.left = @ - 1, !.list = @ \cup {line[2]},
                        !.pc = IF c.left = 1 THEN "got" ELSE "lines"]
Waiting(id) == cli[id].pc \in {"OK", "PONG", "PEERS", "lines"}
ReadLine(id) ==
  LET c == cli[id]
  IN /\ Waiting(id)
     /\ conn[c.k].down # <<>>
     /\ cli' = [cli EXCEPT ![id] = Answered(c, Head(conn[c.k].down))]
     /\ conn' = [conn EXCEPT ![c.k].down = Tail(@)]
     /\ UNCHANGED <<running, peers, cleaner>>

\* The read finds the connection broken; the list so far is returned.
ReadFails(id) ==
  LET c == cli[id]
  IN /\ Waiting(id)
     /\ Broken(id)
     /\ cli' = [cli EXCEPT ![id].connected = FALSE, ![id].left = 0,
                  ![id].pc = IF c.pc = "lines" THEN "got" ELSE "refused"]
     /\ UNCHANGED <<running, peers, conn, cleaner>>

\* The operation returns its result to the caller.
Return(id) ==
  /\ cli[id].pc \in {"got", "refused"}
  /\ cli' = [cli EXCEPT ![id].pc = "idle", ![id].list = {}]
  /\ conn' = [conn EXCEPT ![cli[id].k].listed = {}]
  /\ UNCHANGED <<running, peers, cleaner>>

\* What a peer leaves behind of a connection: nothing of what it was to read.
Left(c, how) == [c EXCEPT !.client = how, !.down = <<>>, !.listed = {}, !.missed = FALSE]

\* disconnect(): a last command, if connected, and the socket is closed.
disconnect(id) ==
  LET k == cli[id].k
  IN /\ id \in Leavers
     /\ k # 0
     /\ cli[id].pc = "idle"
     /\ conn' = [conn EXCEPT ![k] =
          [Left(@, "closed") EXCEPT
             !.up = IF cli[id].connected /\ ~Broken(id) THEN Append(@, "QUIT") ELSE @]]
     /\ cli' = [cli EXCEPT ![id] = [Idle EXCEPT !.ops = cli[id].ops]]
     /\ UNCHANGED <<running, peers, cleaner>>

\* The connection breaks: the server sees its end, and the peer finds out when
\* it uses it.
Break(id) ==
  /\ id \in Leavers
  /\ cli[id].k # 0 /\ ~Broken(id)
  /\ conn' = [conn EXCEPT ![cli[id].k].client = "closed", ![cli[id].k].down = <<>>]
  /\ UNCHANGED <<running, peers, cli, cleaner>>

\* The peer vanishes: the end of the connection reaches the server late, if
\* ever.
Vanish(id) ==
  /\ id \in Leavers
  /\ cli[id].k # 0 /\ ~Broken(id)
  /\ conn' = [conn EXCEPT ![cli[id].k] = Left(@, "gone")]
  /\ cli' = [cli EXCEPT ![id] = [Idle EXCEPT !.ops = cli[id].ops]]
  /\ UNCHANGED <<running, peers, cleaner>>
LateEnd(k) ==
  /\ conn[k].client = "gone" /\ conn[k].server \in {"backlog", "serving"}
  /\ conn' = [conn EXCEPT ![k].client = "closed"]
  /\ UNCHANGED <<running, peers, cli, cleaner>>

-----------------------------------------------------------------------------
\* run(): the accepted connection gets its handle_client task, and the tasks
\* that are done are deleted with their sockets.
Reaped(c) == IF c.server = "done" THEN [c EXCEPT !.server = "deleted", !.up = <<>>] ELSE c
Accept ==
  /\ running
  /\ \E k \in Conns :
       /\ conn[k].server = "backlog"
       /\ \A j \in Conns : conn[j].server = "backlog" => k <= j
       /\ conn' = [j \in Conns |->
                     IF j = k THEN [conn[j] EXCEPT !.server = "serving"] ELSE Reaped(conn[j])]
  /\ UNCHANGED <<running, peers, cli, cleaner>>

\* After the loop of handle_client the peer is removed from the registry,
\* whoever registered it last.
Unregister(id) == IF id = 0 THEN peers ELSE [peers EXCEPT ![id] = Absent]
Leave(k) == peers' = Unregister(conn[k].peer_id)

\* A client that has closed or vanished reads no more.
Reply(c, lines) == IF c.client = "open" THEN [c EXCEPT !.down = @ \o lines] ELSE c
Taken(k) == [conn[k] EXCEPT !.up = Tail(@)]

\* The test of running_ that follows a command.
Continue(k, c) ==
  conn' = [conn EXCEPT ![k] = IF running THEN c ELSE [c EXCEPT !.server = "done"]]
AfterCommand(k, p) == peers' = IF running THEN p ELSE [p EXCEPT ![conn[k].id] = Absent]

Register(k) ==
  /\ Continue(k, Reply([Taken(k) EXCEPT !.peer_id = conn[k].id], <<OK>>))
  /\ AfterCommand(k, [peers EXCEPT ![conn[k].id] = [by |-> k, age |-> 0]])

\* LIST marks every peer as seen, counts the caller, and does not list it.
\* The response ends with a newline, and write_line adds one.
Listing(k) ==
  SelectSeq([id \in Ids |-> id], LAMBDA id : Registered(id) /\ id # conn[k].peer_id)
CountsListed(k) ==
  <<PEERS(Len(Listing(k)))>>
    \o [i \in DOMAIN Listing(k) |-> PEER(Listing(k)[i])] \o <<EmptyLine>>
ListReply(k) ==
  <<PEERS(Cardinality({id \in Ids : Registered(id)}))>>
    \o [i \in DOMAIN Listing(k) |-> PEER(Listing(k)[i])] \o <<EmptyLine>>
List(k) ==
  /\ Continue(k, IF conn[k].client # "open" THEN Taken(k)
                 ELSE [Reply(Taken(k), ListReply(k)) EXCEPT
                         !.listed = ToSet(Listing(k)),
                         !.missed = @ \/ ~Registered(conn[k].peer_id)])
  /\ AfterCommand(k, [id \in Ids |-> IF Registered(id) THEN [peers[id] EXCEPT !.age = 0]
                                     ELSE Absent])

Ping(k) ==
  /\ Continue(k, Reply(Taken(k), <<PONG>>))
  /\ AfterCommand(k, IF Registered(conn[k].peer_id)
                     THEN [peers EXCEPT ![conn[k].peer_id].age = 0] ELSE peers)

\* One turn of the loop of handle_client.
handle_client(k) ==
  /\ conn[k].server = "serving"
  /\ \/ /\ conn[k].up # <<>>
        /\ \/ Head(conn[k].up) = "REGISTER" /\ Register(k)
           \/ Head(conn[k].up) = "LIST" /\ List(k)
           \/ Head(conn[k].up) = "PING" /\ Ping(k)
           \/ /\ Head(conn[k].up) = "QUIT"
              /\ conn' = [conn EXCEPT ![k].server = "done"]
              /\ Leave(k)
     \/ /\ conn[k].up = <<>>
        /\ conn[k].client = "closed"
        /\ conn' = [conn EXCEPT ![k].server = "done"]
        /\ Leave(k)
  /\ UNCHANGED <<running, cli, cleaner>>

-----------------------------------------------------------------------------
\* Ten seconds pass, and the cleanup task's timer is due.
Older(p) == IF p.by = 0 \/ p.age > Timeout THEN p ELSE [p EXCEPT !.age = @ + 1]
Tick ==
  /\ cleaner = "asleep"
  /\ cleaner' = "due"
  /\ peers' = [id \in Ids |-> Older(peers[id])]
  /\ UNCHANGED <<running, conn, cli>>

\* cleanup_stale_peers, and the loop of the task.
NeverStale(id) == FALSE
Stale(id) == peers[id].age > Timeout
cleanup_stale_peers ==
  /\ cleaner = "due"
  /\ cleaner' = IF running THEN "asleep" ELSE "ended"
  /\ peers' = [id \in Ids |-> IF Stale(id) THEN Absent ELSE peers[id]]
  /\ UNCHANGED <<running, conn, cli>>

stop ==
  /\ running
  /\ running' = FALSE
  /\ UNCHANGED <<peers, conn, cli, cleaner>>

Next ==
  \/ \E id \in Ids : Connect(id)
  \/ \E id \in Ids : list_peers(id)
  \/ \E id \in Ids : ping(id)
  \/ \E id \in Ids : ReadLine(id)
  \/ \E id \in Ids : ReadFails(id)
  \/ \E id \in Ids : Return(id)
  \/ \E id \in Ids : disconnect(id)
  \/ \E id \in Ids : Vanish(id)
  \/ \E id \in Ids : Break(id)
  \/ \E k \in Conns : LateEnd(k)
  \/ Accept
  \/ \E k \in Conns : handle_client(k)
  \/ Tick
  \/ cleanup_stale_peers
  \/ stop

Spec == Init /\ [][Next]_vars

\* The server's coroutines and its timer run; peers do what they like.
FairSpec ==
  /\ Spec
  /\ WF_vars(Accept)
  /\ \A k \in 1 .. MaxConns : WF_vars(k \in Conns /\ handle_client(k))
  /\ WF_vars(Tick)
  /\ WF_vars(cleanup_stale_peers)

-----------------------------------------------------------------------------
\* The lines stay in step with the commands: list_peers returns the peers
\* registered when the tracker served it, without the caller, and ping gets
\* its PONG, unless the connection breaks meanwhile.  Only a LIST served while the caller is not registered (it timed
\* out, or another connection under its id ended) upsets this: the caller is
\* not counted then, and the last newline is left for the next command.
AnswersMatch ==
  \A id \in Ids :
    (cli[id].k # 0 /\ ~conn[cli[id].k].missed) =>
      /\ cli[id].pc = "got" /\ cli[id].connected => cli[id].list = conn[cli[id].k].listed
      /\ cli[id].pc = "refused" => ~running \/ ~cli[id].connected

\* A connection whose peer is gone does not keep its id registered for ever:
\* handle_client removes it, or cleanup_stale_peers does when the end of the
\* connection never arrives.  Every LIST of any peer makes all of them young
\* again, so that this needs the commands to cease, as they do here after
\* MaxOps.
Keeps(k) == k \in Conns /\ peers[conn[k].id].by = k
GoneIsForgotten ==
  \A k \in 1 .. MaxConns :
    (k \in Conns /\ conn[k].client # "open") ~> (~running \/ ~Keeps(k))
=============================================================================
