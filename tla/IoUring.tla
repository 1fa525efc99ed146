------------------------------- MODULE IoUring -------------------------------
(***************************************************************************)
(* IoUringBackend (src/io/io_uring_backend.cpp) under one thread that runs *)
(* coroutines and calls poll(), with others that only call wake(): the     *)
(* class allows no concurrent poll.  The kernel takes requests out of the  *)
(* submission queue when io_uring_enter is called, and leaves completions  *)
(* in the completion queue when they happen, in an order of its own: a     *)
(* queue is modelled by how often each request is in it.                   *)
(*                                                                         *)
(* A slot <<fd, "in">> or <<fd, "out">> is an entry of read_ops_ or        *)
(* write_ops_ and names the coroutine that uses it.                        *)
(***************************************************************************)
EXTENDS Naturals

CONSTANTS
  Fds,
  SqEntries,   \* the size of the submission queue: 256
  MaxTimers,   \* bound on the timeouts left in the kernel
  MaxFails     \* bound on calls of io_uring_enter that take nothing

VARIABLES
  ring,        \* the two queues, the submission queue's length (tail - head),
               \* and what the kernel holds
  entry,       \* the slots of read_ops_ and write_ops_ that are taken
  opened,      \* descriptors that are not closed
  able,        \* slots on which a system call would not block (kernel)
  efd,         \* wake_fd_ is readable
  task,        \* the state of each coroutine
  at,          \* where the loop is in poll_impl
  resumes,     \* to_resume, which has the order of the completions: any
  fails

uvars == <<ring, entry, opened, able, efd, task, at, resumes, fails>>

Slots == Fds \X {"in", "out"}
Wake == <<"wake">>
Timeout == <<"timeout">>
Requests == Slots \cup {Wake, Timeout}
None == [x \in Requests |-> 0]
Plus(queue, x) == [queue EXCEPT ![x] = @ + 1]

-----------------------------------------------------------------------------
\* submit_sqes: the kernel takes what is queued, or nothing.  A request on a
\* closed descriptor fails at once.
Closed(x) == x \in Slots /\ x[1] \notin opened
submit_sqes(r, ok) ==
  IF ~ok THEN r
  ELSE [sq |-> None, queued |-> 0,
        cq |-> [x \in Requests |-> r.cq[x] + IF Closed(x) THEN r.sq[x] ELSE 0],
        held |-> [x \in Requests |-> r.held[x] + IF Closed(x) THEN 0 ELSE r.sq[x]]]

\* get_sqe, with what is to be queued; a full queue is submitted first, and
\* when it stays full there is no entry.
Full(r) == r.queued >= SqEntries
Flushed(r, ok) == IF Full(r) THEN submit_sqes(r, ok) ELSE r
Room(r, ok) == ~Full(Flushed(r, ok))
get_sqe(r, x, ok) ==
  IF Room(r, ok)
  THEN [Flushed(r, ok) EXCEPT !.sq = Plus(@, x), !.queued = @ + 1]
  ELSE Flushed(r, ok)

\* A call of io_uring_enter that fails is counted.
Enter(ok) == /\ ok \/ fails < MaxFails
             /\ fails' = IF ok THEN fails ELSE fails + 1

\* setup_ring: the eventfd is polled from the start.
setup_ring == [sq |-> None, queued |-> 0, cq |-> None, held |-> Plus(None, Wake)]

Init ==
  /\ ring = setup_ring
  /\ entry = {}
  /\ opened = Fds /\ able = {} /\ efd = FALSE
  /\ task = [c \in Slots |-> "new"]
  /\ at = "out" /\ resumes = [c \in Slots |-> 0] /\ fails = 0

\* The thread runs one coroutine at a time, and the loop when none.
Idle == \A c \in Slots : task[c] # "running"

-----------------------------------------------------------------------------
\* Coroutines.
Start(c) ==
  /\ task[c] = "new" /\ Idle /\ at = "out"
  /\ task' = [task EXCEPT ![c] = "running"]
  /\ UNCHANGED <<ring, entry, opened, able, efd, at, resumes, fails>>

\* What every async_*_impl does: the map's entry and a request.  Without an
\* entry in the queue the operation completes with EBUSY, and await_suspend
\* lets the coroutine go on.
Forgets(c, ok) == FALSE
Completes(c, ok) == ~Room(ring, ok)
Queue(c) ==
  \E ok \in BOOLEAN :
    /\ task[c] = "running" /\ c[1] \in opened
    /\ Enter(Full(ring) => ok)
    /\ Full(ring) \/ ok
    /\ ring' = get_sqe(ring, c, ok)
    /\ entry' = IF Room(ring, ok) THEN entry \cup {c} ELSE entry \ {c}
    /\ task' = [task EXCEPT ![c] = IF Completes(c, ok) THEN "running" ELSE "suspended"]
    /\ UNCHANGED <<opened, able, efd, at, resumes>>

async_read(c) == c[2] = "in" /\ Queue(c)
async_accept(c) == c[2] = "in" /\ Queue(c)
async_recvfrom(c) == c[2] = "in" /\ Queue(c)
async_wait_readable(c) == c[2] = "in" /\ Queue(c)
async_write(c) == c[2] = "out" /\ Queue(c)
async_connect(c) == c[2] = "out" /\ Queue(c)
async_sendto(c) == c[2] = "out" /\ Queue(c)
async_wait_writable(c) == c[2] = "out" /\ Queue(c)
Submit(c) ==
  \/ async_read(c) \/ async_accept(c) \/ async_recvfrom(c) \/ async_wait_readable(c)
  \/ async_write(c) \/ async_connect(c) \/ async_sendto(c) \/ async_wait_writable(c)

Finish(c) ==
  /\ task[c] = "running"
  /\ task' = [task EXCEPT ![c] = "finished"]
  /\ UNCHANGED <<ring, entry, opened, able, efd, at, resumes, fails>>

\* socket::close(): deregister_impl forgets both entries; the requests stay in
\* the kernel.
deregister(c) ==
  /\ task[c] = "running" /\ c[1] \in opened
  /\ opened' = opened \ {c[1]}
  /\ entry' = {x \in entry : x[1] # c[1]}
  /\ UNCHANGED <<ring, able, efd, task, at, resumes, fails>>

-----------------------------------------------------------------------------
\* poll_impl.  With a completion at hand, or a timeout of 0, what is queued is
\* submitted; otherwise a timeout is queued, and the call waits for a
\* completion unless it fails.
Timed(r, ok) == get_sqe(r, Timeout, ok)
poll(timeout, ok) ==
  LET waits == ring.cq = None /\ timeout
  IN /\ at = "out" /\ Idle
     /\ waits => ring.held[Timeout] < MaxTimers
     /\ Enter(ok)
     /\ ring' = submit_sqes(IF waits THEN Timed(ring, ok) ELSE ring, ok)
     /\ at' = IF waits /\ ok THEN "waiting" ELSE "locked"
     /\ UNCHANGED <<entry, opened, able, efd, task, resumes>>
Waited ==
  /\ at = "waiting" /\ ring.cq # None
  /\ at' = "locked"
  /\ UNCHANGED <<ring, entry, opened, able, efd, task, resumes, fails>>

\* process_cqes: the eventfd is emptied and polled again, timeouts are skipped,
\* and the other completions are those of coroutines, whether the maps still
\* have their entries or not.
NotAgain(r, ok) == r
PollAgain(r, ok) == get_sqe(r, Wake, ok)
process_cqes(ok) ==
  LET woken == ring.cq[Wake] > 0
      r == IF woken THEN PollAgain(ring, ok) ELSE ring
  IN /\ at = "locked"
     /\ Enter(Full(ring) /\ woken => ok)
     /\ (Full(ring) /\ woken) \/ ok
     /\ ring' = [r EXCEPT !.cq = [x \in Requests |-> r.cq[x] - ring.cq[x]]]
     /\ efd' = (efd /\ ~woken)
     /\ entry' = {c \in entry : ring.cq[c] = 0}
     /\ resumes' = [c \in Slots |-> ring.cq[c]]
     /\ at' = "resume"
     /\ UNCHANGED <<opened, able, task>>

Resume(c) ==
  /\ at = "resume" /\ resumes[c] > 0 /\ Idle
  /\ task' = [task EXCEPT ![c] = "running"]
  /\ resumes' = [resumes EXCEPT ![c] = @ - 1]
  /\ UNCHANGED <<ring, entry, opened, able, efd, at, fails>>
Returns ==
  /\ at = "resume" /\ (\A c \in Slots : resumes[c] = 0) /\ Idle
  /\ at' = "out"
  /\ UNCHANGED <<ring, entry, opened, able, efd, task, resumes, fails>>

wake ==
  /\ efd' = TRUE
  /\ UNCHANGED <<ring, entry, opened, able, task, at, resumes, fails>>

-----------------------------------------------------------------------------
\* The kernel: a request completes when its descriptor is ready, with which it
\* may use the readiness up; timeouts run out.
Done(x) == ring' = [ring EXCEPT !.held[x] = @ - 1, !.cq = Plus(@, x)]
Complete(x) ==
  /\ ring.held[x] > 0
  /\ IF x = Wake THEN efd ELSE x \in able
  /\ Done(x)
  /\ able' \in {able, able \ {x}}
  /\ UNCHANGED <<entry, opened, efd, task, at, resumes, fails>>
Expire ==
  /\ ring.held[Timeout] > 0
  /\ Done(Timeout)
  /\ UNCHANGED <<entry, opened, able, efd, task, at, resumes, fails>>
Arrive(c) ==
  /\ c \notin able
  /\ able' = able \cup {c}
  /\ UNCHANGED <<ring, entry, opened, efd, task, at, resumes, fails>>

-----------------------------------------------------------------------------
PollStep ==
  \/ \E timeout, ok \in BOOLEAN : poll(timeout, ok)
  \/ Waited \/ (\E c \in Slots : Resume(c)) \/ Returns
  \/ \E ok \in BOOLEAN : process_cqes(ok)
Next ==
  \/ \E c \in Slots : Start(c) \/ Submit(c) \/ Finish(c) \/ deregister(c) \/ Arrive(c)
  \/ PollStep
  \/ \E x \in Slots \cup {Wake} : Complete(x)
  \/ Expire \/ wake

-----------------------------------------------------------------------------
\* How often a request is in the queues or in the kernel.
InRing(x) == ring.sq[x] + ring.cq[x] + ring.held[x]

\* A suspended coroutine has one request, in the queues, in the kernel or to be
\* resumed, and another has none: also when the submission queue is full and
\* the kernel takes nothing, and when another coroutine closes the descriptor.
RequestTracked ==
  \A c \in Slots : InRing(c) + resumes[c] = IF task[c] = "suspended" THEN 1 ELSE 0

\* The loop never waits without the poll of the eventfd: wake() ends the wait.
\* A submission that fails while the queue is full is the exception, since the
\* poll is then not queued again.
WakeIsArmed ==
  at = "waiting" /\ fails = 0 => ring.held[Wake] + ring.cq[Wake] = 1
=============================================================================
