----------------------------- MODULE EpollBackend -----------------------------
(***************************************************************************)
(* EpollBackend (src/io/epoll_backend.cpp) together with the awaiters that *)
(* submit operations to it (include/async_net/io/tcp.hpp, udp.hpp, the     *)
(* SocketWaitAwaiter of src/io/ssl.cpp) and their OperationContext.        *)
(*                                                                         *)
(* A slot <<fd, "in">> or <<fd, "out">> is an entry of read_ops_ or        *)
(* write_ops_; each is used by one coroutine, which the slot also names,   *)
(* as the maps can hold one operation per descriptor and direction.  An    *)
(* "io" operation (read, write, accept, recvfrom, sendto) is tried at once *)
(* and again on an event; a "connect" and a "wait" complete with the event *)
(* itself.  Sections under mutex_ are one step.  epoll is level-triggered  *)
(* and reports a hang-up whatever the mask.                                *)
(***************************************************************************)
EXTENDS Naturals, FiniteSets

CONSTANTS
  Fds,
  Threads,    \* threads that execute coroutines
  Pollers,    \* those that call poll()
  NoThread

ASSUME EpollAssumption ==
  /\ Pollers \subseteq Threads
  /\ NoThread \notin Threads

VARIABLES
  ops,        \* read_ops_ and write_ops_: the kind of the pending operation
  mask,       \* fd_events_, and the mask registered in the kernel
  open,       \* descriptors registered and not closed
  ready,      \* slots on which a system call would not block (kernel)
  hup,        \* descriptors that are hung up (kernel)
  co,         \* state of each coroutine
  host,       \* the thread executing it
  completed,  \* OperationContext::completed_ of its latest operation
  inAwait,    \* the thread still inside await_suspend for it
  poll,       \* where each polling thread is in poll_impl
  events,     \* what its epoll_wait returned
  toResume,   \* its to_resume list (erase_reads and erase_writes name the same slots)
  deferred,   \* tl_deferred_waits_
  doubled     \* coroutines resumed while they were not suspended

vars == <<ops, mask, open, ready, hup, co, host, completed, inAwait, poll, events,
          toResume, deferred, doubled>>

Dirs == {"in", "out"}
Slots == Fds \X Dirs
Kinds(c) == IF c[2] = "in" THEN {"io", "wait"} ELSE {"io", "connect", "wait"}
InPoll(t) == t \in Pollers /\ poll[t] # "out"                 \* tl_in_poll_

\* The value of every variable is of its type, and a wait stays deferred only
\* inside poll().
TypeOK ==
  /\ ops \in [Slots -> {"none", "io", "connect", "wait"}]
  /\ mask \in [Fds -> SUBSET Dirs]
  /\ open \subseteq Fds
  /\ ready \subseteq Slots /\ hup \subseteq Fds
  /\ co \in [Slots -> {"new", "running", "suspended", "finished"}]
  /\ host \in [Slots -> Threads \cup {NoThread}]
  /\ completed \in [Slots -> BOOLEAN]
  /\ inAwait \in [Slots -> Threads \cup {NoThread}]
  /\ poll \in [Pollers -> {"out", "wait", "locked", "erase", "resume"}]
  /\ events \in [Pollers -> SUBSET Slots]
  /\ toResume \in [Pollers -> SUBSET Slots]
  /\ deferred \in [Threads -> SUBSET Slots]
  /\ \A t \in Threads : deferred[t] # {} => InPoll(t)
  /\ doubled \subseteq Slots

Init ==
  /\ ops = [c \in Slots |-> "none"]
  /\ mask = [fd \in Fds |-> {}] /\ open = Fds
  /\ ready = {} /\ hup = {}
  /\ co = [c \in Slots |-> "new"] /\ host = [c \in Slots |-> NoThread]
  /\ completed = [c \in Slots |-> FALSE] /\ inAwait = [c \in Slots |-> NoThread]
  /\ poll = [p \in Pollers |-> "out"]
  /\ events = [p \in Pollers |-> {}] /\ toResume = [p \in Pollers |-> {}]
  /\ deferred = [t \in Threads |-> {}] /\ doubled = {}

kernel == <<ready, hup>>
polling == <<poll, events, toResume>>

Free(t) == \A c \in Slots : host[c] # t /\ inAwait[c] # t
Ready(c) == c \in ready \/ c[1] \in hup
Reported(c) == c[1] \in open /\ (c[1] \in hup \/ (c \in ready /\ c[2] \in mask[c[1]]))

\* update_events: the mask is computed from the maps.
MaskFrom(o, fd) == {d \in Dirs : o[<<fd, d>>] # "none"}
UpdateEvents(o, fds) == mask' = [fd \in Fds |-> IF fd \in fds THEN MaskFrom(o, fd) ELSE mask[fd]]

-----------------------------------------------------------------------------
\* Coroutines.

\* A coroutine starts on some thread (for a polling thread: outside poll()).
Start(t, c) ==
  /\ co[c] = "new" /\ Free(t) /\ ~InPoll(t)
  /\ co' = [co EXCEPT ![c] = "running"] /\ host' = [host EXCEPT ![c] = t]
  /\ UNCHANGED <<ops, mask, open, kernel, completed, inAwait, polling, deferred, doubled>>

\* await_suspend up to the return of the backend call: the coroutine counts as
\* suspended, and the thread is still inside await_suspend.
Suspend(c, done) ==
  /\ co[c] = "running" /\ c[1] \in open
  /\ co' = [co EXCEPT ![c] = "suspended"]
  /\ inAwait' = [inAwait EXCEPT ![c] = host[c]]
  /\ host' = [host EXCEPT ![c] = NoThread]
  /\ completed' = [completed EXCEPT ![c] = done]
  /\ UNCHANGED <<open, hup, polling, doubled>>

\* async_read, async_write, async_accept, async_recvfrom and async_sendto that
\* complete at once (with a result or an error): the entry is added, armed, and
\* removed again.  The call may or may not exhaust the readiness.
SubmitCompletes(c) ==
  /\ Ready(c)
  /\ Suspend(c, TRUE)
  /\ UpdateEvents(ops, {c[1]})
  /\ ready' \in {ready, ready \ {c}}
  /\ UNCHANGED <<ops, deferred>>

\* The map entry, and update_events.
Register(c, kind) ==
  /\ ops' = [ops EXCEPT ![c] = kind]
  /\ UpdateEvents([ops EXCEPT ![c] = kind], {c[1]})

\* The same calls when they would block, and async_connect in progress.  An error
\* of accept is not reported at once.
SubmitPends(c, kind) ==
  /\ kind \in Kinds(c) \cap {"io", "connect"}
  /\ kind = "io" => ~Ready(c) \/ (c[2] = "in" /\ c \notin ready)
  /\ Suspend(c, FALSE)
  /\ Register(c, kind)
  /\ UNCHANGED <<ready, deferred>>

\* async_connect that succeeds or fails at once.
ConnectCompletes(c) ==
  /\ "connect" \in Kinds(c)
  /\ Suspend(c, TRUE)
  /\ UNCHANGED <<ops, mask, ready, deferred>>

\* async_wait_readable and async_wait_writable; inside poll() they are deferred.
SubmitWait(c) ==
  /\ Suspend(c, FALSE)
  /\ \/ /\ InPoll(host[c])
        /\ deferred' = [deferred EXCEPT ![host[c]] = @ \cup {c}]
        /\ UNCHANGED <<ops, mask>>
     \/ /\ ~InPoll(host[c])
        /\ Register(c, "wait")
        /\ UNCHANGED deferred
  /\ UNCHANGED ready

\* The coroutine is resumed on thread t; resuming one that is not suspended is
\* undefined, and recorded.
ResumeOn(t, c) ==
  IF co[c] = "suspended"
  THEN /\ co' = [co EXCEPT ![c] = "running"] /\ host' = [host EXCEPT ![c] = t]
       /\ UNCHANGED doubled
  ELSE doubled' = doubled \cup {c} /\ UNCHANGED <<co, host>>

SuspendsAnyway(c) == TRUE
Suspends(c) == ~completed[c]

\* The end of await_suspend: if (ctx_->completed()) return false.
AwaitReturns(c) ==
  /\ inAwait[c] # NoThread
  /\ inAwait' = [inAwait EXCEPT ![c] = NoThread]
  /\ IF Suspends(c) THEN UNCHANGED <<co, host, doubled>> ELSE ResumeOn(inAwait[c], c)
  /\ UNCHANGED <<ops, mask, open, kernel, completed, polling, deferred>>

Finish(c) ==
  /\ co[c] = "running"
  /\ co' = [co EXCEPT ![c] = "finished"] /\ host' = [host EXCEPT ![c] = NoThread]
  /\ UNCHANGED <<ops, mask, open, kernel, completed, inAwait, polling, deferred, doubled>>

\* socket::close(): deregister_impl drops both entries, whoever waits on them.
Close(c) ==
  /\ co[c] = "running" /\ c[1] \in open
  /\ open' = open \ {c[1]}
  /\ ops' = [x \in Slots |-> IF x[1] = c[1] THEN "none" ELSE ops[x]]
  /\ mask' = [mask EXCEPT ![c[1]] = {}]
  /\ UNCHANGED <<kernel, co, host, completed, inAwait, polling, deferred, doubled>>

-----------------------------------------------------------------------------
\* poll_impl.

PollEnter(p) ==
  /\ poll[p] = "out" /\ Free(p)
  /\ poll' = [poll EXCEPT ![p] = "wait"]
  /\ UNCHANGED <<ops, mask, open, kernel, co, host, completed, inAwait, events, toResume,
                 deferred, doubled>>

\* epoll_wait returns what is reported; nothing after a timeout or a wake-up.
EpollWait(p) ==
  /\ poll[p] = "wait"
  /\ events' = [events EXCEPT ![p] = {c \in Slots : Reported(c)}]
  /\ poll' = [poll EXCEPT ![p] = "locked"]
  /\ UNCHANGED <<ops, mask, open, kernel, co, host, completed, inAwait, toResume, deferred, doubled>>

\* process_deferred_waits
WithDeferred(p) == [c \in Slots |-> IF c \in deferred[p] THEN "wait" ELSE ops[c]]

\* The first locked section: complete what the events allow.
CompleteEvents(p) ==
  LET o == WithDeferred(p)
      done == {c \in events[p] : o[c] # "none" /\ (o[c] = "io" => Ready(c))}
  IN  /\ poll[p] = "locked"
      /\ poll' = [poll EXCEPT ![p] = "erase"]
      /\ ops' = o
      /\ UpdateEvents(o, {c[1] : c \in done \cup deferred[p]})
      /\ completed' = [c \in Slots |-> completed[c] \/ c \in done]
      /\ toResume' = [toResume EXCEPT ![p] = done]
      /\ deferred' = [deferred EXCEPT ![p] = {}]
      /\ \E used \in SUBSET {c \in done : o[c] = "io"} : ready' = ready \ used
      /\ UNCHANGED <<open, hup, co, host, inAwait, events, doubled>>

\* The second locked section: the completed entries leave the maps.
EraseNothing(p) == UNCHANGED ops
EraseBothDirections(p) ==
  ops' = [c \in Slots |-> IF \E d \in Dirs : <<c[1], d>> \in toResume[p] THEN "none" ELSE ops[c]]
EraseCompleted(p) == ops' = [c \in Slots |-> IF c \in toResume[p] THEN "none" ELSE ops[c]]

PollErase(p) ==
  /\ poll[p] = "erase"
  /\ poll' = [poll EXCEPT ![p] = "resume"]
  /\ EraseCompleted(p)
  /\ events' = [events EXCEPT ![p] = {}]
  /\ UNCHANGED <<mask, open, kernel, co, host, completed, inAwait, toResume, deferred, doubled>>

\* ctx->resume(): the coroutine runs on this thread until it suspends again.
PollResume(p, c) ==
  /\ poll[p] = "resume" /\ c \in toResume[p] /\ Free(p)
  /\ toResume' = [toResume EXCEPT ![p] = @ \ {c}]
  /\ ResumeOn(p, c)
  /\ UNCHANGED <<ops, mask, open, kernel, completed, inAwait, poll, events, deferred>>

\* The waits deferred meanwhile are registered and poll() returns.
FlushDeferred(p) ==
  /\ ops' = WithDeferred(p)
  /\ UpdateEvents(WithDeferred(p), {c[1] : c \in deferred[p]})
  /\ deferred' = [deferred EXCEPT ![p] = {}]

PollReturns(p) ==
  /\ poll[p] = "resume" /\ toResume[p] = {} /\ Free(p)
  /\ FlushDeferred(p)
  /\ poll' = [poll EXCEPT ![p] = "out"]
  /\ UNCHANGED <<open, kernel, co, host, completed, inAwait, events, toResume, doubled>>

-----------------------------------------------------------------------------
\* The kernel: data or buffer space arrives; the peer hangs up.

Arrive(c) ==
  /\ c[1] \in open /\ c \notin ready
  /\ ready' = ready \cup {c}
  /\ UNCHANGED <<ops, mask, open, hup, co, host, completed, inAwait, polling, deferred, doubled>>

HangUp(fd) ==
  /\ fd \in open \ hup
  /\ hup' = hup \cup {fd}
  /\ UNCHANGED <<ops, mask, open, ready, co, host, completed, inAwait, polling, deferred, doubled>>

Submit(c) ==
  \/ SubmitCompletes(c) \/ ConnectCompletes(c) \/ SubmitWait(c)
  \/ \E kind \in {"io", "connect"} : SubmitPends(c, kind)

CoroutineStep(c) == Submit(c) \/ AwaitReturns(c) \/ Finish(c) \/ Close(c)
PollStep(p) ==
  \/ PollEnter(p) \/ EpollWait(p) \/ CompleteEvents(p) \/ PollErase(p) \/ PollReturns(p)
  \/ \E c \in Slots : PollResume(p, c)

Next ==
  \/ \E t \in Threads, c \in Slots : Start(t, c)
  \/ \E c \in Slots : CoroutineStep(c) \/ Arrive(c)
  \/ \E fd \in Fds : HangUp(fd)
  \/ \E p \in Pollers : PollStep(p)

Spec == Init /\ [][Next]_vars

\* Threads are scheduled, a running coroutine goes on, and coroutines are
\* cooperative: control returns to the loop again and again.
Fairness ==
  /\ \A c \in Slots : WF_vars(CoroutineStep(c))
  /\ \A p \in Pollers : WF_vars(PollStep(p)) /\ []<>Free(p)

FairSpec == Spec /\ Fairness

-----------------------------------------------------------------------------

\* No operation is lost: a coroutine that is suspended on an open descriptor is in
\* the maps, deferred, or about to be resumed, and only once; in particular an
\* operation registered while its predecessor's completion is being processed
\* survives the erase that follows.
Tracked(c) ==
  Cardinality({p \in Pollers : c \in toResume[p]})
  + Cardinality({t \in Threads : c \in deferred[t]})
  + IF ops[c] # "none" /\ \A p \in Pollers : c \notin toResume[p] THEN 1 ELSE 0

NoOperationLost ==
  \A c \in Slots : co[c] = "suspended" /\ inAwait[c] = NoThread /\ c[1] \in open
                     => Tracked(c) = 1

\* A coroutine is resumed only while it is suspended, never a second time by the
\* tail of await_suspend or by another poll.
NoDoubleResume == doubled = {}

\* The comment in poll_impl: "concurrent poll() calls from multiple threads" are
\* safe.  An operation is then completed by one of them.
CompletedByOnePoll ==
  \A p, q \in Pollers : p # q => toResume[p] \cap toResume[q] = {}

\* A coroutine suspended on a descriptor that becomes ready or hangs up is resumed,
\* unless the descriptor is closed under it.
ReadyIsResumed ==
  \A c \in Slots : co[c] = "suspended" /\ Ready(c) ~> co[c] # "suspended" \/ c[1] \notin open
=============================================================================
