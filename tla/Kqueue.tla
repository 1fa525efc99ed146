------------------------------- MODULE Kqueue -------------------------------
(***************************************************************************)
(* KqueueBackend (src/io/kqueue_backend.cpp) under one thread that runs    *)
(* coroutines and calls poll().  Nothing is tried when an operation is     *)
(* submitted, connect apart: it waits for its event.  An event uses its    *)
(* registration up (EV_ONESHOT), so an operation that is not completed by  *)
(* it has to be registered again.                                          *)
(*                                                                         *)
(* A slot <<fd, "in">> or <<fd, "out">> is an entry of read_ops_ or        *)
(* write_ops_ and names the coroutine that uses it.                        *)
(***************************************************************************)
CONSTANT Fds

VARIABLES
  kops,        \* read_ops_ and write_ops_: the kind of the pending operation
  armed,       \* the slots registered in the kernel
  opened,      \* descriptors that are not closed
  able,        \* slots on which a system call would not block (kernel)
  efd,         \* EVFILT_USER is triggered
  task,        \* the state of each coroutine
  at,          \* where the loop is in poll_impl
  events,      \* what kevent returned
  resumes,     \* to_resume, which has the order of the events: any
  unarmed      \* history: accepts that would have blocked after their event

kvars == <<kops, armed, opened, able, efd, task, at, events, resumes, unarmed>>

Slots == Fds \X {"in", "out"}

Init ==
  /\ kops = [c \in Slots |-> "none"] /\ armed = {}
  /\ opened = Fds /\ able = {} /\ efd = FALSE
  /\ task = [c \in Slots |-> "new"]
  /\ at = "out" /\ events = {} /\ resumes = {} /\ unarmed = {}

\* The thread runs one coroutine at a time, and the loop when none.
Idle == \A c \in Slots : task[c] # "running"

-----------------------------------------------------------------------------
\* Coroutines.
Start(c) ==
  /\ task[c] = "new" /\ Idle /\ at = "out"
  /\ task' = [task EXCEPT ![c] = "running"]
  /\ UNCHANGED <<kops, armed, opened, able, efd, at, events, resumes, unarmed>>

\* What the async_*_impl do: the map's entry and register_event.
Queue(c, kind) ==
  /\ task[c] = "running" /\ c[1] \in opened
  /\ kops' = [kops EXCEPT ![c] = kind]
  /\ armed' = armed \cup {c}
  /\ unarmed' = unarmed \ {c}
  /\ task' = [task EXCEPT ![c] = "suspended"]
  /\ UNCHANGED <<opened, able, efd, at, events, resumes>>

async_read(c) == c[2] = "in" /\ Queue(c, "read")
async_accept(c) == c[2] = "in" /\ Queue(c, "accept")
async_recvfrom(c) == c[2] = "in" /\ Queue(c, "recvfrom")
async_wait_readable(c) == c[2] = "in" /\ Queue(c, "wait")
async_write(c) == c[2] = "out" /\ Queue(c, "write")
async_sendto(c) == c[2] = "out" /\ Queue(c, "sendto")
async_wait_writable(c) == c[2] = "out" /\ Queue(c, "wait")

\* connect is tried; one that succeeds or fails at once lets the coroutine go
\* on.
async_connect(c) ==
  /\ c[2] = "out"
  /\ \/ Queue(c, "connect")
     \/ task[c] = "running" /\ c[1] \in opened /\ UNCHANGED kvars

Submit(c) ==
  \/ async_read(c) \/ async_accept(c) \/ async_recvfrom(c) \/ async_wait_readable(c)
  \/ async_write(c) \/ async_connect(c) \/ async_sendto(c) \/ async_wait_writable(c)

Finish(c) ==
  /\ task[c] = "running"
  /\ task' = [task EXCEPT ![c] = "finished"]
  /\ UNCHANGED <<kops, armed, opened, able, efd, at, events, resumes, unarmed>>

\* socket::close(): the events and both entries go, whoever waits on them.
deregister(c) ==
  /\ task[c] = "running" /\ c[1] \in opened
  /\ opened' = opened \ {c[1]}
  /\ armed' = {x \in armed : x[1] # c[1]}
  /\ kops' = [x \in Slots |-> IF x[1] = c[1] THEN "none" ELSE kops[x]]
  /\ unarmed' = {x \in unarmed : x[1] # c[1]}
  /\ UNCHANGED <<able, efd, task, at, events, resumes>>

-----------------------------------------------------------------------------
\* poll_impl.  kevent returns what has happened, if anything before the
\* timeout or a wake-up, and the registrations of what it returns are gone.
poll ==
  /\ at = "out" /\ Idle
  /\ at' = "waiting"
  /\ UNCHANGED <<kops, armed, opened, able, efd, task, events, resumes, unarmed>>
kevent ==
  /\ at = "waiting"
  /\ events' = armed \cap able
  /\ armed' = armed \ able
  /\ efd' = FALSE
  /\ at' = "locked"
  /\ UNCHANGED <<kops, opened, able, task, resumes, unarmed>>

\* The section under mutex_.  try_complete_read and the other three register
\* the event again when their call would block; the branch for accept does
\* not.
try_complete_read(c) == kops[c] = "read" /\ c \in able
try_complete_recvfrom(c) == kops[c] = "recvfrom" /\ c \in able
try_complete_write(c) == kops[c] = "write" /\ c \in able
try_complete_sendto(c) == kops[c] = "sendto" /\ c \in able
accept(c) == kops[c] = "accept" /\ c \in able
Calls(c) ==
  \/ try_complete_read(c) \/ try_complete_recvfrom(c)
  \/ try_complete_write(c) \/ try_complete_sendto(c)
  \/ accept(c)
NeverRearmed(c) == FALSE
Rearmed(c) == kops[c] \in {"read", "recvfrom", "write", "sendto"}
CompleteEvents ==
  LET found == {c \in events : kops[c] # "none"}
      done == {c \in found : Calls(c) \/ kops[c] \in {"connect", "wait"}}
  IN /\ at = "locked"
     /\ kops' = [c \in Slots |-> IF c \in done THEN "none" ELSE kops[c]]
     /\ armed' = armed \cup {c \in found \ done : Rearmed(c)}
     /\ unarmed' = unarmed \cup {c \in found \ done : kops[c] = "accept"}
     /\ able' \in {able \ used : used \in SUBSET {c \in done : Calls(c)}}
     /\ resumes' = done
     /\ events' = {}
     /\ at' = "resume"
     /\ UNCHANGED <<opened, efd, task>>

Resume(c) ==
  /\ at = "resume" /\ c \in resumes /\ Idle
  /\ task' = [task EXCEPT ![c] = "running"]
  /\ resumes' = resumes \ {c}
  /\ UNCHANGED <<kops, armed, opened, able, efd, at, events, unarmed>>
Returns ==
  /\ at = "resume" /\ resumes = {} /\ Idle
  /\ at' = "out"
  /\ UNCHANGED <<kops, armed, opened, able, efd, task, events, resumes, unarmed>>

wake ==
  /\ efd' = TRUE
  /\ UNCHANGED <<kops, armed, opened, able, task, at, events, resumes, unarmed>>

-----------------------------------------------------------------------------
\* The kernel: something arrives; a connection that waits to be accepted, or a
\* datagram, is dropped again.
Arrive(c) ==
  /\ c \notin able
  /\ able' = able \cup {c}
  /\ UNCHANGED <<kops, armed, opened, efd, task, at, events, resumes, unarmed>>
Withdraw(c) ==
  /\ c \in able
  /\ able' = able \ {c}
  /\ UNCHANGED <<kops, armed, opened, efd, task, at, events, resumes, unarmed>>

PollStep == poll \/ kevent \/ CompleteEvents \/ (\E c \in Slots : Resume(c)) \/ Returns
Next ==
  \/ \E c \in Slots : Start(c) \/ Submit(c) \/ Finish(c) \/ deregister(c)
  \/ \E c \in Slots : Arrive(c) \/ Withdraw(c)
  \/ PollStep
  \/ wake

Spec == Init /\ [][Next]_kvars

-----------------------------------------------------------------------------
\* A suspended coroutine whose descriptor is open has its operation in the maps
\* with a registration in the kernel or an event that is being looked at, or is
\* about to be resumed.  An accept that blocks after its event is the exception.
OperationArmed ==
  \A c \in Slots :
    (task[c] = "suspended" /\ c[1] \in opened) =>
      IF kops[c] = "none" THEN c \in resumes
      ELSE c \notin resumes /\ c \in armed \cup events \cup unarmed

\* The exception does not happen: an accept stays registered.
AcceptStaysArmed == unarmed = {}
=============================================================================
