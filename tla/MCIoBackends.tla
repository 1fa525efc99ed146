---------------------------- MODULE MCIoBackends ----------------------------
(* A descriptor with a reading and a writing coroutine, on the backend that   *)
(* io_context was built with: epoll, io_uring or kqueue.                      *)
EXTENDS EpollBackend

CONSTANTS SqEntries, MaxTimers, MaxFails

ASSUME RingAssumption == SqEntries \in Nat \ {0}

VARIABLES backend, ring, entry, opened, able, efd, task, at, resumes, fails,
          kops, armed, kevents, kresumes, unarmed
uvars == <<ring, entry, opened, able, efd, task, at, resumes, fails>>
kvars == <<kops, armed, kevents, kresumes, unarmed>>

\* io_uring and kqueue share the variables that both have.
U == INSTANCE IoUring
K == INSTANCE Kqueue WITH events <- kevents, resumes <- kresumes

MCInit == backend \in {"epoll", "io_uring", "kqueue"} /\ Init /\ U!Init /\ K!Init
MCNext ==
  \/ backend = "epoll" /\ Next /\ UNCHANGED <<backend, uvars, kvars>>
  \/ backend = "io_uring" /\ U!Next /\ UNCHANGED <<backend, vars, kvars>>
  \/ backend = "kqueue" /\ K!Next /\ UNCHANGED <<backend, vars, ring, entry, resumes, fails>>
MCSpec ==
  /\ MCInit /\ [][MCNext]_<<backend, vars, uvars, kvars>>
  /\ backend = "epoll" => Fairness

\* io_uring_backend.cpp: an operation that a coroutine waits for is in the
\* submission queue, in the kernel, in the completion queue or to be resumed.
RequestTracked == backend = "io_uring" => U!RequestTracked

\* io_uring_backend.cpp: a wake() that nobody has seen will end the wait of
\* poll_impl, since the poll request on wake_fd_ is there, unless a submission
\* failed.
WakeIsArmed == backend = "io_uring" => U!WakeIsArmed

\* kqueue_backend.cpp: an operation that is not completed by its one-shot event
\* is registered again.
OperationArmed == backend = "kqueue" => K!OperationArmed
=============================================================================
