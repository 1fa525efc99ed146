------------------------------- MODULE Strand -------------------------------
(***************************************************************************)
(* async_net::basic_strand (include/async_net/executor/strand.hpp) over a  *)
(* multi-threaded inner executor.  The inner executor is what the strand   *)
(* sees of thread_pool: a job given to post() is run once by some worker,  *)
(* unless the executor was stopped before, in which case post() silently   *)
(* drops it (module ThreadPool).  Handlers may post to the strand they run *)
(* on.                                                                     *)
(***************************************************************************)
EXTENDS Naturals, Sequences

CONSTANTS
  Workers,    \* threads of the inner executor
  Clients,    \* other threads that post to the strand
  Handlers,   \* the functions; each is posted at most once
  NoHandler

ASSUME StrandAssumption ==
  /\ Workers \cap Clients = {}
  /\ NoHandler \notin Handlers

VARIABLES
  queue,       \* queue_
  running,     \* running_
  dispatching, \* threads between the locked section of post_impl and inner_->post
  innerJobs,   \* run() jobs queued in the inner executor
  innerStop,   \* the inner executor's stop_
  dropped,     \* the inner executor refused a run() job
  worker,      \* what each inner worker does
  current,     \* the handler a worker is executing
  posted,      \* history: handlers in the order of post()
  finished     \* history: handlers in the order of completion

vars == <<queue, running, dispatching, innerJobs, innerStop, dropped,
          worker, current, posted, finished>>

Threads == Workers \cup Clients
Range(s) == {s[i] : i \in DOMAIN s}

TypeOK ==
  /\ queue \in Seq(Handlers)
  /\ running \in BOOLEAN
  /\ dispatching \subseteq Threads
  /\ innerJobs \in Nat
  /\ innerStop \in BOOLEAN
  /\ dropped \in BOOLEAN
  /\ worker \in [Workers -> {"free", "run", "handler"}]
  /\ current \in [Workers -> Handlers \cup {NoHandler}]
  /\ \A w \in Workers : worker[w] = "handler" <=> current[w] # NoHandler
  /\ posted \in Seq(Handlers)
  /\ finished \in Seq(Handlers)

Init ==
  /\ queue = <<>>
  /\ running = FALSE
  /\ dispatching = {}
  /\ innerJobs = 0
  /\ innerStop = FALSE
  /\ dropped = FALSE
  /\ worker = [w \in Workers |-> "free"]
  /\ current = [w \in Workers |-> NoHandler]
  /\ posted = <<>>
  /\ finished = <<>>

\* A client may post at any time, a worker only from inside a handler.
CanPost(p) ==
  /\ p \notin dispatching
  /\ p \in Workers => worker[p] = "handler"

\* Whether post_impl must hand run() to the inner executor.
AlwaysDispatch == TRUE
ShouldDispatch == ~running

\* post_impl, the locked section: push, and claim running_.
PostLocked(p, h) ==
  /\ CanPost(p)
  /\ h \notin Range(posted)
  /\ queue' = Append(queue, h)
  /\ posted' = Append(posted, h)
  /\ running' = TRUE
  /\ dispatching' = IF ShouldDispatch THEN dispatching \cup {p} ELSE dispatching
  /\ UNCHANGED <<innerJobs, innerStop, dropped, worker, current, finished>>

\* post_impl after the mutex is released: inner_->post([this] { run(); }).
PostInner(p) ==
  /\ p \in dispatching
  /\ dispatching' = dispatching \ {p}
  /\ \/ ~innerStop /\ innerJobs' = innerJobs + 1 /\ UNCHANGED dropped
     \/ innerStop /\ dropped' = TRUE /\ UNCHANGED innerJobs
  /\ UNCHANGED <<queue, running, innerStop, worker, current, posted, finished>>

\* A worker of the inner executor starts a queued run() job.
InnerStart(w) ==
  /\ innerJobs > 0
  /\ worker[w] = "free"
  /\ innerJobs' = innerJobs - 1
  /\ worker' = [worker EXCEPT ![w] = "run"]
  /\ UNCHANGED <<queue, running, dispatching, innerStop, dropped, current, posted, finished>>

\* run(), the locked section with an empty queue: give running_ back and leave.
ForgetRunning == UNCHANGED running
ReleaseRunning == running' = FALSE

RunEmpty(w) ==
  /\ worker[w] = "run"
  /\ queue = <<>>
  /\ ReleaseRunning
  /\ worker' = [worker EXCEPT ![w] = "free"]
  /\ UNCHANGED <<queue, dispatching, innerJobs, innerStop, dropped, current, posted, finished>>

\* run(), the locked section with a handler: take the front one.
PopFront == queue' = Tail(queue)

RunPop(w) ==
  /\ worker[w] = "run"
  /\ queue # <<>>
  /\ PopFront
  /\ current' = [current EXCEPT ![w] = Head(queue)]
  /\ worker' = [worker EXCEPT ![w] = "handler"]
  /\ UNCHANGED <<running, dispatching, innerJobs, innerStop, dropped, posted, finished>>

\* fn() returns and run() goes round its loop.
ReleaseHandler(w) == current' = [current EXCEPT ![w] = NoHandler]

HandlerReturns(w) ==
  /\ worker[w] = "handler"
  /\ w \notin dispatching
  /\ finished' = Append(finished, current[w])
  /\ ReleaseHandler(w)
  /\ worker' = [worker EXCEPT ![w] = "run"]
  /\ UNCHANGED <<queue, running, dispatching, innerJobs, innerStop, dropped, posted>>

\* The owner of the inner executor stops it; what it has accepted still runs.
InnerStopCalled ==
  /\ ~innerStop
  /\ innerStop' = TRUE
  /\ UNCHANGED <<queue, running, dispatching, innerJobs, dropped, worker, current, posted, finished>>

WorkerStep(w) == InnerStart(w) \/ RunEmpty(w) \/ RunPop(w) \/ HandlerReturns(w)

Next ==
  \/ \E p \in Threads, h \in Handlers : PostLocked(p, h)
  \/ \E p \in Threads : PostInner(p)
  \/ \E w \in Workers : WorkerStep(w)
  \/ InnerStopCalled

Spec == Init /\ [][Next]_vars

\* Threads are scheduled and handlers return.
Fairness ==
  /\ \A p \in Threads : WF_vars(PostInner(p))
  /\ \A w \in Workers : WF_vars(WorkerStep(w))

FairSpec == Spec /\ Fairness

-----------------------------------------------------------------------------
InRun(w) == worker[w] \in {"run", "handler"}

\* run() is never active on two threads, so no two handlers run concurrently,
\* whatever threads post and however the inner executor schedules run().
MutualExclusion == \A v, w \in Workers : InRun(v) /\ InRun(w) => v = w

\* A queued handler always has somebody on the way to run it (a thread about to
\* call inner_->post, a queued run() job, or a worker inside run()), unless the
\* inner executor, already stopped, dropped the job.
NoHandlerStranded ==
  queue # <<>> => \/ dispatching # {}
                  \/ innerJobs > 0
                  \/ \E w \in Workers : InRun(w)
                  \/ dropped /\ innerStop

\* Handlers complete in the order in which they were posted, none twice.
CompletesInPostOrder ==
  /\ Len(finished) <= Len(posted)
  /\ \A i \in DOMAIN finished : finished[i] = posted[i]

\* The handler running now, if any.
ActiveHandler ==
  IF \E w \in Workers : worker[w] = "handler"
  THEN current[CHOOSE w \in Workers : worker[w] = "handler"]
  ELSE NoHandler

Serial == INSTANCE SerialExecutor WITH
  backlog <- queue, active <- ActiveHandler, finished <- finished

\* The strand implements the serial executor of its class comment.
ImplementsSerialExecutor == Serial!SSpec

\* Every handler posted before the inner executor is stopped is executed.
PostedHandlersRun ==
  \A h \in Handlers : h \in Range(posted) ~> h \in Range(finished) \/ innerStop
=============================================================================
