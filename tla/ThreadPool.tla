------------------------------ MODULE ThreadPool ------------------------------
(***************************************************************************)
(* async_net::thread_pool (include/async_net/detail/thread_pool.hpp): N    *)
(* worker threads, one queue, one mutex and one condition variable.  A     *)
(* section guarded by mutex_ is one step; notify_one and notify_all run    *)
(* after the mutex is released and are steps of their own.  A task body is *)
(* opaque: it takes some time, may post or submit further tasks, and       *)
(* returns.                                                                *)
(***************************************************************************)
EXTENDS Naturals, Sequences

CONSTANTS
  Workers,   \* the threads of workers_
  Clients,   \* other threads that call post() and submit()
  Tasks,     \* the callables; each is handed to the pool at most once
  NoTask     \* a worker that is running nothing

ASSUME PoolAssumption ==
  /\ Workers # {}
  /\ Workers \cap Clients = {}
  /\ NoTask \notin Tasks

VARIABLES
  tasks,     \* tasks_
  stop,      \* stop_
  worker,    \* where each worker is in worker_loop()
  current,   \* the task a worker is running
  notifying, \* threads between releasing mutex_ and notify_one()
  stopper,   \* where the (one) caller of stop() is
  fate       \* what became of each task

vars == <<tasks, stop, worker, current, notifying, stopper, fate>>

Threads == Workers \cup Clients

TypeOK ==
  /\ tasks \in Seq(Tasks)
  /\ stop \in BOOLEAN
  /\ worker \in [Workers -> {"check", "waiting", "running", "exited"}]
  /\ current \in [Workers -> Tasks \cup {NoTask}]
  /\ \A w \in Workers : worker[w] = "running" <=> current[w] # NoTask
  /\ notifying \subseteq Threads
  /\ stopper \in {"idle", "notify_all", "join", "returned"}
  /\ fate \in [Tasks -> {"new", "queued", "running", "done", "dropped", "rejected"}]

Init ==
  /\ tasks = <<>>
  /\ stop = FALSE
  /\ worker = [w \in Workers |-> "check"]
  /\ current = [w \in Workers |-> NoTask]
  /\ notifying = {}
  /\ stopper = "idle"
  /\ fate = [t \in Tasks |-> "new"]

\* A client may call the pool at any time, a worker only from a task body.
CanCall(c) ==
  /\ c \notin notifying
  /\ c \in Workers => worker[c] = "running"

\* The locked section shared by post() and submit(); what happens when the
\* pool is stopped is the only difference between them.
Enqueue(c, t, refusal) ==
  /\ CanCall(c)
  /\ fate[t] = "new"
  /\ \/ /\ stop
        /\ fate' = [fate EXCEPT ![t] = refusal]
        /\ UNCHANGED <<tasks, notifying>>
     \/ /\ ~stop
        /\ tasks' = Append(tasks, t)
        /\ fate' = [fate EXCEPT ![t] = "queued"]
        /\ notifying' = notifying \cup {c}
  /\ UNCHANGED <<stop, worker, current, stopper>>

\* post(): silently drops the function once stop_ is set.
Post(c, t) == Enqueue(c, t, "dropped")

\* submit(): throws once stop_ is set, so the caller knows.
Submit(c, t) == Enqueue(c, t, "rejected")

\* Effects on the waiters of condition_.
WakeNone == UNCHANGED worker

WakeOne ==
  \/ \E w \in Workers : worker[w] = "waiting" /\ worker' = [worker EXCEPT ![w] = "check"]
  \/ (\A w \in Workers : worker[w] # "waiting") /\ UNCHANGED worker

WakeAll ==
  worker' = [w \in Workers |-> IF worker[w] = "waiting" THEN "check" ELSE worker[w]]

\* condition_.notify_one(): wakes one waiter if there is one.
NotifyOne(c) ==
  /\ c \in notifying
  /\ notifying' = notifying \ {c}
  /\ WakeOne
  /\ UNCHANGED <<tasks, stop, current, stopper, fate>>

\* condition_.wait may return without a notification.
SpuriousWakeup(w) ==
  /\ worker[w] = "waiting"
  /\ worker' = [worker EXCEPT ![w] = "check"]
  /\ UNCHANGED <<tasks, stop, current, notifying, stopper, fate>>

\* Leaving as soon as stop_ is set would abandon the queue.
LeavesLoopAtOnce == stop
LeavesLoop == stop /\ tasks = <<>>

PopFront == tasks' = Tail(tasks)

\* The locked section of worker_loop(): wait for stop_ || !tasks_.empty(), then
\* leave or take the front task.
WorkerCheck(w) ==
  /\ worker[w] = "check"
  /\ \/ /\ ~stop /\ tasks = <<>>
        /\ worker' = [worker EXCEPT ![w] = "waiting"]
        /\ UNCHANGED <<tasks, current, fate>>
     \/ /\ LeavesLoop
        /\ worker' = [worker EXCEPT ![w] = "exited"]
        /\ UNCHANGED <<tasks, current, fate>>
     \/ /\ ~LeavesLoop /\ tasks # <<>>
        /\ worker' = [worker EXCEPT ![w] = "running"]
        /\ current' = [current EXCEPT ![w] = Head(tasks)]
        /\ PopFront
        /\ fate' = [fate EXCEPT ![Head(tasks)] = "running"]
  /\ UNCHANGED <<stop, notifying, stopper>>

\* The local std::function of one iteration dies with it.
ReleaseTask(w) == current' = [current EXCEPT ![w] = NoTask]

\* task() returns, outside the mutex.
TaskReturns(w) ==
  /\ worker[w] = "running"
  /\ w \notin notifying
  /\ worker' = [worker EXCEPT ![w] = "check"]
  /\ ReleaseTask(w)
  /\ fate' = [fate EXCEPT ![current[w]] = "done"]
  /\ UNCHANGED <<tasks, stop, notifying, stopper>>

\* stop(), called once by the owner (at the latest by the destructor).
StopSetFlag ==
  /\ stopper = "idle"
  /\ stop' = TRUE
  /\ stopper' = "notify_all"
  /\ UNCHANGED <<tasks, worker, current, notifying, fate>>

\* condition_.notify_all()
StopNotifyAll ==
  /\ stopper = "notify_all"
  /\ WakeAll
  /\ stopper' = "join"
  /\ UNCHANGED <<tasks, stop, current, notifying, fate>>

\* Every join() has returned; workers_.clear().
StopReturn ==
  /\ stopper = "join"
  /\ \A w \in Workers : worker[w] = "exited"
  /\ stopper' = "returned"
  /\ UNCHANGED <<tasks, stop, worker, current, notifying, fate>>

WorkerStep(w) == WorkerCheck(w) \/ TaskReturns(w)
StopStep == StopNotifyAll \/ StopReturn

Next ==
  \/ \E c \in Threads, t \in Tasks : Post(c, t) \/ Submit(c, t)
  \/ \E c \in Threads : NotifyOne(c)
  \/ \E w \in Workers : WorkerStep(w) \/ SpuriousWakeup(w)
  \/ StopSetFlag
  \/ StopStep

Spec == Init /\ [][Next]_vars

\* Threads are scheduled, task bodies return, and nobody relies on a spurious
\* wakeup; clients need not call anything and stop() need not be called.
Fairness ==
  /\ \A c \in Threads : WF_vars(NotifyOne(c))
  /\ \A w \in Workers : WF_vars(WorkerStep(w))
  /\ WF_vars(StopStep)

FairSpec == Spec /\ Fairness

-----------------------------------------------------------------------------
\* No wakeup is lost: while a task is queued some worker is awake or a
\* notify_one is on its way, although notify_one is called after mutex_ is
\* released; and once stop_ is set a worker sleeps only until notify_all.
NoLostWakeup ==
  /\ tasks # <<>> => \/ \E w \in Workers : worker[w] \in {"check", "running"}
                     \/ notifying # {}
  /\ stop /\ (\E w \in Workers : worker[w] = "waiting") => stopper = "notify_all"

\* When stop() returns, every task that post() or submit() accepted has run to
\* its end: the workers drain the queue before they exit.
StopDrains ==
  stopper = "returned" => \A t \in Tasks : fate[t] \notin {"queued", "running"}

\* No task runs on two workers, and none is queued twice or while it runs.
RunsOnce ==
  /\ \A v, w \in Workers : current[v] = current[w] => v = w \/ current[v] = NoTask
  /\ \A i, j \in DOMAIN tasks : tasks[i] = tasks[j] => i = j
  /\ \A w \in Workers, i \in DOMAIN tasks : current[w] # tasks[i]

\* Every task accepted by post() or submit() is eventually run (so the future
\* returned by submit() becomes ready), whether or not the pool is stopped.
AcceptedTasksRun == \A t \in Tasks : fate[t] = "queued" ~> fate[t] = "done"

=============================================================================
