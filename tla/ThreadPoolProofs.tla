--------------------------- MODULE ThreadPoolProofs ---------------------------
(* The safety properties of ThreadPool for any set of workers, clients and   *)
(* tasks.                                                                    *)
EXTENDS ThreadPool, TLAPS

\* What a worker or the queue holds is recorded in fate, and the other way round.
FateInv ==
  /\ \A i \in DOMAIN tasks : fate[tasks[i]] = "queued"
  /\ \A w \in Workers : current[w] # NoTask => fate[current[w]] = "running"
  /\ \A t \in Tasks : fate[t] = "queued" => \E i \in DOMAIN tasks : tasks[i] = t
  /\ \A t \in Tasks : fate[t] = "running" => \E w \in Workers : current[w] = t

\* A worker leaves only a stopped and empty pool, which stays empty; stop() has
\* returned only when all have left.
ExitInv ==
  /\ \A w \in Workers : worker[w] = "exited" => stop /\ tasks = <<>>
  /\ stopper = "returned" => \A w \in Workers : worker[w] = "exited"

\* The inductive invariant.
IInv == TypeOK /\ NoLostWakeup /\ RunsOnce /\ FateInv /\ ExitInv

-----------------------------------------------------------------------------
\* The constructor establishes the invariant.
LEMMA InitIInv == Init => IInv
<1> SUFFICES ASSUME Init PROVE IInv
  OBVIOUS
<1>1. TypeOK
  <2>1. tasks \in Seq(Tasks)
    BY DEF Init
  <2>2. stop \in BOOLEAN
    BY DEF Init
  <2>3. notifying \subseteq Threads
    BY DEF Init
  <2>4. /\ worker \in [Workers -> {"check", "waiting", "running", "exited"}]
        /\ current \in [Workers -> Tasks \cup {NoTask}]
        /\ fate \in [Tasks -> {"new", "queued", "running", "done", "dropped", "rejected"}]
    BY DEF Init
  <2>5. \A w \in Workers : worker[w] = "running" <=> current[w] # NoTask
    BY DEF Init
  <2>6. stopper \in {"idle", "notify_all", "join", "returned"}
    BY DEF Init
  <2> QED BY <2>1, <2>2, <2>3, <2>4, <2>5, <2>6 DEF TypeOK
<1>2. NoLostWakeup /\ ExitInv
  BY DEF Init, NoLostWakeup, ExitInv
<1>3. RunsOnce /\ FateInv
  BY DEF Init, RunsOnce, FateInv
<1> QED BY <1>1, <1>2, <1>3 DEF IInv

\* post() and submit() preserve it.
LEMMA EnqueueIInv ==
  ASSUME IInv, NEW c \in Threads, NEW t \in Tasks, NEW r \in {"dropped", "rejected"},
         Enqueue(c, t, r)
  PROVE  IInv'
<1> USE PoolAssumption DEF IInv, Enqueue, CanCall, Threads
<1>1. CASE stop
  <2>1. UNCHANGED <<tasks, notifying, stop, worker, current, stopper>>
        /\ fate' = [fate EXCEPT ![t] = r] /\ fate[t] = "new"
    BY <1>1
  <2>2. TypeOK' /\ NoLostWakeup' /\ RunsOnce' /\ ExitInv'
    BY <2>1 DEF TypeOK, NoLostWakeup, RunsOnce, ExitInv
  <2>3. FateInv'
    BY <2>1 DEF TypeOK, FateInv
  <2> QED BY <2>2, <2>3
<1>2. CASE ~stop
  <2>1. /\ tasks' = Append(tasks, t) /\ fate[t] = "new" /\ c \in Threads
        /\ fate' = [fate EXCEPT ![t] = "queued"]
        /\ notifying' = notifying \cup {c}
        /\ UNCHANGED <<stop, worker, current, stopper>>
    BY <1>2
  <2> DEFINE n == Len(tasks) + 1
  <2>2. /\ \A i \in DOMAIN tasks : i \in DOMAIN tasks' /\ tasks'[i] = tasks[i]
        /\ n \in DOMAIN tasks' /\ tasks'[n] = t
        /\ \A i \in DOMAIN tasks' : i \in DOMAIN tasks \/ i = n
    BY <2>1 DEF TypeOK
  <2> HIDE DEF n
  <2>3. TypeOK'
    BY <2>1 DEF TypeOK
  <2>4. NoLostWakeup' /\ ExitInv'
    BY <1>2, <2>1 DEF NoLostWakeup, ExitInv
  <2>5. RunsOnce'
    BY <2>1, <2>2 DEF TypeOK, RunsOnce, FateInv
  <2>6. FateInv'
    <3>1. \A i \in DOMAIN tasks' : fate'[tasks'[i]] = "queued"
      BY <2>1, <2>2 DEF TypeOK, FateInv
    <3>2. \A w \in Workers : current'[w] # NoTask => fate'[current'[w]] = "running"
      BY <2>1 DEF TypeOK, FateInv
    <3>3. \A u \in Tasks : fate'[u] = "queued" => \E i \in DOMAIN tasks' : tasks'[i] = u
      BY <2>1, <2>2 DEF TypeOK, FateInv
    <3>4. \A u \in Tasks : fate'[u] = "running" => \E w \in Workers : current'[w] = u
      BY <2>1 DEF TypeOK, FateInv
    <3> QED BY <3>1, <3>2, <3>3, <3>4 DEF FateInv
  <2> QED BY <2>3, <2>4, <2>5, <2>6
<1> QED BY <1>1, <1>2

\* notify_one preserves it: when nobody waits, a worker that is awake is left.
LEMMA NotifyIInv == ASSUME IInv, NEW c \in Threads, NotifyOne(c) PROVE IInv'
<1> USE PoolAssumption DEF IInv, NotifyOne
<1>1. TypeOK' /\ RunsOnce' /\ FateInv' /\ ExitInv'
  BY DEF WakeOne, TypeOK, RunsOnce, FateInv, ExitInv
<1>2. NoLostWakeup'
  <2>1. CASE \E w \in Workers : worker[w] = "waiting" /\ worker' = [worker EXCEPT ![w] = "check"]
    BY <2>1 DEF NoLostWakeup, TypeOK
  <2>2. CASE (\A w \in Workers : worker[w] # "waiting") /\ UNCHANGED worker
    BY <2>2 DEF NoLostWakeup, TypeOK, ExitInv
  <2> QED BY <2>1, <2>2 DEF WakeOne
<1> QED BY <1>1, <1>2

\* The locked section of worker_loop preserves it.
LEMMA CheckIInv == ASSUME IInv, NEW w \in Workers, WorkerCheck(w) PROVE IInv'
<1> USE PoolAssumption DEF IInv
<1>1. CASE ~stop /\ tasks = <<>> /\ worker' = [worker EXCEPT ![w] = "waiting"]
           /\ UNCHANGED <<tasks, current, fate>>
  BY <1>1 DEF WorkerCheck, TypeOK, NoLostWakeup, RunsOnce, FateInv, ExitInv
<1>2. CASE LeavesLoop /\ worker' = [worker EXCEPT ![w] = "exited"]
           /\ UNCHANGED <<tasks, current, fate>>
  BY <1>2 DEF WorkerCheck, LeavesLoop, TypeOK, NoLostWakeup, RunsOnce, FateInv, ExitInv
<1>3. CASE /\ tasks # <<>> /\ worker' = [worker EXCEPT ![w] = "running"]
           /\ current' = [current EXCEPT ![w] = Head(tasks)]
           /\ tasks' = Tail(tasks)
           /\ fate' = [fate EXCEPT ![Head(tasks)] = "running"]
  <2>1. worker[w] = "check" /\ UNCHANGED <<stop, notifying, stopper>>
    BY DEF WorkerCheck
  <2>2. /\ Len(tasks) \in Nat /\ Len(tasks) > 0
        /\ DOMAIN tasks = 1 .. Len(tasks) /\ DOMAIN tasks' = 1 .. Len(tasks) - 1
        /\ \A i \in DOMAIN tasks' : tasks'[i] = tasks[i + 1]
        /\ Head(tasks) = tasks[1] /\ tasks[1] \in Tasks /\ tasks' \in Seq(Tasks)
    BY <1>3 DEF TypeOK
  <2>3. \A i \in DOMAIN tasks : i # 1 => tasks[i] # tasks[1]
    BY <2>2 DEF RunsOnce
  <2>4. TypeOK'
    BY <1>3, <2>1, <2>2 DEF TypeOK
  <2>5. NoLostWakeup' /\ ExitInv'
    BY <1>3, <2>1, <2>2 DEF NoLostWakeup, ExitInv, TypeOK
  <2>6. \A v \in Workers : current[v] # tasks[1]
    BY <2>2 DEF RunsOnce
  <2>7. RunsOnce'
    BY <1>3, <2>2, <2>3, <2>6 DEF RunsOnce, TypeOK
  <2>8. FateInv'
    <3>1. \A i \in DOMAIN tasks' : fate'[tasks'[i]] = "queued"
      BY <1>3, <2>2, <2>3 DEF TypeOK, FateInv
    <3>2. \A v \in Workers : current'[v] # NoTask => fate'[current'[v]] = "running"
      BY <1>3, <2>2 DEF TypeOK, FateInv
    <3>3. \A u \in Tasks : fate'[u] = "queued" => \E i \in DOMAIN tasks' : tasks'[i] = u
      <4> SUFFICES ASSUME NEW u \in Tasks, fate'[u] = "queued"
                   PROVE  \E i \in DOMAIN tasks' : tasks'[i] = u
        OBVIOUS
      <4>1. u # tasks[1] /\ fate[u] = "queued"
        BY <1>3, <2>2 DEF TypeOK
      <4>2. PICK i \in DOMAIN tasks : tasks[i] = u
        BY <4>1 DEF FateInv
      <4>3. i - 1 \in DOMAIN tasks' /\ tasks'[i - 1] = u
        BY <2>2, <4>1, <4>2
      <4> QED BY <4>3
    <3>4. \A u \in Tasks : fate'[u] = "running" => \E v \in Workers : current'[v] = u
      <4> SUFFICES ASSUME NEW u \in Tasks, fate'[u] = "running"
                   PROVE  \E v \in Workers : current'[v] = u
        OBVIOUS
      <4>1. CASE u = tasks[1]
        BY <1>3, <2>2, <4>1 DEF TypeOK
      <4>2. CASE u # tasks[1]
        <5>1. PICK v \in Workers : current[v] = u
          BY <1>3, <2>2, <4>2 DEF TypeOK, FateInv
        <5>2. v # w
          BY <2>1, <5>1 DEF TypeOK
        <5> QED BY <1>3, <5>1, <5>2 DEF TypeOK
      <4> QED BY <4>1, <4>2
    <3> QED BY <3>1, <3>2, <3>3, <3>4 DEF FateInv
  <2> QED BY <2>4, <2>5, <2>7, <2>8
<1> QED BY <1>1, <1>2, <1>3 DEF WorkerCheck, PopFront

\* The return of a task preserves it.
LEMMA ReturnsIInv == ASSUME IInv, NEW w \in Workers, TaskReturns(w) PROVE IInv'
<1> USE PoolAssumption DEF IInv
<1>1. /\ worker[w] = "running" /\ worker' = [worker EXCEPT ![w] = "check"]
      /\ current' = [current EXCEPT ![w] = NoTask]
      /\ fate' = [fate EXCEPT ![current[w]] = "done"]
      /\ UNCHANGED <<tasks, stop, notifying, stopper>>
      /\ current[w] \in Tasks
  BY DEF TaskReturns, ReleaseTask, TypeOK
<1>2. TypeOK'
  BY <1>1 DEF TypeOK
<1>3. NoLostWakeup' /\ RunsOnce' /\ ExitInv'
  BY <1>1 DEF TypeOK, NoLostWakeup, RunsOnce, ExitInv
<1>4. FateInv'
  BY <1>1 DEF TypeOK, FateInv, RunsOnce
<1> QED BY <1>2, <1>3, <1>4

\* Every step preserves the invariant.
LEMMA NextIInv == IInv /\ [Next]_vars => IInv'
<1> SUFFICES ASSUME IInv, [Next]_vars PROVE IInv'
  OBVIOUS
<1> USE PoolAssumption
<1>1. ASSUME NEW c \in Threads, NEW t \in Tasks, Post(c, t) \/ Submit(c, t) PROVE IInv'
  BY <1>1, EnqueueIInv DEF Post, Submit
<1>2. ASSUME NEW c \in Threads, NotifyOne(c) PROVE IInv'
  BY <1>2, NotifyIInv
<1>3. ASSUME NEW w \in Workers, WorkerStep(w) PROVE IInv'
  BY <1>3, CheckIInv, ReturnsIInv DEF WorkerStep
<1>4. ASSUME NEW w \in Workers, SpuriousWakeup(w) PROVE IInv'
  BY <1>4 DEF IInv, SpuriousWakeup, TypeOK, NoLostWakeup, RunsOnce, FateInv, ExitInv
<1>5. CASE StopSetFlag
  BY <1>5 DEF IInv, StopSetFlag, TypeOK, NoLostWakeup, RunsOnce, FateInv, ExitInv
<1>6. CASE StopNotifyAll
  BY <1>6 DEF IInv, StopNotifyAll, WakeAll, TypeOK, NoLostWakeup, RunsOnce, FateInv, ExitInv
<1>7. CASE StopReturn
  BY <1>7 DEF IInv, StopReturn, TypeOK, NoLostWakeup, RunsOnce, FateInv, ExitInv
<1>8. CASE UNCHANGED vars
  BY <1>8 DEF IInv, vars, TypeOK, NoLostWakeup, RunsOnce, FateInv, ExitInv
<1> QED BY <1>1, <1>2, <1>3, <1>4, <1>5, <1>6, <1>7, <1>8 DEF Next, StopStep

-----------------------------------------------------------------------------
\* No wakeup of thread_pool is lost, for any number of workers and callers.
THEOREM PoolLosesNoWakeup == Spec => [](TypeOK /\ NoLostWakeup)
<1>1. IInv => TypeOK /\ NoLostWakeup
  BY DEF IInv
<1> QED BY <1>1, InitIInv, NextIInv, PTL DEF Spec

\* thread_pool hands every task to one worker, once.
THEOREM PoolRunsOnce == Spec => []RunsOnce
<1>1. IInv => RunsOnce
  BY DEF IInv
<1> QED BY <1>1, InitIInv, NextIInv, PTL DEF Spec

\* stop() returns only after every accepted task has run.
THEOREM PoolStopDrains == Spec => []StopDrains
<1>1. IInv => StopDrains
  BY PoolAssumption DEF IInv, StopDrains, ExitInv, FateInv, TypeOK
<1> QED BY <1>1, InitIInv, NextIInv, PTL DEF Spec
=============================================================================
