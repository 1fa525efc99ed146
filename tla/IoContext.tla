------------------------------ MODULE IoContext ------------------------------
(***************************************************************************)
(* The event loop: async_net::io_context (include/async_net/io/io_context. *)
(* hpp, src/io/io_context.cpp), its work_guard, and the timer entries that *)
(* sleep_for makes (include/async_net/executor/schedule.hpp).  Threads in  *)
(* Loops execute run() (several of them: run_mt) or run_until_complete();  *)
(* Clients are other threads.  A call publishes its change under a lock or *)
(* with one atomic operation, and wakes the backend in a second step.      *)
(*                                                                         *)
(* The backend is what the loop sees of it: poll(timeout) returns when the *)
(* wake descriptor is readable, consuming it, or when the timeout is over. *)
(* Time is a counter up to Horizon; from then on any timeout may expire.   *)
(***************************************************************************)
EXTENDS Integers, Sequences, FiniteSets

CONSTANTS
  Loops, Clients,
  Fns,            \* functions given to post(), each at most once
  Timers,         \* timer callbacks, each registered at most once
  Mode,           \* which function the loop threads execute
  DefaultWait,    \* the timeout used when there is no timer (100 ms)
  Horizon

ASSUME IoContextAssumption ==
  /\ Loops # {} /\ Loops \cap Clients = {}
  /\ IsFiniteSet(Loops) /\ IsFiniteSet(Clients) /\ IsFiniteSet(Timers)
  /\ Mode \in {"run", "run_until_complete"}
  /\ DefaultWait \in Nat \ {0} /\ Horizon \in Nat

VARIABLES
  pending,   \* pending_
  timers,    \* the timers in timers_
  deadline,  \* their deadlines, -1 for a timer not registered yet
  stopped,   \* stopped_
  work,      \* work_count_
  woken,     \* the wake descriptor is readable
  now,       \* steady_clock
  loop,      \* where each loop thread is
  pollEnd,   \* when a thread's poll() times out
  batch,     \* execute_pending's local queue; its head is running
  expired,   \* process_timers's local list of callbacks
  waking,    \* threads between a change and their backend_->wake()
  guard,     \* clients that hold a work_guard
  sleepers,  \* timers whose callback holds a work_guard (SleepAwaiter)
  ran,       \* what became of each function ("late": posted after every loop ended)
  covered    \* functions posted under a guard or from a callback

vars == <<pending, timers, deadline, stopped, work, woken, now, loop, pollEnd,
          batch, expired, waking, guard, sleepers, ran, covered>>

Threads == Loops \cup Clients
InCallback(l) ==
  \/ loop[l] = "run_fns" /\ batch[l] # <<>>
  \/ loop[l] = "run_timers" /\ expired[l] # {}
CanCall(c) == c \notin waking /\ (c \in Loops => InCallback(c))

TypeOK ==
  /\ pending \in Seq(Fns)
  /\ timers \subseteq Timers
  /\ deadline \in [Timers -> -1 .. Horizon]
  /\ stopped \in BOOLEAN
  /\ work \in Nat /\ work = Cardinality(guard) + Cardinality(sleepers)
  /\ woken \in BOOLEAN
  /\ now \in 0 .. Horizon
  /\ loop \in [Loops -> {"check", "check_pending", "timeout", "poll", "collect",
                         "run_timers", "swap", "run_fns", "exited"}]
  /\ pollEnd \in [Loops -> Nat]
  /\ batch \in [Loops -> Seq(Fns)]
  /\ expired \in [Loops -> SUBSET Timers]
  /\ waking \subseteq Threads
  /\ guard \subseteq Clients
  /\ sleepers \subseteq Timers
  /\ ran \in [Fns -> {"new", "posted", "late", "done"}]
  /\ covered \subseteq Fns

\* run_until_complete is used with guards made before the loop starts.
Init ==
  /\ pending = <<>> /\ timers = {} /\ deadline = [t \in Timers |-> -1]
  /\ stopped = FALSE /\ woken = FALSE /\ now = 0
  /\ loop = [l \in Loops |-> "check"]
  /\ pollEnd = [l \in Loops |-> 0]
  /\ batch = [l \in Loops |-> <<>>] /\ expired = [l \in Loops |-> {}]
  /\ waking = {} /\ guard = Clients /\ work = Cardinality(Clients) /\ sleepers = {}
  /\ ran = [f \in Fns |-> "new"] /\ covered = {}

-----------------------------------------------------------------------------
\* Calls.

ThenNoWake(c) == UNCHANGED waking
ThenWake(c) == waking' = waking \cup {c}

loopVars == <<loop, pollEnd, batch, expired>>

\* post_impl: push under pending_mutex_; no work is counted.
Post(c, f) ==
  /\ CanCall(c) /\ ran[f] = "new"
  /\ pending' = Append(pending, f)
  /\ ran' = [ran EXCEPT ![f] = IF \A l \in Loops : loop[l] = "exited" THEN "late" ELSE "posted"]
  /\ covered' = IF c \in Loops \cup guard THEN covered \cup {f} ELSE covered
  /\ ThenWake(c)
  /\ UNCHANGED <<timers, deadline, stopped, work, woken, now, guard, sleepers, loopVars>>

AddTimer(c, t, d) ==
  /\ CanCall(c) /\ deadline[t] = -1
  /\ timers' = timers \cup {t}
  /\ deadline' = [deadline EXCEPT ![t] = d]
  /\ ThenWake(c)
  /\ UNCHANGED <<pending, stopped, woken, now, guard, ran, covered, loopVars>>

\* post_at / post_after
PostAt(c, t, d) == AddTimer(c, t, d) /\ UNCHANGED <<work, sleepers>>

\* co_await sleep_for(...) in a coroutine that runs on the loop: the timer's
\* callback owns a work_guard.
GuardForSleep(t) == sleepers' = sleepers \cup {t} /\ work' = work + 1

Sleep(l, t, d) == l \in Loops /\ AddTimer(l, t, d) /\ GuardForSleep(t)

\* A second stop() would only wake the backend again.
Stop(c) ==
  /\ CanCall(c) /\ ~stopped
  /\ stopped' = TRUE
  /\ ThenWake(c)
  /\ UNCHANGED <<pending, timers, deadline, work, woken, now, guard, sleepers, ran, covered, loopVars>>

\* A work_guard is copied to another client.
CopyGuard(c, d) ==
  /\ CanCall(c) /\ c \in guard /\ d \in Clients \ guard
  /\ guard' = guard \cup {d}
  /\ work' = work + 1
  /\ UNCHANGED <<pending, timers, deadline, stopped, woken, now, waking, sleepers, ran, covered, loopVars>>

\* work_guard::release: fetch_sub, then wake.
ReleaseGuard(c) ==
  /\ CanCall(c) /\ c \in guard
  /\ guard' = guard \ {c}
  /\ work' = work - 1
  /\ ThenWake(c)
  /\ UNCHANGED <<pending, timers, deadline, stopped, woken, now, sleepers, ran, covered, loopVars>>

\* backend_->wake()
Wake(c) ==
  /\ c \in waking
  /\ woken' = TRUE
  /\ waking' = waking \ {c}
  /\ UNCHANGED <<pending, timers, deadline, stopped, work, now, guard, sleepers, ran, covered, loopVars>>

-----------------------------------------------------------------------------
\* The loop.

Goto(l, where) == loop' = [loop EXCEPT ![l] = where]
shared == <<pending, timers, deadline, stopped, work, woken, now, waking, guard,
            sleepers, ran, covered>>

\* while (!stopped_), then run_until_complete's first test.
StopSeen == stopped

Check(l) ==
  /\ loop[l] = "check"
  /\ Goto(l, IF StopSeen THEN "exited"
             ELSE IF Mode = "run_until_complete" /\ work = 0 THEN "check_pending"
             ELSE "timeout")
  /\ UNCHANGED <<pollEnd, batch, expired, shared>>

\* Its second test, under pending_mutex_.
CheckNothing(l) == TRUE
NothingPending(l) == pending = <<>>

CheckPending(l) ==
  /\ loop[l] = "check_pending"
  /\ Goto(l, IF NothingPending(l) THEN "exited" ELSE "timeout")
  /\ UNCHANGED <<pollEnd, batch, expired, shared>>

\* next_timer_timeout_ms
NextTimeout ==
  IF timers = {} THEN DefaultWait
  ELSE LET first == CHOOSE t \in timers : \A u \in timers : deadline[t] <= deadline[u]
       IN  IF deadline[first] <= now THEN 0 ELSE deadline[first] - now

ComputeTimeout(l) ==
  /\ loop[l] = "timeout"
  /\ pollEnd' = [pollEnd EXCEPT ![l] = now + NextTimeout]
  /\ Goto(l, "poll")
  /\ UNCHANGED <<batch, expired, shared>>

PollWoken(l) ==
  /\ loop[l] = "poll" /\ woken
  /\ woken' = FALSE
  /\ Goto(l, "collect")
  /\ UNCHANGED <<pending, timers, deadline, stopped, work, now, waking, guard, sleepers,
                 ran, covered, pollEnd, batch, expired>>

PollTimeout(l) ==
  /\ loop[l] = "poll" /\ (now >= pollEnd[l] \/ now = Horizon)
  /\ Goto(l, "collect")
  /\ UNCHANGED <<pollEnd, batch, expired, shared>>

\* process_timers, the locked section.
NotDue(t) == deadline[t] > now
Due(t) == deadline[t] <= now

CollectTimers(l) ==
  /\ loop[l] = "collect"
  /\ expired' = [expired EXCEPT ![l] = {t \in timers : Due(t)}]
  /\ timers' = {t \in timers : ~Due(t)}
  /\ Goto(l, "run_timers")
  /\ UNCHANGED <<pending, deadline, stopped, work, woken, now, waking, guard, sleepers,
                 ran, covered, pollEnd, batch>>

\* A callback runs, earliest deadline first; a sleeper's callback releases its
\* guard (which wakes the backend) before it resumes the coroutine.
RunTimer(l) ==
  /\ loop[l] = "run_timers" /\ l \notin waking
  /\ \E t \in expired[l] :
       /\ \A u \in expired[l] : deadline[t] <= deadline[u]
       /\ expired' = [expired EXCEPT ![l] = @ \ {t}]
       /\ sleepers' = sleepers \ {t}
       /\ work' = IF t \in sleepers THEN work - 1 ELSE work
       /\ woken' = (woken \/ t \in sleepers)
  /\ UNCHANGED <<pending, timers, deadline, stopped, now, waking, guard, ran, covered,
                 loop, pollEnd, batch>>

TimersDone(l) ==
  /\ loop[l] = "run_timers" /\ expired[l] = {}
  /\ Goto(l, "swap")
  /\ UNCHANGED <<pollEnd, batch, expired, shared>>

\* execute_pending: std::swap under pending_mutex_.
TakeNothing(l) == pending' = <<>> /\ UNCHANGED batch
TakePending(l) == batch' = [batch EXCEPT ![l] = pending] /\ pending' = <<>>

SwapPending(l) ==
  /\ loop[l] = "swap"
  /\ TakePending(l)
  /\ Goto(l, "run_fns")
  /\ UNCHANGED <<timers, deadline, stopped, work, woken, now, waking, guard, sleepers,
                 ran, covered, pollEnd, expired>>

RunFn(l) ==
  /\ loop[l] = "run_fns" /\ batch[l] # <<>> /\ l \notin waking
  /\ ran' = [ran EXCEPT ![Head(batch[l])] = "done"]
  /\ batch' = [batch EXCEPT ![l] = Tail(@)]
  /\ UNCHANGED <<pending, timers, deadline, stopped, work, woken, now, waking, guard,
                 sleepers, covered, loop, pollEnd, expired>>

FnsDone(l) ==
  /\ loop[l] = "run_fns" /\ batch[l] = <<>>
  /\ Goto(l, "check")
  /\ UNCHANGED <<pollEnd, batch, expired, shared>>

Tick ==
  /\ now < Horizon
  /\ now' = now + 1
  /\ UNCHANGED <<pending, timers, deadline, stopped, work, woken, waking, guard, sleepers,
                 ran, covered, loopVars>>

-----------------------------------------------------------------------------
LoopStep(l) ==
  \/ Check(l) \/ CheckPending(l) \/ ComputeTimeout(l) \/ PollWoken(l) \/ PollTimeout(l)
  \/ CollectTimers(l) \/ RunTimer(l) \/ TimersDone(l) \/ SwapPending(l) \/ RunFn(l) \/ FnsDone(l)

Call(c) ==
  \/ \E f \in Fns : Post(c, f)
  \/ \E t \in Timers, d \in now .. Horizon : PostAt(c, t, d) \/ Sleep(c, t, d)
  \/ Stop(c)
  \/ \E d \in Clients : CopyGuard(c, d)
  \/ ReleaseGuard(c)

Next ==
  \/ \E c \in Threads : Call(c) \/ Wake(c)
  \/ \E l \in Loops : LoopStep(l)
  \/ Tick

Spec == Init /\ [][Next]_vars

\* Threads are scheduled and time passes; nobody has to call anything.
Fairness ==
  /\ \A l \in Loops : WF_vars(LoopStep(l))
  /\ \A c \in Threads : WF_vars(Wake(c))
  /\ WF_vars(Tick)

FairSpec == Spec /\ Fairness

-----------------------------------------------------------------------------
\* The loop does not sleep over anything it should react to: while the (only)
\* loop thread is in poll() with a posted function, a stop request, the last
\* work_guard gone, or a timer due before the end of the poll, if it has still to
\* wait for that, the wake descriptor is readable or some thread is about to make
\* it so.
NoMissedWakeup ==
  \A l \in Loops : loop[l] = "poll" /\
    (\/ pending # <<>>
     \/ stopped
     \/ Mode = "run_until_complete" /\ work = 0
     \/ now < pollEnd[l] /\ \E t \in timers : deadline[t] < pollEnd[l])
    => woken \/ waking # {}

\* run_until_complete returns (without stop()) only after every function that was
\* posted by the holder of a work_guard, or by a callback, has been executed, and
\* with no coroutine still in sleep_for.
CompleteMeansComplete ==
  (\A l \in Loops : loop[l] = "exited") /\ ~stopped =>
    /\ \A f \in covered : ran[f] = "done"
    /\ sleepers = {} /\ guard = {}

\* A posted function is executed, unless the loop is stopped or has completed.
PostedFnsRun ==
  \A f \in Fns : ran[f] = "posted" ~> ran[f] = "done" \/ \E l \in Loops : loop[l] = "exited"

\* A registered timer fires, unless the loop is stopped or has completed.
TimersFire ==
  \A t \in Timers : t \in timers ~> t \notin timers \/ \E l \in Loops : loop[l] = "exited"

\* The comment of post_impl: "the event loop will not exit until this function has
\* been executed".
NoExitWithPostedFn ==
  (\A l \in Loops : loop[l] = "exited") => \A f \in Fns : ran[f] # "posted"
=============================================================================
