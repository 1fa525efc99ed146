------------------------------ MODULE Schedule ------------------------------
(***************************************************************************)
(* sleep_for and scheduled_task (include/async_net/executor/schedule.hpp)  *)
(* with schedule_once and schedule_at_fixed_rate (executor/coroutine.hpp): *)
(* a coroutine sleeps on a timer of an io_context, runs its body, sleeps   *)
(* again if it is periodic, and may be cancelled, which destroys its frame *)
(* while the timer keeps a handle to it.                                   *)
(*                                                                         *)
(* One thread runs the io_context.  The timer's callback tests the alive   *)
(* flag and resumes in two steps; time is abstracted: a queued timer may   *)
(* be found due at any turn of the loop.                                   *)
(***************************************************************************)
EXTENDS Naturals, FiniteSets

CONSTANTS
  Tasks,
  Periodic,     \* the tasks made by schedule_at_fixed_rate
  Cancellers,   \* who calls cancel(): "loop" (a callback on the loop's thread),
                \* "other" (another thread); "during_io": also while the body awaits I/O
  MaxRuns       \* bound on the executions of a body

ASSUME ScheduleAssumption ==
  /\ Periodic \subseteq Tasks /\ MaxRuns \in Nat
  /\ Cancellers \subseteq {"loop", "other", "during_io"}

VARIABLES
  frame,        \* the coroutine frame the scheduled_task owns
  at,           \* where that coroutine is
  timer,        \* the tasks with a callback in the timer queue
  guard,        \* the tasks whose callback holds a work_guard
  alive,        \* the alive flag of the task's last SleepAwaiter
  io,           \* the tasks whose body has an I/O operation in the backend
  loop, cur,    \* what the loop's thread is doing, and for which task
  runs,         \* executions of the body
  dangling      \* tasks resumed, or being executed, after their frame was destroyed

vars == <<frame, at, timer, guard, alive, io, loop, cur, runs, dangling>>

\* Every variable is of its type; the work_guard is held exactly while the callback
\* is queued, and a frame that sleeps has its callback queued or executing.
TypeOK ==
  /\ frame \in [Tasks -> {"none", "live", "destroyed"}]
  /\ at \in [Tasks -> {"none", "sleeping", "running", "io", "final"}]
  /\ timer \subseteq Tasks /\ guard = timer /\ io \subseteq Tasks
  /\ alive \in [Tasks -> BOOLEAN]
  /\ loop \in {"idle", "check", "resume", "body"} /\ cur \in Tasks
  /\ runs \in [Tasks -> 0 .. MaxRuns] /\ dangling \subseteq Tasks
  /\ \A t \in Tasks : frame[t] = "live" /\ at[t] = "sleeping"
                        => t \in timer \/ (cur = t /\ loop \in {"check", "resume"})

Init ==
  /\ frame = [t \in Tasks |-> "none"] /\ at = [t \in Tasks |-> "none"]
  /\ timer = {} /\ guard = {} /\ alive = [t \in Tasks |-> FALSE] /\ io = {}
  /\ loop = "idle" /\ cur \in Tasks
  /\ runs = [t \in Tasks |-> 0] /\ dangling = {}

-----------------------------------------------------------------------------
\* SleepAwaiter::await_suspend: the guard and the callback.
SetsTimer(t) == guard' = guard \cup {t} /\ timer' = timer \cup {t}
FlagReused(t) == alive' = [alive EXCEPT ![t] = runs[t] = 0]
FlagRaised(t) == alive' = [alive EXCEPT ![t] = TRUE]
Sleeps(t) ==
  /\ SetsTimer(t)
  /\ FlagRaised(t)
  /\ at' = [at EXCEPT ![t] = "sleeping"]

\* schedule_once or schedule_at_fixed_rate: spawn runs the coroutine up to its sleep.
Create(t) ==
  /\ frame[t] = "none"
  /\ frame' = [frame EXCEPT ![t] = "live"]
  /\ Sleeps(t)
  /\ UNCHANGED <<io, loop, cur, runs, dangling>>

\* The loop calls the callback of a timer that is due; it first releases the guard.
KeepsGuard(t) == guard' = guard /\ timer' = timer \ {t}
ReleasesGuard(t) == guard' = guard \ {t} /\ timer' = timer \ {t}
TimerFires(t) ==
  /\ loop = "idle" /\ t \in timer
  /\ runs[t] < MaxRuns \/ frame[t] = "destroyed"
  /\ ReleasesGuard(t)
  /\ loop' = "check" /\ cur' = t
  /\ UNCHANGED <<frame, at, alive, io, runs, dangling>>

\* if (*alive_copy)
MayResume(t) == alive[t]
AliveTested ==
  /\ loop = "check"
  /\ loop' = IF MayResume(cur) THEN "resume" ELSE "idle"
  /\ UNCHANGED <<frame, at, timer, guard, alive, io, cur, runs, dangling>>

\* h.resume(): the awaiter is destroyed and the body runs (on whatever is left of it
\* if the frame is gone).
Dangles(t) == dangling' = dangling \cup {u \in {t} : frame[u] = "destroyed"}
Resumed ==
  /\ loop = "resume" /\ loop' = "body"
  /\ alive' = [alive EXCEPT ![cur] = FALSE]
  /\ at' = [at EXCEPT ![cur] = "running"]
  /\ runs' = [runs EXCEPT ![cur] = @ + 1]
  /\ Dangles(cur)
  /\ UNCHANGED <<frame, timer, guard, io, cur>>

\* The body ends: a periodic task sleeps again, another one is finished; so is a
\* periodic one whose body throws.
GoesOn(t) == t \in Periodic
BodyEnds(throws) ==
  /\ loop = "body" /\ loop' = "idle"
  /\ IF GoesOn(cur) /\ ~throws
     THEN Sleeps(cur)
     ELSE at' = [at EXCEPT ![cur] = "final"] /\ UNCHANGED <<timer, guard, alive>>
  /\ UNCHANGED <<frame, io, cur, runs, dangling>>

\* The body suspends in an I/O operation, which the backend completes later.
BodyAwaitsIo ==
  /\ loop = "body" /\ loop' = "idle"
  /\ at' = [at EXCEPT ![cur] = "io"] /\ io' = io \cup {cur}
  /\ UNCHANGED <<frame, timer, guard, alive, cur, runs, dangling>>
IoCompletes(t) ==
  /\ loop = "idle" /\ t \in io
  /\ io' = io \ {t} /\ cur' = t
  /\ loop' = "body" /\ at' = [at EXCEPT ![t] = "running"]
  /\ Dangles(t)
  /\ UNCHANGED <<frame, timer, guard, alive, runs>>

\* scheduled_task::cancel, or the destruction of the scheduled_task: the frame goes,
\* and with it the awaiter it holds.  On the loop's thread it is called by a callback
\* or by the body of another task.
FlagLeft(t) == UNCHANGED alive
FlagLowered(t) == alive' = [alive EXCEPT ![t] = FALSE]
OnLoop(t) == loop = "idle" \/ (loop = "body" /\ cur # t)
Cancel(t) ==
  /\ frame[t] = "live"
  /\ ("loop" \in Cancellers /\ OnLoop(t)) \/ "other" \in Cancellers
  /\ at[t] = "io" => "during_io" \in Cancellers
  /\ frame' = [frame EXCEPT ![t] = "destroyed"]
  /\ FlagLowered(t)
  /\ dangling' = dangling \cup {u \in {t} : loop = "body" /\ cur = t}
  /\ UNCHANGED <<at, timer, guard, io, loop, cur, runs>>

LoopStep ==
  \/ AliveTested \/ Resumed \/ BodyEnds(FALSE) \/ BodyEnds(TRUE) \/ BodyAwaitsIo
  \/ \E t \in Tasks : TimerFires(t) \/ IoCompletes(t)

Next == LoopStep \/ \E t \in Tasks : Create(t) \/ Cancel(t)

Spec == Init /\ [][Next]_vars

\* The loop's thread runs; every timer becomes due, every I/O completes, and a body
\* does not await I/O for ever.
FairSpec ==
  /\ Spec /\ WF_vars(AliveTested \/ Resumed \/ BodyEnds(FALSE))
  /\ \A t \in Tasks :
       /\ SF_vars(TimerFires(t)) /\ SF_vars(IoCompletes(t))
       /\ SF_vars(cur = t /\ BodyEnds(FALSE))

-----------------------------------------------------------------------------
\* A frame that was destroyed is never resumed, by its timer or by the backend, and
\* no frame is destroyed while it executes ("skips the resume - no dangling handle").
NoDanglingResume == dangling = {}

\* A periodic task that sleeps is executed again, unless it is cancelled (or the
\* bound on its executions is reached).
PeriodicRepeats ==
  \A t \in Periodic, n \in 0 .. MaxRuns - 1 :
    runs[t] = n /\ at[t] \in {"sleeping", "running"}
      ~> runs[t] > n \/ frame[t] = "destroyed" \/ at[t] = "final"

\* The work_guard of a cancelled sleeper is released, so run_until_complete can end.
CancelledGuardReleased ==
  \A t \in Tasks : frame[t] = "destroyed" /\ t \in guard ~> t \notin guard
=============================================================================
