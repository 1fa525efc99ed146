------------------------------ MODULE SpawnJoin ------------------------------
(***************************************************************************)
(* spawn() and JoinHandle (include/async_net/coroutine/spawn.hpp).  A      *)
(* chain of coroutines: coroutine 0 is an ordinary one, coroutine i is a   *)
(* task spawned by coroutine i-1, which holds its JoinHandle.  A task may  *)
(* complete on any thread (run_on moves it to a pool), so every step of    *)
(* FinalAwaiter interleaves with the owner's use of the handle.            *)
(*                                                                         *)
(* done is an atomic flag stored outside SpawnState::mutex.  A load that   *)
(* does not synchronise with the store may miss it; a load under the mutex *)
(* after FinalAwaiter's locked section cannot.                             *)
(***************************************************************************)
EXTENDS Naturals

CONSTANTS
  N,       \* number of spawned tasks
  Moves    \* what owners do with a handle

ASSUME SpawnAssumption ==
  /\ N \in Nat \ {0}
  /\ Moves \subseteq {"await", "drop", "detach", "destroy_outer"}

VARIABLES
  task,    \* task i: its body, then the steps of FinalAwaiter::await_suspend
  frame,   \* whether the coroutine frame of task i exists
  waiter,  \* SpawnState::waiter is set
  taken,   \* FinalAwaiter's local copy w of the waiter is not null
  owner,   \* what coroutine i-1 has done with the JoinHandle of task i
  misuse   \* accesses to a coroutine frame that no longer exists

vars == <<task, frame, waiter, taken, owner, misuse>>

Tasks == 1 .. N

TypeOK ==
  /\ task \in [Tasks -> {"body", "returned", "done", "took", "final"}]
  /\ frame \in [Tasks -> {"live", "destroyed"}]
  /\ \A i \in Tasks : frame[i] = "destroyed" => owner[i] = "dropped"
  /\ waiter \in [Tasks -> BOOLEAN]
  /\ taken \in [Tasks -> BOOLEAN]
  /\ owner \in [Tasks -> {"holds", "suspending", "suspended", "resumed", "joined",
                          "dropped", "detached", "outer_destroyed"}]
  /\ misuse \subseteq {"own_frame", "outer_frame"}

Init ==
  /\ task = [i \in Tasks |-> "body"]
  /\ frame = [i \in Tasks |-> "live"]
  /\ waiter = [i \in Tasks |-> FALSE]
  /\ taken = [i \in Tasks |-> FALSE]
  /\ owner = [i \in Tasks |-> "holds"]
  /\ misuse = {}

\* SpawnState::done, and the values a load of it may return.
Done(i) == task[i] \in {"done", "took", "final"}
LooseLoad(i) == {FALSE, Done(i)}
LockedLoad(i) == IF task[i] \in {"took", "final"} THEN {TRUE} ELSE LooseLoad(i)

-----------------------------------------------------------------------------
\* The task.

\* The body ends (return_value, return_void or unhandled_exception store the
\* outcome) once it is through with the handle it holds itself.
BodyReturns(i) ==
  /\ task[i] = "body"
  /\ i + 1 \in Tasks => owner[i + 1] \in {"joined", "dropped", "detached"}
  /\ task' = [task EXCEPT ![i] = "returned"]
  /\ UNCHANGED <<frame, waiter, taken, owner, misuse>>

\* FinalAwaiter: done.store(true), before the mutex is taken.
StoreDone(i) ==
  /\ task[i] = "returned"
  /\ task' = [task EXCEPT ![i] = "done"]
  /\ UNCHANGED <<frame, waiter, taken, owner, misuse>>

\* FinalAwaiter: take and clear the waiter under the mutex, through the
\* reference to the promise's state_, which lives in the frame.
ClearWaiter(i) == waiter' = [waiter EXCEPT ![i] = FALSE]

TakeWaiter(i) ==
  /\ task[i] = "done"
  /\ task' = [task EXCEPT ![i] = "took"]
  /\ taken' = [taken EXCEPT ![i] = waiter[i]]
  /\ ClearWaiter(i)
  /\ misuse' = misuse \cup IF frame[i] = "destroyed" THEN {"own_frame"} ELSE {}
  /\ UNCHANGED <<frame, owner>>

\* FinalAwaiter: if (w && !w.done()) w.resume().
ResumeWaiter(i) ==
  /\ task[i] = "took"
  /\ task' = [task EXCEPT ![i] = "final"]
  /\ \/ taken[i] /\ owner[i] = "outer_destroyed"
        /\ misuse' = misuse \cup {"outer_frame"} /\ UNCHANGED owner
     \/ taken[i] /\ owner[i] # "outer_destroyed"
        /\ owner' = [owner EXCEPT ![i] = "resumed"] /\ UNCHANGED misuse
     \/ ~taken[i] /\ UNCHANGED <<owner, misuse>>
  /\ UNCHANGED <<frame, waiter, taken>>

-----------------------------------------------------------------------------
\* The owner of the handle.

\* A spawned owner uses the handle only while its own body runs.
OwnerRuns(i) == i - 1 \in Tasks => task[i - 1] = "body"

\* co_await std::move(handle): operator co_await moves state_ out, await_ready
\* loads done.
AwaitReady(i) ==
  /\ "await" \in Moves /\ owner[i] = "holds" /\ OwnerRuns(i)
  /\ \E seen \in LooseLoad(i) :
       owner' = [owner EXCEPT ![i] = IF seen THEN "resumed" ELSE "suspending"]
  /\ UNCHANGED <<task, frame, waiter, taken, misuse>>

\* Whether await_suspend looks at done again before it installs the waiter.
NoRecheck(i) == {FALSE}
Recheck(i) == LockedLoad(i)

\* await_suspend, under the mutex.
AwaitSuspend(i) ==
  /\ owner[i] = "suspending"
  /\ \E seen \in Recheck(i) :
       IF seen
       THEN owner' = [owner EXCEPT ![i] = "resumed"] /\ UNCHANGED waiter
       ELSE owner' = [owner EXCEPT ![i] = "suspended"] /\ waiter' = [waiter EXCEPT ![i] = TRUE]
  /\ UNCHANGED <<task, frame, taken, misuse>>

\* await_resume reads the outcome; the moved-from JoinHandle dies at the end of
\* the expression and its cleanup() does nothing, for state_ is null.
CleanupMovedFrom(i) == UNCHANGED frame

AwaitResume(i) ==
  /\ owner[i] = "resumed"
  /\ owner' = [owner EXCEPT ![i] = "joined"]
  /\ CleanupMovedFrom(i)
  /\ UNCHANGED <<task, waiter, taken, misuse>>

\* ~JoinHandle: cleanup() destroys the frame if it sees done; the destructor of
\* the promise clears the waiter.
DropHandle(i) ==
  /\ "drop" \in Moves /\ owner[i] = "holds" /\ OwnerRuns(i)
  /\ owner' = [owner EXCEPT ![i] = "dropped"]
  /\ \E seen \in LooseLoad(i) :
       IF seen
       THEN frame' = [frame EXCEPT ![i] = "destroyed"] /\ waiter' = [waiter EXCEPT ![i] = FALSE]
       ELSE UNCHANGED <<frame, waiter>>
  /\ UNCHANGED <<task, taken, misuse>>

\* detach(), and release_handle() as co_spawn's callers use it.
Detach(i) ==
  /\ "detach" \in Moves /\ owner[i] = "holds" /\ OwnerRuns(i)
  /\ owner' = [owner EXCEPT ![i] = "detached"]
  /\ UNCHANGED <<task, frame, waiter, taken, misuse>>

\* Coroutine 0 is destroyed while it awaits (as scheduled_task::cancel does).
\* Its Awaiter drops its reference to the state and leaves the waiter in place.
DestroyOuter ==
  /\ "destroy_outer" \in Moves /\ owner[1] = "suspended"
  /\ owner' = [owner EXCEPT ![1] = "outer_destroyed"]
  /\ UNCHANGED <<task, frame, waiter, taken, misuse>>

-----------------------------------------------------------------------------
TaskStep(i) == BodyReturns(i) \/ StoreDone(i) \/ TakeWaiter(i) \/ ResumeWaiter(i)
OwnerStep(i) ==
  \/ AwaitReady(i) \/ AwaitSuspend(i) \/ AwaitResume(i)
  \/ DropHandle(i) \/ Detach(i)

Next == (\E i \in Tasks : TaskStep(i) \/ OwnerStep(i)) \/ DestroyOuter

Spec == Init /\ [][Next]_vars

\* Threads are scheduled, bodies end, and every owner does something with its
\* handle.
Fairness == \A i \in Tasks : WF_vars(TaskStep(i)) /\ WF_vars(OwnerStep(i))

FairSpec == Spec /\ Fairness

-----------------------------------------------------------------------------
\* The awaiting coroutine is resumed exactly once per co_await: FinalAwaiter
\* holds a waiter only while that coroutine is suspended on this task, and never
\* one that is also still installed, so no second resume can follow.
ResumedOnlyWhileSuspended ==
  \A i \in Tasks :
    /\ waiter[i] \/ (taken[i] /\ task[i] = "took") => owner[i] \in {"suspended", "outer_destroyed"}
    /\ ~(waiter[i] /\ taken[i])

\* await_resume runs only after the task has stored its outcome (otherwise
\* std::get would throw on an empty variant).
OutcomeStoredBeforeJoin ==
  \A i \in Tasks : owner[i] \in {"resumed", "joined"} => task[i] # "body"

\* No suspended owner is forgotten: its handle is installed or FinalAwaiter is
\* about to resume it, although done is stored outside the mutex.
NoForgottenWaiter ==
  \A i \in Tasks : owner[i] = "suspended" =>
    \/ waiter[i] /\ task[i] \in {"body", "returned", "done"}
    \/ taken[i] /\ task[i] = "took"

\* Every co_await on a handle completes, through any chain of spawned tasks,
\* unless the awaiting coroutine itself is destroyed.
AwaitsComplete ==
  \A i \in Tasks : owner[i] = "suspending" ~> owner[i] \in {"joined", "outer_destroyed"}

\* The comment of JoinHandle: when the handle is moved into co_await, "the frame
\* is cleaned up when the task completes".
AwaitedFrameReclaimed ==
  \A i \in Tasks : owner[i] = "joined" /\ task[i] = "final" => frame[i] = "destroyed"

\* The comment of cleanup(): the frame is destroyed "if the task is done"; a done
\* task no longer touches its own frame.
DoneFrameUntouched == "own_frame" \notin misuse

\* The comment of JoinHandle: when the outer coroutine is destroyed while the task
\* runs, the waiter handle is cleared "for safety", so it is never resumed.
DestroyedOuterNotResumed == "outer_frame" \notin misuse
=============================================================================
