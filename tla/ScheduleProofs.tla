--------------------------- MODULE ScheduleProofs ---------------------------
(* Cancellation of scheduled tasks on the thread that runs the loop, for any  *)
(* number of tasks, periodic or not, and any number of executions.            *)
EXTENDS Schedule, TLAPS

\* cancel() is called by callbacks of the loop, and not while the body of the
\* task it cancels awaits I/O.
OnLoopOnly == Cancellers \subseteq {"loop"}

\* The alive flag is the awaiter's: it is up exactly while a frame that exists
\* sleeps, so it answers for the frame whenever the callback tests it.
FlagInv == \A t \in Tasks : alive[t] <=> frame[t] = "live" /\ at[t] = "sleeping"

\* What the loop's thread is about to touch exists: between the test of the flag
\* and the resumption, and while a body executes, nobody else runs.
LoopInv ==
  /\ loop = "check" =>
       cur \notin timer /\ (\/ frame[cur] = "live" /\ runs[cur] < MaxRuns
                            \/ frame[cur] = "destroyed")
  /\ loop = "resume" => alive[cur] /\ cur \notin timer /\ runs[cur] < MaxRuns
  /\ loop = "body" => frame[cur] = "live" /\ at[cur] = "running"
  /\ \A t \in Tasks : at[t] = "running" => loop = "body" /\ cur = t
  /\ \A t \in timer : frame[t] # "none"

\* A frame that awaits I/O is there until the backend resumes it.
IoInv == \A t \in io : frame[t] = "live" /\ at[t] = "io"

\* The inductive invariant.
SInv == TypeOK /\ FlagInv /\ LoopInv /\ IoInv /\ NoDanglingResume

LEMMA SInit == Init => SInv
<1> SUFFICES ASSUME Init PROVE SInv
  OBVIOUS
<1>1. runs \in [Tasks -> 0 .. MaxRuns] BY ScheduleAssumption DEF Init
<1> QED BY <1>1 DEF Init, SInv, TypeOK, FlagInv, LoopInv, IoInv, NoDanglingResume

LEMMA SNext == OnLoopOnly /\ SInv /\ [Next]_vars => SInv'
<1> SUFFICES ASSUME OnLoopOnly, SInv, [Next]_vars PROVE SInv'
  OBVIOUS
<1> USE DEF SInv, TypeOK, FlagInv, LoopInv, IoInv, NoDanglingResume
<1>1. ASSUME NEW t \in Tasks, Create(t) PROVE SInv'
  BY <1>1 DEF Create, Sleeps, SetsTimer, FlagRaised
<1>2. ASSUME NEW t \in Tasks, Cancel(t) PROVE SInv'
  BY <1>2 DEF Cancel, FlagLowered, OnLoop, OnLoopOnly
<1>3. ASSUME NEW t \in Tasks, TimerFires(t) PROVE SInv'
  BY <1>3 DEF TimerFires, ReleasesGuard
<1>4. ASSUME NEW t \in Tasks, IoCompletes(t) PROVE SInv'
  BY <1>4 DEF IoCompletes, Dangles
<1>5. CASE AliveTested
  <2>1. CASE alive[cur]
    BY <1>5, <2>1 DEF AliveTested, MayResume
  <2>2. CASE ~alive[cur]
    BY <1>5, <2>2 DEF AliveTested, MayResume
  <2> QED BY <2>1, <2>2
<1>6. CASE Resumed
  <2>1. runs' \in [Tasks -> 0 .. MaxRuns]
    BY <1>6, ScheduleAssumption DEF Resumed
  <2>2. dangling' = {}
    BY <1>6 DEF Resumed, Dangles
  <2> QED BY <1>6, <2>1, <2>2 DEF Resumed
<1>7. ASSUME NEW throws \in BOOLEAN, BodyEnds(throws) PROVE SInv'
  <2>1. /\ loop = "body" /\ loop' = "idle"
        /\ UNCHANGED <<frame, io, cur, runs, dangling>>
    BY <1>7 DEF BodyEnds
  <2>2. CASE GoesOn(cur) /\ ~throws
    <3>1. /\ timer' = timer \cup {cur} /\ guard' = guard \cup {cur}
          /\ alive' = [alive EXCEPT ![cur] = TRUE]
          /\ at' = [at EXCEPT ![cur] = "sleeping"]
      BY <1>7, <2>2 DEF BodyEnds, Sleeps, SetsTimer, FlagRaised
    <3>2. frame[cur] = "live" /\ \A t \in Tasks : at[t] = "running" => cur = t
      BY <2>1
    <3>3. cur \notin io BY <2>1
    <3>4. TypeOK' BY <2>1, <3>1
    <3>5. FlagInv' /\ IoInv' BY <2>1, <3>1, <3>2, <3>3
    <3>6. LoopInv' BY <2>1, <3>1, <3>2
    <3> QED BY <2>1, <3>4, <3>5, <3>6
  <2>3. CASE ~(GoesOn(cur) /\ ~throws)
    BY <1>7, <2>1, <2>3 DEF BodyEnds
  <2> QED BY <2>2, <2>3
<1>8. CASE BodyAwaitsIo
  BY <1>8 DEF BodyAwaitsIo
<1>9. CASE UNCHANGED vars
  BY <1>9 DEF vars
<1> QED BY <1>1, <1>2, <1>3, <1>4, <1>5, <1>6, <1>7, <1>8, <1>9 DEF Next, LoopStep

\* cancel() and the destruction of a scheduled_task never lead to the resumption
\* of a destroyed frame, nor destroy a frame that executes, for any number of
\* tasks: as long as they happen on the loop's thread and not while the body
\* awaits I/O.  Without either condition it does not hold.
THEOREM CancelIsSafe == OnLoopOnly => (Spec => []NoDanglingResume)
<1> SUFFICES ASSUME OnLoopOnly PROVE Spec => []NoDanglingResume
  OBVIOUS
<1>1. SInv /\ [Next]_vars => SInv' BY SNext
<1>2. SInv => NoDanglingResume BY DEF SInv
<1> QED BY SInit, <1>1, <1>2, PTL DEF Spec
=============================================================================
