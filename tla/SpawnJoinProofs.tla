--------------------------- MODULE SpawnJoinProofs ---------------------------
(* co_await on a JoinHandle is safe for any number of spawned tasks and any  *)
(* mixture of uses of their handles.                                         *)
EXTENDS SpawnJoin, TLAPS

\* A waiter is installed only before FinalAwaiter has taken it, and taken only
\* after.
WaiterInv ==
  \A i \in Tasks :
    /\ waiter[i] => task[i] \in {"body", "returned", "done"}
    /\ taken[i] => task[i] \in {"took", "final"}

\* The inductive invariant.
IInv ==
  /\ TypeOK /\ WaiterInv
  /\ ResumedOnlyWhileSuspended /\ OutcomeStoredBeforeJoin /\ NoForgottenWaiter

\* spawn() establishes the invariant.
LEMMA InitIInv == Init => IInv
<1> SUFFICES ASSUME Init PROVE IInv
  OBVIOUS
<1>1. TypeOK
  <2>1. waiter \in [Tasks -> BOOLEAN] /\ taken \in [Tasks -> BOOLEAN]
    BY DEF Init
  <2>2. task \in [Tasks -> {"body", "returned", "done", "took", "final"}]
    BY DEF Init
  <2>3. frame \in [Tasks -> {"live", "destroyed"}] /\ \A i \in Tasks : frame[i] # "destroyed"
    BY DEF Init
  <2>4. owner \in [Tasks -> {"holds", "suspending", "suspended", "resumed", "joined",
                             "dropped", "detached", "outer_destroyed"}]
    BY DEF Init
  <2> QED BY <2>1, <2>2, <2>3, <2>4 DEF TypeOK, Init
<1>2. WaiterInv /\ ResumedOnlyWhileSuspended /\ OutcomeStoredBeforeJoin /\ NoForgottenWaiter
  BY DEF Init, WaiterInv, ResumedOnlyWhileSuspended, OutcomeStoredBeforeJoin, NoForgottenWaiter
<1> QED BY <1>1, <1>2 DEF IInv

\* The body's end and FinalAwaiter preserve it.
LEMMA TaskIInv == ASSUME IInv, NEW i \in Tasks, TaskStep(i) PROVE IInv'
<1> USE DEF IInv, WaiterInv, ResumedOnlyWhileSuspended, OutcomeStoredBeforeJoin, NoForgottenWaiter
<1>1. CASE BodyReturns(i)
  BY <1>1 DEF BodyReturns, TypeOK
<1>2. CASE StoreDone(i)
  BY <1>2 DEF StoreDone, TypeOK
<1>3. CASE TakeWaiter(i)
  <2>1. misuse' \subseteq {"own_frame", "outer_frame"}
    BY <1>3 DEF TakeWaiter, TypeOK
  <2>2. taken' \in [Tasks -> BOOLEAN] /\ waiter' \in [Tasks -> BOOLEAN]
    BY <1>3 DEF TakeWaiter, ClearWaiter, TypeOK
  <2> QED BY <1>3, <2>1, <2>2 DEF TakeWaiter, ClearWaiter, TypeOK
<1>4. CASE ResumeWaiter(i)
  <2>1. /\ task[i] = "took" /\ task' = [task EXCEPT ![i] = "final"]
        /\ UNCHANGED <<frame, waiter, taken>>
    BY <1>4 DEF ResumeWaiter
  <2>2. CASE taken[i] /\ owner[i] = "outer_destroyed"
              /\ misuse' = misuse \cup {"outer_frame"} /\ UNCHANGED owner
    BY <2>1, <2>2 DEF TypeOK
  <2>3. CASE taken[i] /\ owner[i] # "outer_destroyed"
              /\ owner' = [owner EXCEPT ![i] = "resumed"] /\ UNCHANGED misuse
    BY <2>1, <2>3 DEF TypeOK
  <2>4. CASE ~taken[i] /\ UNCHANGED <<owner, misuse>>
    BY <2>1, <2>4 DEF TypeOK
  <2> QED BY <1>4, <2>2, <2>3, <2>4 DEF ResumeWaiter
<1> QED BY <1>1, <1>2, <1>3, <1>4 DEF TaskStep

\* The owner's uses of the handle preserve it; the second look at done, under the
\* mutex, is what AwaitSuspend needs.
LEMMA OwnerIInv == ASSUME IInv, NEW i \in Tasks, OwnerStep(i) PROVE IInv'
<1> USE DEF IInv, WaiterInv, ResumedOnlyWhileSuspended, OutcomeStoredBeforeJoin, NoForgottenWaiter
<1>1. CASE AwaitReady(i)
  <2>1. /\ owner[i] = "holds" /\ UNCHANGED <<task, frame, waiter, taken, misuse>>
        /\ \/ owner' = [owner EXCEPT ![i] = "resumed"] /\ Done(i)
           \/ owner' = [owner EXCEPT ![i] = "suspending"]
    BY <1>1 DEF AwaitReady, LooseLoad
  <2>2. CASE owner' = [owner EXCEPT ![i] = "resumed"] /\ Done(i)
    BY <2>1, <2>2 DEF Done, TypeOK
  <2>3. CASE owner' = [owner EXCEPT ![i] = "suspending"]
    BY <2>1, <2>3 DEF TypeOK
  <2> QED BY <2>1, <2>2, <2>3
<1>2. CASE AwaitSuspend(i)
  <2>1. PICK seen \in Recheck(i) :
          IF seen
          THEN owner' = [owner EXCEPT ![i] = "resumed"] /\ UNCHANGED waiter
          ELSE owner' = [owner EXCEPT ![i] = "suspended"] /\ waiter' = [waiter EXCEPT ![i] = TRUE]
    BY <1>2 DEF AwaitSuspend
  <2>2. CASE seen
    <3>1. task[i] \in {"done", "took", "final"}
      BY <2>2 DEF Recheck, LockedLoad, LooseLoad, Done
    <3> QED BY <1>2, <2>1, <2>2, <3>1 DEF AwaitSuspend, TypeOK
  <2>3. CASE ~seen
    <3>1. task[i] \in {"body", "returned", "done"}
      BY <2>3 DEF Recheck, LockedLoad, TypeOK
    <3>2. /\ owner[i] = "suspending" /\ owner' = [owner EXCEPT ![i] = "suspended"]
          /\ waiter' = [waiter EXCEPT ![i] = TRUE] /\ UNCHANGED <<task, frame, taken, misuse>>
      BY <1>2, <2>1, <2>3 DEF AwaitSuspend
    <3>3. waiter' \in [Tasks -> BOOLEAN]
      BY <3>2 DEF TypeOK
    <3>4. \A j \in Tasks : j # i => waiter'[j] = waiter[j] /\ owner'[j] = owner[j]
      BY <3>2 DEF TypeOK
    <3>5. waiter'[i] /\ owner'[i] = "suspended" /\ ~taken[i]
      BY <3>1, <3>2 DEF TypeOK
    <3>6. TypeOK'
      BY <3>2, <3>3 DEF TypeOK
    <3> QED BY <3>1, <3>2, <3>4, <3>5, <3>6
  <2> QED BY <2>2, <2>3
<1>3. CASE AwaitResume(i)
  BY <1>3 DEF AwaitResume, CleanupMovedFrom, TypeOK
<1>4. CASE DropHandle(i)
  <2>1. ~waiter[i] /\ owner[i] = "holds" /\ owner' = [owner EXCEPT ![i] = "dropped"]
        /\ UNCHANGED <<task, taken, misuse>>
    BY <1>4 DEF DropHandle, TypeOK
  <2>2. /\ waiter' \in {waiter, [waiter EXCEPT ![i] = FALSE]}
        /\ frame' \in {frame, [frame EXCEPT ![i] = "destroyed"]}
    BY <1>4 DEF DropHandle
  <2>3. waiter' \in [Tasks -> BOOLEAN] /\ \A j \in Tasks : waiter'[j] <=> waiter[j]
    BY <2>1, <2>2, ZenonT(40) DEF TypeOK
  <2>4. TypeOK'
    <3>1. frame' \in [Tasks -> {"live", "destroyed"}]
      BY <2>2 DEF TypeOK
    <3>2. owner' \in [Tasks -> {"holds", "suspending", "suspended", "resumed", "joined",
                                "dropped", "detached", "outer_destroyed"}]
      BY <2>1 DEF TypeOK
    <3>3. \A j \in Tasks : frame'[j] = "destroyed" => owner'[j] = "dropped"
      <4>1. \A j \in Tasks : j # i => frame'[j] = frame[j] /\ owner'[j] = owner[j]
        BY <2>1, <2>2 DEF TypeOK
      <4>2. owner'[i] = "dropped"
        BY <2>1 DEF TypeOK
      <4> QED BY <4>1, <4>2 DEF TypeOK
    <3>4. task' \in [Tasks -> {"body", "returned", "done", "took", "final"}]
          /\ misuse' \subseteq {"own_frame", "outer_frame"}
      BY <2>1 DEF TypeOK
    <3>5. taken' \in [Tasks -> BOOLEAN]
      BY <2>1 DEF TypeOK
    <3> QED BY <2>3, <3>1, <3>2, <3>3, <3>4, <3>5 DEF TypeOK
  <2>5. \A j \in Tasks : j # i => owner'[j] = owner[j]
    BY <2>1 DEF TypeOK
  <2>6. owner'[i] = "dropped"
    BY <2>1 DEF TypeOK
  <2> QED BY <2>1, <2>3, <2>4, <2>5, <2>6
<1>5. CASE Detach(i)
  BY <1>5 DEF Detach, TypeOK
<1> QED BY <1>1, <1>2, <1>3, <1>4, <1>5 DEF OwnerStep

\* Every step preserves the invariant.
LEMMA NextIInv == IInv /\ [Next]_vars => IInv'
<1> SUFFICES ASSUME IInv, [Next]_vars PROVE IInv'
  OBVIOUS
<1>1. CASE DestroyOuter
  BY <1>1, SpawnAssumption DEF DestroyOuter, Tasks, IInv, WaiterInv, ResumedOnlyWhileSuspended,
       OutcomeStoredBeforeJoin, NoForgottenWaiter, TypeOK
<1>2. CASE UNCHANGED vars
  BY <1>2 DEF vars, IInv, WaiterInv, ResumedOnlyWhileSuspended, OutcomeStoredBeforeJoin,
       NoForgottenWaiter, TypeOK
<1> QED BY <1>1, <1>2, TaskIInv, OwnerIInv DEF Next

\* For any number of spawned tasks: an awaiting coroutine is never forgotten, never
\* resumed twice, and never resumed before the outcome is stored.
THEOREM JoinIsSafe ==
  Spec => [](TypeOK /\ ResumedOnlyWhileSuspended /\ OutcomeStoredBeforeJoin /\ NoForgottenWaiter)
<1>1. IInv => TypeOK /\ ResumedOnlyWhileSuspended /\ OutcomeStoredBeforeJoin /\ NoForgottenWaiter
  BY DEF IInv
<1> QED BY <1>1, InitIInv, NextIInv, PTL DEF Spec
=============================================================================
