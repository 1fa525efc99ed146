--------------------------- MODULE IoContextProofs ---------------------------
(* The event loop for any number of clients, functions and timers: what       *)
(* run_until_complete() leaves done, with any number of loop threads, and why *)
(* a loop thread that is alone does not sleep over anything.                  *)
EXTENDS IoContext, FiniteSetTheorems, NaturalsInduction, TLAPS

\* The function f is in the sequence.
Holds(s, f) == \E i \in 1 .. Len(s) : s[i] = f

\* A timer that is queued, or whose callback holds a guard, was registered.
TimerInv == \A t \in timers \cup sleepers : deadline[t] # -1

\* A function that was posted and not executed is in pending_ or in the local
\* queue of a loop thread, which is empty unless execute_pending runs.
QueueInv ==
  /\ \A l \in Loops : loop[l] # "run_fns" => batch[l] = <<>>
  /\ \A f \in Fns : ran[f] \in {"posted", "late"} =>
       Holds(pending, f) \/ \E l \in Loops : Holds(batch[l], f)
  /\ \A f \in covered : ran[f] # "new"

\* And it is there once: no function is executed again.
Once(s) == \A i, j \in 1 .. Len(s) : s[i] = s[j] => i = j
OnceInv ==
  /\ Once(pending) /\ \A l \in Loops : Once(batch[l])
  /\ \A f \in Fns : Holds(pending, f) => ran[f] \in {"posted", "late"}
  /\ \A f \in Fns, l \in Loops :
       Holds(batch[l], f) =>
         /\ ran[f] \in {"posted", "late"} /\ ~Holds(pending, f)
         /\ \A k \in Loops : Holds(batch[k], f) => k = l

\* Loop threads leave only in run_until_complete() or after stop(); once all of
\* them have seen a work_count_ of 0 and none of them executes callbacks, there is
\* nobody left who could raise it.
ExitInv ==
  /\ \A l \in Loops : loop[l] = "check_pending" \/ (loop[l] = "exited" /\ ~stopped)
                        => Mode = "run_until_complete"
  /\ (\A l \in Loops : loop[l] \in {"check_pending", "exited"}) /\ ~stopped => work = 0

\* The inductive invariant for CompleteMeansComplete.
CInv == TypeOK /\ TimerInv /\ QueueInv /\ OnceInv /\ ExitInv /\ CompleteMeansComplete

\* The loop thread is or will be woken.
Roused == woken \/ waking # {}

\* The wake-ups from the last look at something until the end of the next poll:
\* pending_ is looked at when it is swapped, stopped_ and work_count_ at the head of
\* the loop, and the timers when the timeout is computed.
WakeAt(l) ==
  /\ loop[l] \in {"run_fns", "check", "check_pending", "timeout", "poll"} /\ pending # <<>>
       => Roused
  /\ loop[l] \in {"check_pending", "timeout", "poll"} /\ stopped => Roused
  /\ loop[l] \in {"timeout", "poll"} /\ Mode = "run_until_complete" /\ work = 0 => Roused
  /\ loop[l] = "poll" /\ now < pollEnd[l] /\ (\E t \in timers : deadline[t] < pollEnd[l])
       => Roused
WakeInv == \A l \in Loops : WakeAt(l)

\* run() or run_until_complete() is executed by one thread.
Alone == \A k, l \in Loops : k = l

-----------------------------------------------------------------------------
\* Facts about the counter, the queues and the timers.

LEMMA FiniteGuards == ASSUME TypeOK PROVE IsFiniteSet(guard) /\ IsFiniteSet(sleepers)
BY FS_Subset, IoContextAssumption DEF TypeOK

\* work_count_ is 0 only when nobody holds a guard.
LEMMA NoWork == ASSUME TypeOK, work = 0 PROVE guard = {} /\ sleepers = {}
<1>1. IsFiniteSet(guard) /\ IsFiniteSet(sleepers) BY FiniteGuards
<1>2. Cardinality(guard) \in Nat /\ Cardinality(sleepers) \in Nat BY <1>1, FS_CardinalityType
<1>3. Cardinality(guard) = 0 /\ Cardinality(sleepers) = 0 BY <1>2 DEF TypeOK
<1> QED BY <1>1, <1>3, FS_EmptySet

\* A set of natural numbers that is not empty has a least one.
LEMMA Least == ASSUME NEW S \in SUBSET Nat, S # {} PROVE \E m \in S : \A n \in S : m <= n
<1> DEFINE R == {ss \in Nat \X Nat : ss[1] < ss[2]}
<1>1. IsWellFoundedOn(R, Nat) BY NatLessThanWellFounded DEF OpToRel
<1>2. PICK m \in S : \A n \in S : ~(<<n, m>> \in R) BY <1>1, WFMin, Zenon
<1>3. ASSUME NEW n \in S PROVE m <= n
  <2>1. n < m => <<n, m>> \in R OBVIOUS
  <2> QED BY <1>2, <2>1
<1> QED BY <1>3

\* next_timer_timeout_ms: a poll that waits at all does not wait longer than for the
\* first timer.
LEMMA TimeoutIsFirst ==
  ASSUME TypeOK, TimerInv
  PROVE  /\ NextTimeout \in Nat
         /\ NextTimeout > 0 => \A t \in timers : now + NextTimeout <= deadline[t]
<1>1. CASE timers = {}
  BY <1>1, IoContextAssumption DEF NextTimeout
<1>2. CASE timers # {}
  <2> DEFINE S == {deadline[t] : t \in timers}
             first == CHOOSE t \in timers : \A u \in timers : deadline[t] <= deadline[u]
  <2>1. \A t \in timers : deadline[t] \in Nat
    BY IoContextAssumption DEF TypeOK, TimerInv
  <2>2. S \in SUBSET Nat /\ S # {} BY <1>2, <2>1
  <2>3. PICK m \in S : \A n \in S : m <= n BY <2>2, Least
  <2>4. \E t \in timers : \A u \in timers : deadline[t] <= deadline[u] BY <2>3
  <2>5. first \in timers /\ \A u \in timers : deadline[first] <= deadline[u] BY <2>4
  <2>6. NextTimeout = IF deadline[first] <= now THEN 0 ELSE deadline[first] - now
    BY <1>2 DEF NextTimeout
  <2> HIDE DEF first
  <2>7. now \in Nat BY DEF TypeOK
  <2> QED BY <2>1, <2>5, <2>6, <2>7
<1> QED BY <1>1, <1>2

\* What the queue operations do to the functions in a queue.
LEMMA HoldsAppend ==
  ASSUME NEW s \in Seq(Fns), NEW f \in Fns
  PROVE  /\ Append(s, f) \in Seq(Fns) /\ Append(s, f) # <<>>
         /\ \A g : Holds(Append(s, f), g) <=> Holds(s, g) \/ g = f
         /\ Once(s) /\ ~Holds(s, f) => Once(Append(s, f))
<1>1. /\ Append(s, f) \in Seq(Fns) /\ Len(Append(s, f)) = Len(s) + 1
      /\ Append(s, f)[Len(s) + 1] = f
      /\ \A i \in 1 .. Len(s) : Append(s, f)[i] = s[i]
      /\ Len(s) \in Nat
  OBVIOUS
<1>2. ASSUME NEW g PROVE Holds(Append(s, f), g) <=> Holds(s, g) \/ g = f
  BY <1>1 DEF Holds
<1>3. Once(s) /\ ~Holds(s, f) => Once(Append(s, f))
  BY <1>1 DEF Holds, Once
<1> QED BY <1>1, <1>2, <1>3

LEMMA HoldsTail ==
  ASSUME NEW s \in Seq(Fns), s # <<>>
  PROVE  /\ Tail(s) \in Seq(Fns) /\ Head(s) \in Fns /\ Holds(s, Head(s))
         /\ \A g : Holds(Tail(s), g) => Holds(s, g)
         /\ \A g : Holds(s, g) => g = Head(s) \/ Holds(Tail(s), g)
         /\ Once(s) => Once(Tail(s)) /\ ~Holds(Tail(s), Head(s))
<1>1. /\ Tail(s) \in Seq(Fns) /\ Len(s) \in Nat /\ Len(s) > 0 /\ Len(Tail(s)) = Len(s) - 1
      /\ Head(s) = s[1] /\ s[1] \in Fns
      /\ \A i \in 1 .. Len(s) - 1 : Tail(s)[i] = s[i + 1]
  OBVIOUS
<1>2. Holds(s, Head(s)) BY <1>1 DEF Holds
<1>3. ASSUME NEW g, Holds(Tail(s), g) PROVE Holds(s, g)
  <2>1. PICK i \in 1 .. Len(Tail(s)) : Tail(s)[i] = g BY <1>3 DEF Holds
  <2>2. i + 1 \in 1 .. Len(s) /\ s[i + 1] = g BY <1>1, <2>1
  <2> QED BY <2>2 DEF Holds
<1>4. ASSUME NEW g, Holds(s, g), g # Head(s) PROVE Holds(Tail(s), g)
  <2>1. PICK i \in 1 .. Len(s) : s[i] = g BY <1>4 DEF Holds
  <2>2. i # 1 BY <1>1, <1>4, <2>1
  <2>3. i - 1 \in 1 .. Len(Tail(s)) /\ Tail(s)[i - 1] = s[i] BY <1>1, <2>2
  <2> QED BY <2>1, <2>3 DEF Holds
<1>5. ASSUME Once(s) PROVE Once(Tail(s))
  BY <1>1, <1>5 DEF Once
<1>6. ASSUME Once(s) PROVE ~Holds(Tail(s), Head(s))
  BY <1>1, <1>6 DEF Once, Holds
<1> QED BY <1>1, <1>2, <1>3, <1>4, <1>5, <1>6

LEMMA HoldsNothing == Once(<<>>) /\ \A g : ~Holds(<<>>, g)
BY DEF Holds, Once

-----------------------------------------------------------------------------
\* run_until_complete() completes.

\* Once every loop thread has left or seen that there is no work, whoever can call
\* the context is a client without a guard.
LEMMA NobodyCounts ==
  ASSUME CInv, ~stopped, \A l \in Loops : loop[l] \in {"check_pending", "exited"},
         NEW c \in Threads, CanCall(c)
  PROVE  c \notin Loops /\ guard = {} /\ sleepers = {} /\ work = 0
<1>1. work = 0 BY DEF CInv, ExitInv
<1>2. guard = {} /\ sleepers = {} BY <1>1, NoWork DEF CInv
<1>3. c \notin Loops BY DEF CanCall, InCallback
<1> QED BY <1>1, <1>2, <1>3

LEMMA CInit == Init => CInv
<1> SUFFICES ASSUME Init PROVE CInv
  OBVIOUS
<1>1. TypeOK
  <2>1. Cardinality(Clients) \in Nat /\ Cardinality({}) = 0
    BY IoContextAssumption, FS_CardinalityType, FS_EmptySet
  <2>2. work \in Nat /\ work = Cardinality(guard) + Cardinality(sleepers)
    BY <2>1 DEF Init
  <2>3. deadline \in [Timers -> -1 .. Horizon] /\ now \in 0 .. Horizon
    BY IoContextAssumption DEF Init
  <2>4. /\ loop \in [Loops -> {"check", "check_pending", "timeout", "poll", "collect",
                               "run_timers", "swap", "run_fns", "exited"}]
        /\ pollEnd \in [Loops -> Nat] /\ batch \in [Loops -> Seq(Fns)]
        /\ expired \in [Loops -> SUBSET Timers]
    BY DEF Init
  <2>5. ran \in [Fns -> {"new", "posted", "late", "done"}] /\ pending \in Seq(Fns)
    BY DEF Init
  <2> QED BY <2>2, <2>3, <2>4, <2>5 DEF Init, TypeOK
<1>2. TimerInv BY DEF Init, TimerInv
<1>3. QueueInv /\ OnceInv BY HoldsNothing DEF Init, QueueInv, OnceInv
<1>4. ExitInv /\ CompleteMeansComplete
  BY IoContextAssumption DEF Init, ExitInv, CompleteMeansComplete
<1> QED BY <1>1, <1>2, <1>3, <1>4 DEF CInv

\* post_impl
LEMMA CPost == ASSUME CInv, NEW c \in Threads, NEW f \in Fns, Post(c, f) PROVE CInv'
<1>1. /\ CanCall(c) /\ ran[f] = "new" /\ pending' = Append(pending, f)
      /\ ran' = [ran EXCEPT ![f] = IF \A l \in Loops : loop[l] = "exited" THEN "late" ELSE "posted"]
      /\ covered' = IF c \in Loops \cup guard THEN covered \cup {f} ELSE covered
      /\ waking' = waking \cup {c}
      /\ UNCHANGED <<timers, deadline, stopped, work, woken, now, guard, sleepers, loopVars>>
  BY DEF Post, ThenWake
<1>2. UNCHANGED <<loop, pollEnd, batch, expired>> BY <1>1 DEF loopVars
<1>3. /\ pending' \in Seq(Fns) /\ \A g : Holds(pending', g) <=> Holds(pending, g) \/ g = f
      /\ Once(pending) /\ ~Holds(pending, f) => Once(pending')
  BY <1>1, HoldsAppend DEF CInv, TypeOK
<1>4. /\ ran'[f] \in {"posted", "late"}
      /\ \A g \in Fns : g # f => ran'[g] = ran[g]
      /\ ran' \in [Fns -> {"new", "posted", "late", "done"}]
  BY <1>1 DEF CInv, TypeOK
<1>5. TypeOK' BY <1>1, <1>2, <1>3, <1>4 DEF CInv, TypeOK
<1>6. TimerInv' /\ ExitInv' BY <1>1, <1>2 DEF CInv, TimerInv, ExitInv
<1>7. QueueInv' BY <1>1, <1>2, <1>3, <1>4 DEF CInv, QueueInv, TypeOK
<1>8. OnceInv'
  <2>1. ~Holds(pending, f) /\ \A l \in Loops : ~Holds(batch[l], f)
    BY <1>1 DEF CInv, OnceInv
  <2> QED BY <1>2, <1>3, <1>4, <2>1 DEF CInv, OnceInv
<1>9. CompleteMeansComplete'
  <2> SUFFICES ASSUME \A l \in Loops : loop[l] = "exited", ~stopped
               PROVE  CompleteMeansComplete'
    BY <1>1, <1>2 DEF CompleteMeansComplete
  <2>1. c \notin Loops /\ guard = {} /\ sleepers = {} BY <1>1, NobodyCounts
  <2>2. covered' = covered BY <1>1, <2>1
  <2>3. \A g \in covered : ran[g] = "done" BY DEF CInv, CompleteMeansComplete
  <2>4. \A g \in covered : ran'[g] = "done" BY <1>1, <1>4, <2>3 DEF CInv, TypeOK
  <2> QED BY <1>1, <2>1, <2>2, <2>4 DEF CompleteMeansComplete
<1> QED BY <1>5, <1>6, <1>7, <1>8, <1>9 DEF CInv

\* post_at, post_after and sleep_for: only the last counts work, and only on a loop
\* thread.
LEMMA CTimer ==
  ASSUME CInv, NEW c \in Threads, NEW t \in Timers, NEW d \in now .. Horizon,
         PostAt(c, t, d) \/ Sleep(c, t, d)
  PROVE  CInv'
<1>1. /\ CanCall(c) /\ deadline[t] = -1
      /\ timers' = timers \cup {t} /\ deadline' = [deadline EXCEPT ![t] = d]
      /\ waking' = waking \cup {c}
      /\ UNCHANGED <<pending, stopped, woken, now, guard, ran, covered, loopVars>>
  BY DEF PostAt, Sleep, AddTimer, ThenWake
<1>2. UNCHANGED <<loop, pollEnd, batch, expired>> BY <1>1 DEF loopVars
<1>3. \/ UNCHANGED <<work, sleepers>>
      \/ c \in Loops /\ sleepers' = sleepers \cup {t} /\ work' = work + 1
  BY DEF PostAt, Sleep, GuardForSleep
<1>4. t \notin sleepers BY <1>1 DEF CInv, TimerInv
<1>5. d \in -1 .. Horizon /\ d # -1 BY IoContextAssumption DEF CInv, TypeOK
<1>6. work' \in Nat /\ work' = Cardinality(guard') + Cardinality(sleepers') /\ sleepers' \subseteq Timers
  <2>1. IsFiniteSet(guard) /\ IsFiniteSet(sleepers) BY FiniteGuards DEF CInv
  <2>2. Cardinality(guard) \in Nat /\ Cardinality(sleepers) \in Nat BY <2>1, FS_CardinalityType
  <2>3. Cardinality(sleepers \cup {t}) = Cardinality(sleepers) + 1 BY <1>4, <2>1, FS_AddElement
  <2>4. /\ work \in Nat /\ work = Cardinality(guard) + Cardinality(sleepers)
        /\ sleepers \subseteq Timers /\ guard' = guard
    BY <1>1 DEF CInv, TypeOK
  <2>5. CASE UNCHANGED <<work, sleepers>> BY <2>4, <2>5
  <2>6. CASE sleepers' = sleepers \cup {t} /\ work' = work + 1 BY <2>2, <2>3, <2>4, <2>6
  <2> QED BY <1>3, <2>5, <2>6
<1>7. TypeOK' BY <1>1, <1>2, <1>5, <1>6 DEF CInv, TypeOK
<1>8. TimerInv' BY <1>1, <1>3, <1>5 DEF CInv, TypeOK, TimerInv
<1>9. QueueInv' /\ OnceInv' BY <1>1, <1>2 DEF CInv, QueueInv, OnceInv
<1>10. ExitInv' BY <1>1, <1>2, <1>3, NobodyCounts DEF CInv, ExitInv
<1>11. CompleteMeansComplete'
  <2> SUFFICES ASSUME \A l \in Loops : loop[l] = "exited", ~stopped
               PROVE  CompleteMeansComplete'
    BY <1>1, <1>2 DEF CompleteMeansComplete
  <2>1. c \notin Loops BY <1>1, NobodyCounts
  <2> QED BY <1>1, <1>2, <1>3, <2>1 DEF CInv, CompleteMeansComplete
<1> QED BY <1>7, <1>8, <1>9, <1>10, <1>11 DEF CInv

\* stop()
LEMMA CStop == ASSUME CInv, NEW c \in Threads, Stop(c) PROVE CInv'
<1>1. /\ stopped' = TRUE /\ waking' = waking \cup {c}
      /\ UNCHANGED <<pending, timers, deadline, work, woken, now, guard, sleepers, ran, covered>>
      /\ UNCHANGED <<loop, pollEnd, batch, expired>>
  BY DEF Stop, ThenWake, loopVars
<1>2. TypeOK' BY <1>1 DEF CInv, TypeOK
<1>3. TimerInv' /\ QueueInv' /\ OnceInv' BY <1>1 DEF CInv, TimerInv, QueueInv, OnceInv
<1>4. ExitInv' /\ CompleteMeansComplete' BY <1>1 DEF CInv, ExitInv, CompleteMeansComplete
<1> QED BY <1>2, <1>3, <1>4 DEF CInv

\* work_guard: copied and released.
LEMMA CGuard ==
  ASSUME CInv, NEW c \in Threads,
         (\E d \in Clients : CopyGuard(c, d)) \/ ReleaseGuard(c)
  PROVE  CInv'
<1>1. /\ CanCall(c) /\ c \in guard /\ waking' \subseteq waking \cup {c}
      /\ UNCHANGED <<pending, timers, deadline, stopped, woken, now, sleepers, ran, covered>>
      /\ UNCHANGED <<loop, pollEnd, batch, expired>>
  BY DEF CopyGuard, ReleaseGuard, ThenWake, loopVars
<1>2. guard' \subseteq Clients /\ work' \in Nat /\ work' = Cardinality(guard') + Cardinality(sleepers')
  <2>1. /\ work \in Nat /\ work = Cardinality(guard) + Cardinality(sleepers)
        /\ guard \subseteq Clients /\ sleepers' = sleepers
    BY <1>1 DEF CInv, TypeOK
  <2>2. IsFiniteSet(guard) /\ IsFiniteSet(sleepers) BY FiniteGuards DEF CInv
  <2>3. Cardinality(guard) \in Nat /\ Cardinality(sleepers) \in Nat BY <2>2, FS_CardinalityType
  <2>4. ASSUME NEW d \in Clients, CopyGuard(c, d)
        PROVE  guard' \subseteq Clients /\ work' \in Nat /\ work' = Cardinality(guard') + Cardinality(sleepers')
    <3>1. d \notin guard /\ guard' = guard \cup {d} /\ work' = work + 1 BY <2>4 DEF CopyGuard
    <3>2. Cardinality(guard \cup {d}) = Cardinality(guard) + 1 BY <2>2, <3>1, FS_AddElement
    <3> QED BY <2>1, <2>3, <3>1, <3>2
  <2>5. CASE ReleaseGuard(c)
    <3>1. guard' = guard \ {c} /\ work' = work - 1 BY <2>5 DEF ReleaseGuard
    <3>2. /\ Cardinality(guard \ {c}) = Cardinality(guard) - 1 /\ IsFiniteSet(guard \ {c})
      BY <1>1, <2>2, FS_RemoveElement
    <3>3. Cardinality(guard \ {c}) \in Nat BY <3>2, FS_CardinalityType
    <3> QED BY <2>1, <2>3, <3>1, <3>2, <3>3
  <2> QED BY <2>4, <2>5
<1>3. TypeOK' BY <1>1, <1>2 DEF CInv, TypeOK
<1>4. TimerInv' /\ QueueInv' /\ OnceInv' BY <1>1 DEF CInv, TimerInv, QueueInv, OnceInv
<1>5. (\A l \in Loops : loop[l] \in {"check_pending", "exited"}) => stopped
  BY <1>1, NobodyCounts
<1>6. ExitInv' /\ CompleteMeansComplete'
  BY <1>1, <1>5 DEF CInv, ExitInv, CompleteMeansComplete
<1> QED BY <1>3, <1>4, <1>6 DEF CInv

\* The steps of a loop thread that change only where it is, and the clock.
LEMMA CMove ==
  ASSUME CInv, NEW l \in Loops,
         Check(l) \/ CheckPending(l) \/ ComputeTimeout(l) \/ PollWoken(l) \/ PollTimeout(l)
           \/ TimersDone(l) \/ FnsDone(l)
  PROVE  CInv'
<1> DEFINE to == loop'[l]
<1>1. /\ UNCHANGED <<pending, timers, deadline, stopped, work, now, waking, guard, sleepers,
                     ran, covered, batch, expired>>
      /\ loop' = [loop EXCEPT ![l] = to]
      /\ loop[l] \in {"check", "check_pending", "timeout", "poll", "run_timers", "run_fns"}
      /\ to \in {"check_pending", "timeout", "poll", "collect", "swap", "check", "exited"}
  BY DEF Check, CheckPending, ComputeTimeout, PollWoken, PollTimeout, TimersDone, FnsDone, Goto,
         shared, CInv, TypeOK
<1>2. pollEnd' \in [Loops -> Nat] /\ woken' \in BOOLEAN
  <2>1. CASE ComputeTimeout(l)
    <3>1. NextTimeout \in Nat /\ now \in Nat BY TimeoutIsFirst DEF CInv, TypeOK
    <3> QED BY <2>1, <3>1 DEF ComputeTimeout, shared, CInv, TypeOK
  <2>2. CASE ~ComputeTimeout(l)
    BY <2>2 DEF Check, CheckPending, PollWoken, PollTimeout, TimersDone, FnsDone, shared, CInv, TypeOK
  <2> QED BY <2>1, <2>2
<1>3. /\ to = "check_pending" => Mode = "run_until_complete" /\ work = 0
      /\ to = "exited" /\ ~stopped => loop[l] = "check_pending" /\ pending = <<>>
  BY DEF Check, StopSeen, CheckPending, NothingPending, ComputeTimeout, PollWoken, PollTimeout,
         TimersDone, FnsDone, Goto, CInv, TypeOK
<1>4. loop[l] = "run_fns" => batch[l] = <<>>
  BY <1>1 DEF Check, CheckPending, ComputeTimeout, PollWoken, PollTimeout, TimersDone, FnsDone
<1> HIDE DEF to
<1>5. TypeOK' BY <1>1, <1>2 DEF CInv, TypeOK
<1>6. TimerInv' /\ OnceInv' BY <1>1 DEF CInv, TimerInv, OnceInv
<1>7. QueueInv' BY <1>1, <1>4 DEF CInv, TypeOK, QueueInv
<1>8. \A k \in Loops : loop'[k] = IF k = l THEN to ELSE loop[k] BY <1>1 DEF CInv, TypeOK
<1>9. ExitInv' BY <1>1, <1>3, <1>8 DEF CInv, ExitInv
<1>10. CompleteMeansComplete'
  <2> SUFFICES ASSUME \A k \in Loops : loop'[k] = "exited", ~stopped PROVE CompleteMeansComplete'
    BY <1>1 DEF CompleteMeansComplete
  <2>1. loop[l] = "check_pending" /\ pending = <<>> BY <1>3, <1>8
  <2>2. \A k \in Loops : loop[k] \in {"check_pending", "exited"} BY <1>8, <2>1
  <2>3. work = 0 BY <2>2 DEF CInv, ExitInv
  <2>4. guard = {} /\ sleepers = {} BY <2>3, NoWork DEF CInv
  <2>5. \A k \in Loops : batch[k] = <<>> BY <2>2 DEF CInv, QueueInv
  <2>6. \A f \in covered : ran[f] = "done"
    BY <2>1, <2>5, HoldsNothing DEF CInv, TypeOK, QueueInv
  <2> QED BY <1>1, <2>4, <2>6 DEF CompleteMeansComplete
<1> QED BY <1>5, <1>6, <1>7, <1>9, <1>10 DEF CInv

\* process_timers: the due timers are taken, and their callbacks run; a sleeper's
\* gives its guard back.
LEMMA CTimers == ASSUME CInv, NEW l \in Loops, CollectTimers(l) \/ RunTimer(l) PROVE CInv'
<1>1. CASE CollectTimers(l)
  <2>1. /\ loop[l] = "collect" /\ loop' = [loop EXCEPT ![l] = "run_timers"]
        /\ expired' = [expired EXCEPT ![l] = {t \in timers : Due(t)}]
        /\ timers' \subseteq timers
        /\ UNCHANGED <<pending, deadline, stopped, work, woken, now, waking, guard, sleepers,
                       ran, covered, pollEnd, batch>>
    BY <1>1 DEF CollectTimers, Goto
  <2>2. TypeOK' BY <2>1 DEF CInv, TypeOK
  <2>3. TimerInv' /\ OnceInv' BY <2>1 DEF CInv, TimerInv, OnceInv
  <2>4. QueueInv' BY <2>1 DEF CInv, TypeOK, QueueInv
  <2>5. ExitInv' /\ CompleteMeansComplete'
    BY <2>1 DEF CInv, TypeOK, ExitInv, CompleteMeansComplete
  <2> QED BY <2>2, <2>3, <2>4, <2>5 DEF CInv
<1>2. CASE RunTimer(l)
  <2>1. PICK t \in expired[l] :
          /\ expired' = [expired EXCEPT ![l] = @ \ {t}]
          /\ sleepers' = sleepers \ {t}
          /\ work' = IF t \in sleepers THEN work - 1 ELSE work
          /\ woken' = (woken \/ t \in sleepers)
    BY <1>2 DEF RunTimer
  <2>2. /\ loop[l] = "run_timers"
        /\ UNCHANGED <<pending, timers, deadline, stopped, now, waking, guard, ran, covered,
                       loop, pollEnd, batch>>
    BY <1>2 DEF RunTimer
  <2>3. work' \in Nat /\ work' = Cardinality(guard') + Cardinality(sleepers')
    <3>1. work \in Nat /\ work = Cardinality(guard) + Cardinality(sleepers) BY DEF CInv, TypeOK
    <3>2. IsFiniteSet(guard) /\ IsFiniteSet(sleepers) BY FiniteGuards DEF CInv
    <3>3. /\ IsFiniteSet(sleepers \ {t})
          /\ Cardinality(sleepers \ {t}) =
               IF t \in sleepers THEN Cardinality(sleepers) - 1 ELSE Cardinality(sleepers)
      BY <3>2, FS_RemoveElement
    <3>4. Cardinality(guard) \in Nat /\ Cardinality(sleepers \ {t}) \in Nat
          /\ Cardinality(sleepers) \in Nat
      BY <3>2, <3>3, FS_CardinalityType
    <3> QED BY <2>1, <2>2, <3>1, <3>3, <3>4
  <2>4. TypeOK' BY <2>1, <2>2, <2>3 DEF CInv, TypeOK
  <2>5. TimerInv' BY <2>1, <2>2 DEF CInv, TimerInv
  <2>6. QueueInv' /\ OnceInv' BY <2>2 DEF CInv, QueueInv, OnceInv
  <2>7. ExitInv' /\ CompleteMeansComplete'
    BY <2>2 DEF CInv, ExitInv, CompleteMeansComplete
  <2> QED BY <2>4, <2>5, <2>6, <2>7 DEF CInv
<1> QED BY <1>1, <1>2

\* execute_pending: the swap moves every posted function to one thread's queue, and
\* the head of a queue leaves it when it has been executed.
LEMMA CFns == ASSUME CInv, NEW l \in Loops, SwapPending(l) \/ RunFn(l) PROVE CInv'
<1>1. CASE SwapPending(l)
  <2>1. /\ loop[l] = "swap" /\ loop' = [loop EXCEPT ![l] = "run_fns"]
        /\ batch' = [batch EXCEPT ![l] = pending] /\ pending' = <<>>
        /\ UNCHANGED <<timers, deadline, stopped, work, woken, now, waking, guard, sleepers,
                       ran, covered, pollEnd, expired>>
    BY <1>1 DEF SwapPending, TakePending, Goto
  <2>2. batch[l] = <<>> BY <2>1 DEF CInv, QueueInv
  <2>3. \A k \in Loops : (k # l => loop'[k] = loop[k] /\ batch'[k] = batch[k])
    BY <2>1 DEF CInv, TypeOK
  <2>4. loop'[l] = "run_fns" /\ batch'[l] = pending BY <2>1 DEF CInv, TypeOK
  <2>5. TypeOK' BY <2>1 DEF CInv, TypeOK
  <2>6. TimerInv' BY <2>1 DEF CInv, TimerInv
  <2>7. ASSUME NEW f, Holds(pending, f) \/ \E k \in Loops : Holds(batch[k], f)
        PROVE  Holds(pending', f) \/ \E k \in Loops : Holds(batch'[k], f)
    BY <2>2, <2>3, <2>4, <2>7, HoldsNothing
  <2>8. QueueInv'
    <3>1. \A k \in Loops : loop'[k] # "run_fns" => batch'[k] = <<>>
      BY <2>3, <2>4 DEF CInv, QueueInv
    <3> QED BY <2>1, <2>7, <3>1 DEF CInv, QueueInv
  <2>9. OnceInv' BY <2>1, <2>2, <2>3, <2>4, HoldsNothing DEF CInv, OnceInv
  <2>10. ExitInv' /\ CompleteMeansComplete'
    BY <2>1, <2>3, <2>4 DEF CInv, ExitInv, CompleteMeansComplete
  <2> QED BY <2>5, <2>6, <2>8, <2>9, <2>10 DEF CInv
<1>2. CASE RunFn(l)
  <2> DEFINE s == batch[l]
  <2>1. /\ loop[l] = "run_fns" /\ s # <<>> /\ ran' = [ran EXCEPT ![Head(s)] = "done"]
        /\ batch' = [batch EXCEPT ![l] = Tail(s)]
        /\ UNCHANGED <<pending, timers, deadline, stopped, work, woken, now, waking, guard,
                       sleepers, covered, loop, pollEnd, expired>>
    BY <1>2 DEF RunFn
  <2>2. s \in Seq(Fns) BY DEF CInv, TypeOK
  <2>3. \A k \in Loops : batch'[k] = IF k = l THEN Tail(s) ELSE batch[k]
    BY <2>1 DEF CInv, TypeOK
  <2>4. Once(s) /\ \A k \in Loops : Once(batch[k]) BY DEF CInv, OnceInv
  <2> HIDE DEF s
  <2>5. /\ Tail(s) \in Seq(Fns) /\ Head(s) \in Fns /\ Holds(s, Head(s))
        /\ \A g : Holds(Tail(s), g) => Holds(s, g)
        /\ \A g : Holds(s, g) => g = Head(s) \/ Holds(Tail(s), g)
        /\ Once(Tail(s)) /\ ~Holds(Tail(s), Head(s))
    BY <2>1, <2>2, <2>4, HoldsTail
  <2>6. \A f \in Fns : ran'[f] = IF f = Head(s) THEN "done" ELSE ran[f]
    BY <2>1 DEF CInv, TypeOK
  <2>7. TypeOK' BY <2>1, <2>5 DEF CInv, TypeOK
  <2>8. TimerInv' /\ ExitInv' BY <2>1 DEF CInv, TimerInv, ExitInv
  <2>9. QueueInv' BY <2>1, <2>3, <2>5, <2>6 DEF CInv, TypeOK, QueueInv, s
  <2>10. OnceInv'
    <3>1. ~Holds(pending, Head(s)) /\ \A k \in Loops : k # l => ~Holds(batch[k], Head(s))
      BY <2>5 DEF CInv, OnceInv, s
    <3>2. \A f \in Fns, k \in Loops : Holds(batch'[k], f) => Holds(batch[k], f) /\ f # Head(s)
      BY <2>3, <2>5, <3>1 DEF s
    <3>3. Once(pending) /\ \A f \in Fns : Holds(pending, f) => ran'[f] \in {"posted", "late"}
      BY <2>6, <3>1 DEF CInv, OnceInv
    <3>4. \A k \in Loops : Once(batch'[k]) BY <2>3, <2>4, <2>5
    <3> QED BY <2>1, <2>6, <3>2, <3>3, <3>4 DEF CInv, OnceInv
  <2>11. CompleteMeansComplete' BY <2>1 DEF CompleteMeansComplete
  <2> QED BY <2>7, <2>8, <2>9, <2>10, <2>11 DEF CInv
<1> QED BY <1>1, <1>2

LEMMA CNext == CInv /\ [Next]_vars => CInv'
<1> SUFFICES ASSUME CInv, [Next]_vars PROVE CInv'
  OBVIOUS
<1>1. ASSUME NEW c \in Threads, Call(c) PROVE CInv'
  BY <1>1, CPost, CTimer, CStop, CGuard DEF Call
<1>2. ASSUME NEW c \in Threads, Wake(c) PROVE CInv'
  BY <1>2 DEF Wake, loopVars, CInv, TypeOK, TimerInv, QueueInv, OnceInv, ExitInv,
              CompleteMeansComplete
<1>3. ASSUME NEW l \in Loops, LoopStep(l) PROVE CInv'
  BY <1>3, CMove, CTimers, CFns DEF LoopStep
<1>4. CASE Tick
  <2>1. now' \in 0 .. Horizon BY <1>4, IoContextAssumption DEF Tick, CInv, TypeOK
  <2>2. TypeOK' BY <1>4, <2>1 DEF Tick, loopVars, CInv, TypeOK
  <2> QED BY <1>4, <2>2 DEF Tick, loopVars, CInv, TimerInv, QueueInv, OnceInv, ExitInv,
                           CompleteMeansComplete
<1>5. CASE UNCHANGED vars
  BY <1>5 DEF vars, CInv, TypeOK, TimerInv, QueueInv, OnceInv, ExitInv, CompleteMeansComplete
<1> QED BY <1>1, <1>2, <1>3, <1>4, <1>5 DEF Next

-----------------------------------------------------------------------------
\* CompleteMeansComplete: run_until_complete() returns, unless stop() was called,
\* only after every function posted by a guard's holder or by a callback has been
\* executed, and with nobody asleep.  For any number of threads that execute it.
THEOREM NothingLeftBehind == Spec => []CompleteMeansComplete
<1>1. CInv => CompleteMeansComplete BY DEF CInv
<1> QED BY CInit, CNext, <1>1, PTL DEF Spec

\* A function that execute_pending is about to call was posted and has not been
\* called before: no two loop threads execute one function, and none does it twice.
NoneTwice ==
  \A l \in Loops : batch[l] # <<>> => ran[Head(batch[l])] \in {"posted", "late"}

\* post(): a posted function is called at most once, however many threads execute
\* the loop.
THEOREM CalledOnce == Spec => []NoneTwice
<1>1. ASSUME CInv PROVE NoneTwice
  <2> SUFFICES ASSUME NEW l \in Loops, batch[l] # <<>>
               PROVE  ran[Head(batch[l])] \in {"posted", "late"}
    BY DEF NoneTwice
  <2>1. batch[l] \in Seq(Fns) BY <1>1 DEF CInv, TypeOK
  <2>2. Head(batch[l]) \in Fns /\ Holds(batch[l], Head(batch[l])) BY <2>1, HoldsTail
  <2> QED BY <1>1, <2>2 DEF CInv, OnceInv
<1> QED BY CInit, CNext, <1>1, PTL DEF Spec

-----------------------------------------------------------------------------
LEMMA WInit == Init => WakeInv
BY DEF Init, WakeInv, WakeAt

\* A call that changes what the loop looks at wakes it.
LEMMA WCall ==
  ASSUME CInv, WakeInv, NEW c \in Threads, Call(c) \/ Wake(c) PROVE WakeInv'
<1>1. ASSUME ThenWake(c) PROVE WakeInv'
  BY <1>1 DEF ThenWake, WakeInv, WakeAt, Roused
<1>2. ASSUME NEW d \in Clients, CopyGuard(c, d) PROVE WakeInv'
  <2>1. work' # 0 BY <1>2 DEF CopyGuard, CInv, TypeOK
  <2> QED BY <1>2, <2>1 DEF CopyGuard, loopVars, WakeInv, WakeAt, Roused
<1>3. CASE Wake(c)
  BY <1>3 DEF Wake, WakeInv, WakeAt, Roused
<1> QED BY <1>1, <1>2, <1>3 DEF Call, Post, PostAt, Sleep, AddTimer, Stop, ReleaseGuard

\* The loop thread looks at everything before it sleeps.
LEMMA WLoop ==
  ASSUME CInv, WakeInv, Alone, NEW l \in Loops, LoopStep(l) PROVE WakeInv'
<1> SUFFICES WakeAt(l)'
  BY DEF WakeInv, Alone
<1>0. WakeAt(l) BY DEF WakeInv
<1>1. loop \in [Loops -> {"check", "check_pending", "timeout", "poll", "collect",
                         "run_timers", "swap", "run_fns", "exited"}]
      /\ pollEnd \in [Loops -> Nat]
  BY DEF CInv, TypeOK
<1>2. CASE Check(l)
  BY <1>0, <1>1, <1>2 DEF Check, StopSeen, Goto, shared, WakeAt, Roused
<1>3. CASE CheckPending(l)
  BY <1>0, <1>1, <1>3 DEF CheckPending, NothingPending, Goto, shared, WakeAt, Roused
<1>4. CASE ComputeTimeout(l)
  <2>1. /\ NextTimeout \in Nat
        /\ NextTimeout > 0 => \A t \in timers : now + NextTimeout <= deadline[t]
    BY TimeoutIsFirst DEF CInv
  <2>2. /\ loop[l] = "timeout" /\ loop'[l] = "poll" /\ pollEnd'[l] = now + NextTimeout
        /\ UNCHANGED <<pending, timers, deadline, stopped, work, woken, now, waking>>
    BY <1>1, <1>4 DEF ComputeTimeout, Goto, shared
  <2>3. now \in Nat /\ \A t \in timers : deadline[t] \in Int
    BY IoContextAssumption DEF CInv, TypeOK
  <2>4. ~(now' < pollEnd'[l] /\ \E t \in timers' : deadline'[t] < pollEnd'[l])
    BY <2>1, <2>2, <2>3
  <2> QED BY <1>0, <2>2, <2>4 DEF WakeAt, Roused
<1>5. CASE PollWoken(l) \/ PollTimeout(l) \/ CollectTimers(l) \/ RunTimer(l) \/ TimersDone(l)
  <2>1. loop'[l] \in {"collect", "run_timers", "swap"}
    BY <1>1, <1>5 DEF PollWoken, PollTimeout, CollectTimers, RunTimer, TimersDone, Goto
  <2> QED BY <2>1 DEF WakeAt
<1>6. CASE SwapPending(l)
  BY <1>1, <1>6 DEF SwapPending, TakePending, Goto, WakeAt
<1>7. CASE RunFn(l) \/ FnsDone(l)
  BY <1>0, <1>1, <1>7 DEF RunFn, FnsDone, Goto, shared, WakeAt, Roused
<1> QED BY <1>2, <1>3, <1>4, <1>5, <1>6, <1>7 DEF LoopStep

\* NoMissedWakeup: the loop does not sleep over a posted function, a stop request,
\* the end of the work or an earlier timer, whatever the clients do and however
\* many they are.  One thread executes the loop: a second one may consume the
\* wake-up that was meant for the first.
THEOREM NoWakeupLost == Alone => (Spec => []NoMissedWakeup)
<1> SUFFICES ASSUME Alone PROVE Spec => []NoMissedWakeup
  OBVIOUS
<1>1. CInv /\ WakeInv /\ [Next]_vars => WakeInv'
  <2> SUFFICES ASSUME CInv, WakeInv, [Next]_vars PROVE WakeInv'
    OBVIOUS
  <2>1. CASE Tick
    <3>1. now \in Nat /\ now' = now + 1 /\ \A l \in Loops : pollEnd[l] \in Nat
      BY <2>1 DEF Tick, CInv, TypeOK
    <3> QED BY <2>1, <3>1 DEF Tick, loopVars, WakeInv, WakeAt, Roused
  <2>2. CASE UNCHANGED vars
    BY <2>2 DEF vars, WakeInv, WakeAt, Roused
  <2> QED BY <2>1, <2>2, WCall, WLoop DEF Next
<1>2. WakeInv => NoMissedWakeup BY DEF WakeInv, WakeAt, Roused, NoMissedWakeup
<1> QED BY CInit, CNext, WInit, <1>1, <1>2, PTL DEF Spec

-----------------------------------------------------------------------------
\* A timer in one thread's list of callbacks is due, has left timers_, and is in no
\* other thread's list; and the timer of a coroutine in sleep_for is in timers_ or
\* in such a list.
TimersKept ==
  /\ \A l \in Loops : loop[l] # "run_timers" => expired[l] = {}
  /\ \A l \in Loops : \A t \in expired[l] : t \notin timers /\ deadline[t] \in 0 .. now
  /\ \A k, l \in Loops : expired[k] \cap expired[l] # {} => k = l
  /\ \A t \in sleepers : t \in timers \/ \E l \in Loops : t \in expired[l]

\* process_timers and SleepAwaiter: a timer fires once, not before its deadline,
\* however many threads execute the loop, and nobody sleeps without a timer.
THEOREM TimersFireOnce == Spec => []TimersKept
<1>1. Init => TimersKept BY DEF Init, TimersKept
<1>2. CInv /\ TimersKept /\ [Next]_vars => TimersKept'
  <2> SUFFICES ASSUME CInv, TimersKept, [Next]_vars PROVE TimersKept'
    OBVIOUS
  <2>1. ASSUME UNCHANGED <<timers, deadline, now, expired, sleepers>>,
               \A l \in Loops : loop[l] = "run_timers" => loop'[l] = "run_timers" \/ expired[l] = {}
        PROVE  TimersKept'
    BY <2>1 DEF TimersKept
  <2>2. ASSUME NEW c \in Threads, NEW t \in Timers, NEW d \in now .. Horizon,
               AddTimer(c, t, d), sleepers' \in {sleepers, sleepers \cup {t}}
        PROVE  TimersKept'
    <3>1. /\ deadline[t] = -1 /\ timers' = timers \cup {t}
          /\ deadline' = [deadline EXCEPT ![t] = d] /\ UNCHANGED <<now, expired, loop>>
      BY <2>2 DEF AddTimer, loopVars
    <3>2. \A l \in Loops : t \notin expired[l] BY <3>1 DEF TimersKept
    <3>3. \A l \in Loops : \A u \in expired[l] : u \in Timers /\ deadline'[u] = deadline[u]
      BY <3>1, <3>2 DEF CInv, TypeOK
    <3>4. \A l \in Loops : \A u \in expired[l] : u \notin timers' /\ deadline'[u] \in 0 .. now
      BY <3>1, <3>2, <3>3 DEF TimersKept
    <3>5. \A u \in sleepers' : u \in timers' \/ \E l \in Loops : u \in expired[l]
      BY <2>2, <3>1 DEF TimersKept
    <3>6. /\ \A l \in Loops : loop[l] # "run_timers" => expired[l] = {}
          /\ \A k, l \in Loops : expired[k] \cap expired[l] # {} => k = l
      BY DEF TimersKept
    <3> QED BY <3>1, <3>4, <3>5, <3>6 DEF TimersKept
  <2>3. ASSUME NEW l \in Loops, CollectTimers(l) PROVE TimersKept'
    <3>1. /\ loop[l] = "collect" /\ UNCHANGED <<deadline, now, sleepers>>
          /\ expired' = [expired EXCEPT ![l] = {t \in timers : deadline[t] <= now}]
          /\ timers' = {t \in timers : ~(deadline[t] <= now)}
      BY <2>3 DEF CollectTimers, Due
    <3>2. \A t \in timers : deadline[t] \in Nat
      BY IoContextAssumption DEF CInv, TypeOK, TimerInv
    <3> DEFINE due == {t \in timers : deadline[t] <= now}
    <3>3. /\ due \subseteq timers /\ timers' \subseteq timers /\ timers \subseteq timers' \cup due
          /\ \A t \in due : t \notin timers' /\ deadline[t] \in 0 .. now
      BY <3>1, <3>2 DEF CInv, TypeOK
    <3>4. \A k \in Loops : expired'[k] = IF k = l THEN due ELSE expired[k]
      BY <3>1 DEF CInv, TypeOK
    <3> HIDE DEF due
    <3>5. \A k \in Loops : loop'[k] = IF k = l THEN "run_timers" ELSE loop[k]
      BY <2>3 DEF CollectTimers, Goto, CInv, TypeOK
    <3>6. expired[l] = {} BY <3>1 DEF TimersKept
    <3>7. \A k, m \in Loops : expired'[k] \cap expired'[m] # {} => k = m
      BY <3>3, <3>4 DEF TimersKept
    <3>8. \A t \in sleepers' : t \in timers' \/ \E k \in Loops : t \in expired'[k]
      BY <3>1, <3>3, <3>4, <3>6 DEF TimersKept
    <3>9. \A k \in Loops : \A t \in expired'[k] : t \notin timers' /\ deadline'[t] \in 0 .. now'
      BY <3>1, <3>3, <3>4 DEF TimersKept
    <3> QED BY <3>4, <3>5, <3>7, <3>8, <3>9 DEF TimersKept
  <2>4. ASSUME NEW l \in Loops, RunTimer(l) PROVE TimersKept'
    <3>1. PICK t \in expired[l] : /\ expired' = [expired EXCEPT ![l] = @ \ {t}]
                                 /\ sleepers' = sleepers \ {t}
      BY <2>4 DEF RunTimer
    <3>2. loop[l] = "run_timers" /\ UNCHANGED <<timers, deadline, now, loop>> BY <2>4 DEF RunTimer
    <3>3. \A k \in Loops : expired'[k] = IF k = l THEN expired[l] \ {t} ELSE expired[k]
      BY <3>1 DEF CInv, TypeOK
    <3> QED BY <3>1, <3>2, <3>3 DEF TimersKept
  <2>5. CASE Tick
    <3>1. now \in Nat /\ now' = now + 1 /\ UNCHANGED <<timers, deadline, expired, sleepers, loop>>
      BY <2>5 DEF Tick, loopVars, CInv, TypeOK
    <3>2. 0 .. now \subseteq 0 .. now' BY <3>1
    <3> QED BY <3>1, <3>2 DEF TimersKept
  <2>6. ASSUME NEW l \in Loops,
               \/ Check(l) \/ CheckPending(l) \/ ComputeTimeout(l) \/ PollWoken(l) \/ PollTimeout(l)
               \/ TimersDone(l) \/ SwapPending(l) \/ RunFn(l) \/ FnsDone(l)
        PROVE  TimersKept'
    <3>1. UNCHANGED <<timers, deadline, now, expired, sleepers>>
      BY <2>6 DEF Check, CheckPending, ComputeTimeout, PollWoken, PollTimeout, TimersDone,
                  SwapPending, RunFn, FnsDone, shared
    <3>2. \A k \in Loops : k # l => loop'[k] = loop[k]
      BY <2>6 DEF Check, CheckPending, ComputeTimeout, PollWoken, PollTimeout, TimersDone,
                  SwapPending, RunFn, FnsDone, Goto, CInv, TypeOK
    <3>3. loop[l] = "run_timers" => expired[l] = {}
      BY <2>6 DEF Check, CheckPending, ComputeTimeout, PollWoken, PollTimeout, TimersDone,
                  SwapPending, RunFn, FnsDone
    <3> QED BY <2>1, <3>1, <3>2, <3>3
  <2>7. ASSUME NEW c \in Threads, Call(c) \/ Wake(c) PROVE TimersKept'
    <3>1. CASE \E t \in Timers, d \in now .. Horizon : PostAt(c, t, d) \/ Sleep(c, t, d)
      BY <2>2, <3>1 DEF PostAt, Sleep, GuardForSleep
    <3>2. CASE \/ \E f \in Fns : Post(c, f)
               \/ Stop(c) \/ ReleaseGuard(c) \/ Wake(c)
               \/ \E d \in Clients : CopyGuard(c, d)
      BY <2>1, <3>2 DEF Post, Stop, ReleaseGuard, CopyGuard, Wake, loopVars
    <3> QED BY <2>7, <3>1, <3>2 DEF Call
  <2>8. CASE UNCHANGED vars BY <2>1, <2>8 DEF vars
  <2> QED BY <2>3, <2>4, <2>5, <2>6, <2>7, <2>8 DEF Next, LoopStep
<1> QED BY CInit, CNext, <1>1, <1>2, PTL DEF Spec
====
