----------------------------- MODULE StrandProofs -----------------------------
(* The strand is a serial executor, for any inner executor, set of posting   *)
(* threads and handlers.                                                     *)
EXTENDS Strand, TLAPS

Handling == \E w \in Workers : worker[w] = "handler"
Active == IF Handling THEN 1 ELSE 0
Running == \E w \in Workers : InRun(w)

\* running_ is a token: one thread about to call inner_->post, one queued run()
\* job, or one worker inside run() carries it, unless the job was dropped.
TokenInv ==
  /\ \A p, q \in dispatching : p = q
  /\ innerJobs \in {0, 1}
  /\ MutualExclusion
  /\ dispatching # {} => innerJobs = 0 /\ ~Running
  /\ innerJobs = 1 => ~Running
  /\ dispatching # {} \/ innerJobs = 1 \/ Running <=> running /\ ~dropped
  /\ dropped => innerStop /\ running
  /\ ~running => queue = <<>>

\* posted is finished, then the active handler, then the queue.
OrderInv ==
  /\ Len(posted) = Len(finished) + Active + Len(queue)
  /\ \A i \in DOMAIN finished : finished[i] = posted[i]
  /\ \A w \in Workers : worker[w] = "handler" => current[w] = posted[Len(finished) + 1]
  /\ \A i \in DOMAIN queue : queue[i] = posted[Len(finished) + Active + i]

\* The inductive invariant.
IInv == TypeOK /\ TokenInv /\ OrderInv

-----------------------------------------------------------------------------
\* The constructor establishes the invariant.
LEMMA InitIInv == Init => IInv
<1> SUFFICES ASSUME Init PROVE IInv
  OBVIOUS
<1> USE StrandAssumption DEF Init
<1>1. queue \in Seq(Handlers) /\ posted \in Seq(Handlers) /\ finished \in Seq(Handlers)
  OBVIOUS
<1>2. running \in BOOLEAN /\ innerStop \in BOOLEAN /\ dropped \in BOOLEAN
  OBVIOUS
<1>3. dispatching \subseteq Threads /\ innerJobs \in Nat
  OBVIOUS
<1>4. /\ worker \in [Workers -> {"free", "run", "handler"}]
      /\ current \in [Workers -> Handlers \cup {NoHandler}]
      /\ \A w \in Workers : worker[w] = "handler" <=> current[w] # NoHandler
  OBVIOUS
<1>5. TypeOK
  BY <1>1, <1>2, <1>3, <1>4 DEF TypeOK
<1>6. ~Running /\ ~Handling /\ MutualExclusion
  BY DEF Running, Handling, MutualExclusion, InRun
<1>7. TokenInv
  BY <1>6 DEF TokenInv
<1>8. OrderInv
  BY <1>6 DEF OrderInv, Active, Handling
<1> QED BY <1>5, <1>7, <1>8 DEF IInv

\* Pushing a handler extends posted and queue alike.
LEMMA PostLockedIInv ==
  ASSUME IInv, NEW p \in Threads, NEW h \in Handlers, PostLocked(p, h) PROVE IInv'
<1> USE DEF IInv
<1>1. /\ queue' = Append(queue, h) /\ posted' = Append(posted, h) /\ running' = TRUE
      /\ dispatching' = IF ~running THEN dispatching \cup {p} ELSE dispatching
      /\ UNCHANGED <<innerJobs, innerStop, dropped, worker, current, finished>>
  BY DEF PostLocked, ShouldDispatch
<1>2. TypeOK'
  BY <1>1 DEF TypeOK
<1>3. (Running' <=> Running) /\ (MutualExclusion' <=> MutualExclusion)
  BY <1>1 DEF Running, MutualExclusion, InRun
<1>4. TokenInv'
  BY <1>1, <1>3 DEF TokenInv, TypeOK
<1>5. Active' = Active
  BY <1>1 DEF Active, Handling
<1>6. Len(finished) \in Nat /\ Len(queue) \in Nat /\ Len(posted) \in Nat /\ Active \in {0, 1}
  BY DEF TypeOK, Active
<1>7. OrderInv'
  <2>1. Len(posted)' = Len(posted) + 1 /\ Len(queue)' = Len(queue) + 1
    BY <1>1 DEF TypeOK
  <2>2. /\ \A i \in 1 .. Len(posted) : posted'[i] = posted[i]
        /\ posted'[Len(posted) + 1] = h
        /\ \A i \in 1 .. Len(queue) : queue'[i] = queue[i]
        /\ queue'[Len(queue) + 1] = h
    BY <1>1 DEF TypeOK
  <2>3. /\ DOMAIN finished = 1 .. Len(finished) /\ DOMAIN queue = 1 .. Len(queue)
        /\ DOMAIN queue' = 1 .. Len(queue) + 1
    BY <1>1, <2>1 DEF TypeOK
  <2>4. Len(posted)' = Len(finished)' + Active' + Len(queue)'
    BY <1>1, <1>5, <1>6, <2>1 DEF OrderInv
  <2>5. \A i \in DOMAIN finished' : finished'[i] = posted'[i]
    BY <1>1, <1>6, <2>2, <2>3 DEF OrderInv
  <2>6. \A w \in Workers : worker'[w] = "handler" => current'[w] = posted'[Len(finished') + 1]
    <3> SUFFICES ASSUME NEW w \in Workers, worker[w] = "handler"
                 PROVE  current[w] = posted'[Len(finished) + 1]
      BY <1>1
    <3>1. Active = 1
      BY DEF Active, Handling
    <3> QED BY <1>6, <2>2, <3>1 DEF OrderInv
  <2>7. \A i \in DOMAIN queue' : queue'[i] = posted'[Len(finished') + Active' + i]
    <3> SUFFICES ASSUME NEW i \in 1 .. Len(queue) + 1
                 PROVE  queue'[i] = posted'[Len(finished) + Active + i]
      BY <1>1, <1>5, <2>3
    <3>1. CASE i = Len(queue) + 1
      BY <1>6, <2>2, <3>1 DEF OrderInv
    <3>2. CASE i \in 1 .. Len(queue)
      BY <1>6, <2>2, <2>3, <3>2 DEF OrderInv
    <3> QED BY <1>6, <3>1, <3>2
  <2> QED BY <2>4, <2>5, <2>6, <2>7 DEF OrderInv
<1> QED BY <1>2, <1>4, <1>7

\* A step that leaves the queue and the histories alone, and changes no worker to
\* or from a handler, keeps the order.
LEMMA OrderKept ==
  ASSUME OrderInv, UNCHANGED <<queue, posted, finished, current>>,
         \A w \in Workers : worker'[w] = "handler" <=> worker[w] = "handler"
  PROVE  OrderInv'
<1>1. Active' = Active
  BY DEF Active, Handling
<1> QED BY <1>1 DEF OrderInv

\* Handing run() to the inner executor preserves the invariant.
LEMMA PostInnerIInv == ASSUME IInv, NEW p \in Threads, PostInner(p) PROVE IInv'
<1> USE DEF IInv, PostInner
<1>1. TypeOK'
  <2>1. dropped' \in BOOLEAN
    BY DEF TypeOK
  <2>2. innerJobs' \in Nat
    BY DEF TypeOK
  <2> QED BY <2>1, <2>2 DEF TypeOK
<1>2. OrderInv'
  BY OrderKept
<1>3. (Running' <=> Running) /\ (MutualExclusion' <=> MutualExclusion)
  BY DEF Running, MutualExclusion, InRun
<1>4. TokenInv'
  BY <1>3 DEF TokenInv, TypeOK
<1> QED BY <1>1, <1>2, <1>4

\* So does starting run() on a worker.
LEMMA InnerStartIInv == ASSUME IInv, NEW w \in Workers, InnerStart(w) PROVE IInv'
<1> USE DEF IInv, InnerStart
<1>1. TypeOK'
  BY DEF TypeOK
<1>2. OrderInv'
  BY OrderKept DEF TypeOK
<1>3. innerJobs = 1 /\ ~Running /\ innerJobs' = 0
  BY DEF TokenInv
<1>4. Running' /\ MutualExclusion'
  BY <1>3 DEF Running, MutualExclusion, InRun, TypeOK
<1>5. TokenInv'
  BY <1>3, <1>4 DEF TokenInv
<1> QED BY <1>1, <1>2, <1>5

\* So does leaving run() on an empty queue.
LEMMA RunEmptyIInv == ASSUME IInv, NEW w \in Workers, RunEmpty(w) PROVE IInv'
<1> USE DEF IInv, RunEmpty, ReleaseRunning
<1>1. TypeOK'
  BY DEF TypeOK
<1>2. OrderInv'
  BY OrderKept DEF TypeOK
<1>3. Running
  BY DEF Running, InRun
<1>4. ~Running' /\ MutualExclusion'
  BY DEF Running, MutualExclusion, InRun, TypeOK, TokenInv
<1>5. TokenInv'
  BY <1>3, <1>4 DEF TokenInv
<1> QED BY <1>1, <1>2, <1>5

\* Only the worker inside run() can have a handler.
LEMMA OnlyRunner ==
  ASSUME IInv, NEW w \in Workers, worker[w] = "run"
  PROVE  \A v \in Workers : worker[v] # "handler"
  BY DEF IInv, TokenInv, MutualExclusion, InRun

\* Taking the front handler turns the head of the queue into the active handler.
LEMMA RunPopIInv == ASSUME IInv, NEW w \in Workers, RunPop(w) PROVE IInv'
<1> USE StrandAssumption DEF IInv
<1>1. /\ worker[w] = "run" /\ queue # <<>> /\ queue' = Tail(queue)
      /\ current' = [current EXCEPT ![w] = Head(queue)]
      /\ worker' = [worker EXCEPT ![w] = "handler"]
      /\ UNCHANGED <<running, dispatching, innerJobs, innerStop, dropped, posted, finished>>
  BY DEF RunPop, PopFront
<1>2. /\ Len(queue) \in Nat /\ Len(queue) > 0 /\ Len(queue)' = Len(queue) - 1
      /\ DOMAIN queue = 1 .. Len(queue) /\ DOMAIN queue' = 1 .. Len(queue) - 1
      /\ \A i \in DOMAIN queue' : queue'[i] = queue[i + 1]
      /\ Head(queue) = queue[1] /\ queue[1] \in Handlers /\ queue' \in Seq(Handlers)
      /\ Len(finished) \in Nat
  BY <1>1 DEF TypeOK
<1>3. TypeOK'
  BY <1>1, <1>2 DEF TypeOK
<1>4. (Running' <=> Running) /\ MutualExclusion'
  BY <1>1 DEF Running, MutualExclusion, InRun, TypeOK, TokenInv
<1>5. Running
  BY <1>1 DEF Running, InRun
<1>6. TokenInv'
  BY <1>1, <1>4, <1>5 DEF TokenInv
<1>7. Active = 0 /\ Active' = 1 /\ \A v \in Workers : worker'[v] = "handler" => v = w
  BY <1>1, OnlyRunner DEF Active, Handling, TypeOK
<1>8. OrderInv'
  <2>1. Len(posted)' = Len(finished)' + Active' + Len(queue)'
    <3>1. Len(posted) = Len(finished) + 0 + Len(queue)
      BY <1>7 DEF OrderInv
    <3>2. Len(posted)' = Len(posted) /\ Len(finished)' = Len(finished)
      BY <1>1
    <3> QED BY <1>2, <1>7, <3>1, <3>2
  <2>2. \A i \in DOMAIN finished' : finished'[i] = posted'[i]
    BY <1>1 DEF OrderInv
  <2>3. \A v \in Workers : worker'[v] = "handler" => current'[v] = posted'[Len(finished') + 1]
    BY <1>1, <1>2, <1>7 DEF OrderInv, TypeOK
  <2>4. \A i \in DOMAIN queue' : queue'[i] = posted'[Len(finished') + Active' + i]
    <3> SUFFICES ASSUME NEW i \in DOMAIN queue'
                 PROVE  queue'[i] = posted[Len(finished) + 1 + i]
      BY <1>1, <1>7
    <3>1. i + 1 \in DOMAIN queue /\ queue'[i] = queue[i + 1] /\ i \in Nat
      BY <1>2
    <3>2. queue[i + 1] = posted[Len(finished) + 0 + (i + 1)]
      BY <1>7, <3>1 DEF OrderInv
    <3> QED BY <1>2, <3>1, <3>2
  <2> QED BY <2>1, <2>2, <2>3, <2>4 DEF OrderInv
<1> QED BY <1>3, <1>6, <1>8

\* The return of a handler turns the active handler into the last finished one.
LEMMA HandlerReturnsIInv == ASSUME IInv, NEW w \in Workers, HandlerReturns(w) PROVE IInv'
<1> USE StrandAssumption DEF IInv
<1>1. /\ worker[w] = "handler" /\ worker' = [worker EXCEPT ![w] = "run"]
      /\ finished' = Append(finished, current[w])
      /\ current' = [current EXCEPT ![w] = NoHandler]
      /\ UNCHANGED <<queue, running, dispatching, innerJobs, innerStop, dropped, posted>>
      /\ current[w] \in Handlers
  BY DEF HandlerReturns, ReleaseHandler, TypeOK
<1>2. /\ Len(finished) \in Nat /\ Len(queue) \in Nat /\ Len(finished)' = Len(finished) + 1
      /\ DOMAIN finished = 1 .. Len(finished) /\ DOMAIN finished' = 1 .. Len(finished) + 1
      /\ \A i \in DOMAIN finished : finished'[i] = finished[i]
      /\ finished'[Len(finished) + 1] = current[w] /\ finished' \in Seq(Handlers)
      /\ DOMAIN queue = 1 .. Len(queue)
  BY <1>1 DEF TypeOK
<1>3. TypeOK'
  BY <1>1, <1>2 DEF TypeOK
<1>4. (Running' <=> Running) /\ MutualExclusion'
  BY <1>1 DEF Running, MutualExclusion, InRun, TypeOK, TokenInv
<1>5. TokenInv'
  BY <1>1, <1>4 DEF TokenInv
<1>6. \A v \in Workers : worker'[v] # "handler"
  BY <1>1 DEF TokenInv, MutualExclusion, InRun, TypeOK
<1>7. Active = 1 /\ Active' = 0
  BY <1>1, <1>6 DEF Active, Handling
<1>8. OrderInv'
  <2>1. Len(posted)' = Len(finished)' + Active' + Len(queue)'
    BY <1>1, <1>2, <1>7 DEF OrderInv
  <2>2. \A i \in DOMAIN finished' : finished'[i] = posted'[i]
    BY <1>1, <1>2 DEF OrderInv
  <2>3. \A i \in DOMAIN queue' : queue'[i] = posted'[Len(finished') + Active' + i]
    BY <1>1, <1>2, <1>7 DEF OrderInv
  <2> QED BY <1>6, <2>1, <2>2, <2>3 DEF OrderInv
<1> QED BY <1>3, <1>5, <1>8

\* Every step preserves the invariant.
LEMMA NextIInv == IInv /\ [Next]_vars => IInv'
<1> SUFFICES ASSUME IInv, [Next]_vars PROVE IInv'
  OBVIOUS
<1>1. ASSUME NEW p \in Threads, NEW h \in Handlers, PostLocked(p, h) PROVE IInv'
  BY <1>1, PostLockedIInv
<1>2. ASSUME NEW p \in Threads, PostInner(p) PROVE IInv'
  BY <1>2, PostInnerIInv
<1>3. ASSUME NEW w \in Workers, WorkerStep(w) PROVE IInv'
  BY <1>3, InnerStartIInv, RunEmptyIInv, RunPopIInv, HandlerReturnsIInv DEF WorkerStep
<1>4. CASE InnerStopCalled
  <2> USE <1>4 DEF IInv, InnerStopCalled
  <2>1. TypeOK'
    BY DEF TypeOK
  <2>2. OrderInv'
    BY OrderKept
  <2>3. TokenInv'
    BY DEF TokenInv, Running, MutualExclusion, InRun
  <2> QED BY <2>1, <2>2, <2>3
<1>5. CASE UNCHANGED vars
  <2> USE <1>5 DEF IInv, vars
  <2>1. TypeOK'
    BY DEF TypeOK
  <2>2. OrderInv'
    BY OrderKept
  <2>3. TokenInv'
    BY DEF TokenInv, Running, MutualExclusion, InRun
  <2> QED BY <2>1, <2>2, <2>3
<1> QED BY <1>1, <1>2, <1>3, <1>4, <1>5 DEF Next

-----------------------------------------------------------------------------
\* At most one thread is inside run(), whatever the number of posting threads and
\* of inner workers, and no queued handler is left without somebody to run it.
THEOREM StrandIsExclusive == Spec => [](TypeOK /\ MutualExclusion /\ NoHandlerStranded)
<1>1. IInv => TypeOK /\ MutualExclusion /\ NoHandlerStranded
  BY DEF IInv, TokenInv, NoHandlerStranded, Running
<1> QED BY <1>1, InitIInv, NextIInv, PTL DEF Spec

\* Handlers complete in the order of posting, for every number of handlers.
THEOREM StrandIsOrdered == Spec => []CompletesInPostOrder
<1>1. IInv => CompletesInPostOrder
  <2> SUFFICES ASSUME IInv PROVE CompletesInPostOrder
    OBVIOUS
  <2>1. Len(finished) \in Nat /\ Len(queue) \in Nat /\ Active \in {0, 1}
    BY DEF IInv, TypeOK, Active
  <2> QED BY <2>1 DEF IInv, OrderInv, CompletesInPostOrder
<1> QED BY <1>1, InitIInv, NextIInv, PTL DEF Spec

-----------------------------------------------------------------------------
\* With one thread inside run(), ActiveHandler is what that thread executes.
LEMMA ActiveIsCurrent ==
  ASSUME MutualExclusion, NEW w \in Workers, worker[w] = "handler"
  PROVE  ActiveHandler = current[w]
  BY DEF MutualExclusion, InRun, ActiveHandler

LEMMA ActiveIsNone ==
  ASSUME \A w \in Workers : worker[w] # "handler"
  PROVE  ActiveHandler = NoHandler
  BY DEF ActiveHandler

\* Every step of the strand is a step of the serial executor or leaves it alone.
LEMMA StepRefines == IInv /\ IInv' /\ [Next]_vars => [Serial!SNext]_(Serial!svars)
<1> SUFFICES ASSUME IInv, IInv', [Next]_vars PROVE [Serial!SNext]_(Serial!svars)
  OBVIOUS
<1> USE DEF Serial!SNext, Serial!svars
<1>1. MutualExclusion /\ MutualExclusion'
  BY DEF IInv, TokenInv
<1>2. ASSUME UNCHANGED <<worker, current>> PROVE ActiveHandler' = ActiveHandler
  BY <1>2 DEF ActiveHandler
<1>3. ASSUME NEW p \in Threads, NEW h \in Handlers, PostLocked(p, h) PROVE Serial!Accept(h)
  BY <1>2, <1>3 DEF PostLocked, Serial!Accept
<1>4. ASSUME NEW p \in Threads, PostInner(p) PROVE UNCHANGED Serial!svars
  BY <1>2, <1>4 DEF PostInner
<1>5. ASSUME NEW w \in Workers, InnerStart(w) PROVE UNCHANGED Serial!svars
  <2>1. \A v \in Workers : worker[v] # "handler" /\ worker'[v] # "handler"
    BY <1>5 DEF InnerStart, IInv, TokenInv, TypeOK, Running, InRun
  <2>2. ActiveHandler = NoHandler /\ ActiveHandler' = NoHandler
    BY <2>1 DEF ActiveHandler
  <2> QED BY <1>5, <2>2 DEF InnerStart
<1>6. ASSUME NEW w \in Workers, RunEmpty(w) PROVE UNCHANGED Serial!svars
  <2>1. \A v \in Workers : worker[v] # "handler" /\ worker'[v] # "handler"
    BY <1>6, OnlyRunner DEF RunEmpty, IInv, TypeOK
  <2>2. ActiveHandler = NoHandler /\ ActiveHandler' = NoHandler
    BY <2>1 DEF ActiveHandler
  <2> QED BY <1>6, <2>2 DEF RunEmpty
<1>7. ASSUME NEW w \in Workers, RunPop(w) PROVE Serial!Start
  <2>1. ActiveHandler = NoHandler
    BY <1>7, OnlyRunner, ActiveIsNone DEF RunPop
  <2>2. worker'[w] = "handler" /\ current'[w] = Head(queue)
    BY <1>7 DEF RunPop, IInv, TypeOK
  <2>3. ActiveHandler' = current'[w]
    BY <1>1, <2>2 DEF MutualExclusion, InRun, ActiveHandler
  <2> QED BY <1>7, <2>1, <2>2, <2>3 DEF RunPop, PopFront, Serial!Start
<1>8. ASSUME NEW w \in Workers, HandlerReturns(w) PROVE Serial!Finish
  <2>1. worker[w] = "handler" /\ current[w] # NoHandler
    BY <1>8 DEF HandlerReturns, IInv, TypeOK
  <2>2. ActiveHandler = current[w]
    BY <1>1, <2>1, ActiveIsCurrent
  <2>3. \A v \in Workers : worker'[v] # "handler"
    BY <1>1, <1>8 DEF HandlerReturns, MutualExclusion, InRun, IInv, TypeOK
  <2>4. ActiveHandler' = NoHandler
    BY <2>3 DEF ActiveHandler
  <2> QED BY <1>8, <2>1, <2>2, <2>4 DEF HandlerReturns, Serial!Finish
<1>9. ASSUME InnerStopCalled \/ UNCHANGED vars PROVE UNCHANGED Serial!svars
  BY <1>2, <1>9 DEF InnerStopCalled, vars
<1> QED
  BY <1>3, <1>4, <1>5, <1>6, <1>7, <1>8, <1>9 DEF Next, WorkerStep

\* basic_strand implements the serial executor its class comment promises.
THEOREM StrandRefines == Spec => ImplementsSerialExecutor
<1>1. Init => Serial!SInit
  <2> SUFFICES ASSUME Init PROVE Serial!SInit
    OBVIOUS
  <2>1. ActiveHandler = NoHandler
    BY ActiveIsNone DEF Init
  <2> QED BY <2>1 DEF Init, Serial!SInit
<1> QED BY <1>1, InitIInv, NextIInv, StepRefines, PTL DEF Spec, ImplementsSerialExecutor, Serial!SSpec
=============================================================================
