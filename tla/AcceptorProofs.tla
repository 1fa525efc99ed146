--------------------------- MODULE AcceptorProofs ---------------------------
(* serve() for any number of connections: it returns after its handlers, and *)
(* deletes none of them under a thread that executes it as long as handlers  *)
(* stay on the loop.                                                         *)
EXTENDS Acceptor, TLAPS

\* tasks_ holds exactly the handlers that were launched and are not deleted, so
\* an empty tasks_ means that no handler is left.
AInv == TypeOK /\ ReturnsAfterHandlers

\* While no handler uses run_on, none of them is on a pool thread.
LoopOnly == touched = {} /\ \A h \in Conns : handler[h] \notin {"on_pool", "finishing"}

\* What reap_completed keeps: it starts from tasks and states that agree, except
\* for a handler on its way into tasks_, and leaves tasks and states that agree.
LEMMA ReapKeepsType ==
  ASSUME NEW ts \in SUBSET Conns,
         NEW hs \in [Conns -> {"none", "backlog", "deleted"} \cup Active \cup {"done"}],
         \A h \in Conns : h \in ts <=> hs[h] \in Active \cup {"done"},
         touched \subseteq Conns,
         ReapCompleted(ts, hs)
  PROVE  /\ tasks' \subseteq ts
         /\ handler' \in [Conns -> {"none", "backlog", "deleted"} \cup Active \cup {"done"}]
         /\ \A h \in Conns : h \in tasks' <=> handler'[h] \in Active \cup {"done"}
         /\ touched' \subseteq Conns
<1> DEFINE dead == {h \in ts : IsDone(hs[h])}
<1>1. /\ tasks' = ts \ dead
      /\ handler' = [h \in Conns |-> IF h \in dead THEN "deleted" ELSE hs[h]]
      /\ touched' = touched \cup {h \in dead : hs[h] = "finishing"}
  BY DEF ReapCompleted
<1>2. dead \subseteq ts OBVIOUS
<1> HIDE DEF dead
<1> QED BY <1>1, <1>2 DEF Active

\* A connection becomes a handler, whether it ends at once or suspends.
LEMMA AcceptKeepsType ==
  ASSUME AInv, NEW h \in Conns, NEW next \in {"done", "on_loop", "on_pool"},
         AcceptResumes(h, next)
  PROVE  AInv'
<1>1. /\ serve = "accept" /\ handler[h] = "backlog" /\ running' = running
      /\ serve' = IF running THEN "accept" ELSE "spin"
  BY DEF AcceptResumes, LoopsOn
<1>2. h \notin tasks BY <1>1 DEF AInv, TypeOK, Active
<1> DEFINE Typed == /\ tasks' \subseteq Conns
                    /\ handler' \in [Conns -> {"none", "backlog", "deleted"} \cup Active \cup {"done"}]
                    /\ \A g \in Conns : g \in tasks' <=> handler'[g] \in Active \cup {"done"}
                    /\ touched' \subseteq Conns
<1>3. ASSUME next = "done" PROVE Typed
  <2> DEFINE hs == [handler EXCEPT ![h] = "deleted"]
  <2>1. ReapCompleted(tasks, hs) BY <1>3 DEF AcceptResumes
  <2>2. hs \in [Conns -> {"none", "backlog", "deleted"} \cup Active \cup {"done"}]
    BY DEF AInv, TypeOK
  <2>3. \A g \in Conns : g \in tasks <=> hs[g] \in Active \cup {"done"}
    BY <1>2 DEF AInv, TypeOK, Active
  <2> HIDE DEF hs
  <2> QED BY <2>1, <2>2, <2>3, ReapKeepsType DEF AInv, TypeOK
<1>4. ASSUME next # "done" PROVE Typed
  <2> DEFINE hs == [handler EXCEPT ![h] = next]
             ts == tasks \cup {h}
  <2>1. ReapCompleted(ts, hs) BY <1>4 DEF AcceptResumes
  <2>2. hs \in [Conns -> {"none", "backlog", "deleted"} \cup Active \cup {"done"}]
    BY <1>4 DEF AInv, TypeOK, Active
  <2>3. ts \in SUBSET Conns BY DEF AInv, TypeOK
  <2>4. \A g \in Conns : g \in ts <=> hs[g] \in Active \cup {"done"}
    BY <1>2, <1>4 DEF AInv, TypeOK, Active
  <2> HIDE DEF hs, ts
  <2> QED BY <2>1, <2>2, <2>3, <2>4, ReapKeepsType DEF AInv, TypeOK
<1>5. Typed BY <1>3, <1>4
<1> QED BY <1>1, <1>5 DEF AInv, TypeOK, ReturnsAfterHandlers

LEMMA AInit == Init => AInv
BY DEF Init, AInv, TypeOK, ReturnsAfterHandlers, Active

LEMMA ANext == AInv /\ [Next]_vars => AInv'
<1> SUFFICES ASSUME AInv, [Next]_vars PROVE AInv'
  OBVIOUS
<1> USE DEF AInv, TypeOK, ReturnsAfterHandlers, Active
<1>1. CASE ServeStarts
  BY <1>1 DEF ServeStarts
<1>2. CASE SpinTurn
  <2>1. CASE tasks = {} /\ serve' = "returned" /\ UNCHANGED <<tasks, handler, touched>>
    BY <1>2, <2>1 DEF SpinTurn
  <2>2. CASE ReapCompleted(tasks, handler) /\ UNCHANGED serve
    BY <1>2, <2>2, ReapKeepsType DEF SpinTurn
  <2> QED BY <1>2, <2>1, <2>2 DEF SpinTurn
<1>3. ASSUME NEW h \in Conns, AcceptFails(h) PROVE AInv'
  BY <1>3 DEF AcceptFails, LoopsOn
<1>4. ASSUME NEW h \in Conns, NEW next \in {"done", "on_loop", "on_pool"}, AcceptResumes(h, next)
      PROVE  AInv'
  BY <1>4, AcceptKeepsType
<1>5. CASE Stop
  BY <1>5 DEF Stop
<1>6. ASSUME NEW h \in Conns, Connects(h) PROVE AInv'
  BY <1>6 DEF Connects
<1>7. ASSUME NEW h \in Conns, HandlerStep(h) PROVE AInv'
  BY <1>7 DEF HandlerStep, HandlerOnLoop, HandlerOnPool, HandlerFinishes
<1>8. CASE UNCHANGED vars
  BY <1>8 DEF vars
<1> QED BY <1>1, <1>2, <1>3, <1>4, <1>5, <1>6, <1>7, <1>8 DEF Next, ServeStep

\* serve() returns only when tasks_ is empty and no handler runs or is suspended,
\* for any number of connections, in whatever order they come, move between the
\* threads and end, and whenever stop() is called.
THEOREM ServeReturnsLast == Spec => []ReturnsAfterHandlers
<1>1. AInv => ReturnsAfterHandlers BY DEF AInv
<1> QED BY AInit, ANext, <1>1, PTL DEF Spec

\* reap_completed deletes no handler under the thread that executes it, provided
\* that handlers do not use run_on to leave the loop: the comment of
\* launch_handler, that a suspended handler is kept "alive until completion",
\* holds of them.
THEOREM LoopHandlersKept == "pool" \notin Hops => (Spec => []KeptUntilComplete)
<1> SUFFICES ASSUME "pool" \notin Hops PROVE Spec => []KeptUntilComplete
  OBVIOUS
<1>1. Init => LoopOnly
  BY DEF Init, LoopOnly
<1>2. AInv /\ LoopOnly /\ [Next]_vars => LoopOnly'
  <2> SUFFICES ASSUME AInv, LoopOnly, [Next]_vars PROVE LoopOnly'
    OBVIOUS
  <2> USE DEF LoopOnly
  <2>1. ASSUME NEW ts \in SUBSET Conns, NEW hs, ReapCompleted(ts, hs),
               \A h \in Conns : hs[h] \notin {"on_pool", "finishing"}
        PROVE  LoopOnly'
    BY <2>1 DEF ReapCompleted
  <2>2. CASE ServeStarts \/ Stop \/ UNCHANGED vars
    BY <2>2 DEF ServeStarts, Stop, vars
  <2>3. CASE SpinTurn
    BY <2>3, <2>1 DEF SpinTurn, AInv, TypeOK
  <2>4. ASSUME NEW h \in Conns, AcceptFails(h) \/ Connects(h) PROVE LoopOnly'
    BY <2>4 DEF AcceptFails, Connects, AInv, TypeOK
  <2>5. ASSUME NEW h \in Conns, NEW next \in {"done", "on_loop", "on_pool"},
               AcceptResumes(h, next)
        PROVE  LoopOnly'
    <3>1. next \in {"done", "on_loop"} BY <2>5 DEF AcceptResumes
    <3>2. CASE next = "done"
      <4> DEFINE hs == [handler EXCEPT ![h] = "deleted"]
      <4>1. ReapCompleted(tasks, hs) BY <2>5, <3>2 DEF AcceptResumes
      <4>2. \A g \in Conns : hs[g] \notin {"on_pool", "finishing"} BY DEF AInv, TypeOK
      <4> HIDE DEF hs
      <4> QED BY <4>1, <4>2, <2>1 DEF AInv, TypeOK
    <3>3. CASE next = "on_loop"
      <4> DEFINE hs == [handler EXCEPT ![h] = next]
                 ts == tasks \cup {h}
      <4>1. ReapCompleted(ts, hs) BY <2>5, <3>3 DEF AcceptResumes
      <4>2. \A g \in Conns : hs[g] \notin {"on_pool", "finishing"} BY <3>3 DEF AInv, TypeOK
      <4>3. ts \in SUBSET Conns BY DEF AInv, TypeOK
      <4> HIDE DEF hs, ts
      <4> QED BY <4>1, <4>2, <4>3, <2>1
    <3> QED BY <3>1, <3>2, <3>3
  <2>6. ASSUME NEW h \in Conns, HandlerStep(h) PROVE LoopOnly'
    BY <2>6 DEF HandlerStep, HandlerOnLoop, HandlerOnPool, HandlerFinishes, AInv, TypeOK
  <2> QED BY <2>2, <2>3, <2>4, <2>5, <2>6 DEF Next, ServeStep
<1>3. LoopOnly => KeptUntilComplete BY DEF LoopOnly, KeptUntilComplete
<1> QED BY AInit, ANext, <1>1, <1>2, <1>3, PTL DEF Spec
=============================================================================
