------------------------ MODULE ProcessManagerProofs ------------------------
(* The master's bookkeeping of its workers, for any number of workers and of  *)
(* generations and both policies.                                             *)
EXTENDS ProcessManager, TLAPS

\* What a handle says of its worker.  Under ForkPolicy the pid is there exactly
\* while the process has not been waited for; under ThreadPolicy a raised flag
\* means that the thread runs.
HandleInv ==
  \A w \in Workers :
    IF Fork THEN live[w] <=> proc[w] \in {"running", "exited"}
    ELSE live[w] => proc[w] = "running"

\* The entries are of the generations so far.
GenerationInv ==
  /\ pc = "start" => gen = 0 /\ entries = {}
  /\ pc # "start" => gen # 0
  /\ reload => gen \in 1 .. MaxGen - 1
  /\ next <= want
  /\ \A w \in entries : Generation(w) <= gen

\* The workers still to be spawned have no entry and no process: no handle is
\* overwritten.
Unborn(w) == w[1] > gen \/ (w[1] = gen /\ pc = "spawn" /\ w[2] >= next)
FreshInv == \A w \in Workers : Unborn(w) => proc[w] = "none" /\ w \notin entries

\* Nobody is waited for outside the two settling loops, and under ForkPolicy
\* whoever they have settled is gone.
SettleInv ==
  /\ pc \notin {"settle_old", "settle_all"} => waiting = {}
  /\ pc = "settle_old" /\ Fork =>
       \A w \in Old \ waiting : proc[w] \notin {"running", "exited"}
  /\ pc = "settle_all" /\ Fork =>
       \A w \in entries \ waiting : proc[w] \notin {"running", "exited"}

\* The inductive invariant.
PInv == TypeOK /\ HandleInv /\ GenerationInv /\ FreshInv /\ SettleInv /\ NoneForgotten

\* What is_alive and reap do to the handles and processes of S.
LEMMA ProbeEffect ==
  ASSUME TypeOK, NEW S, Probe(S)
  PROVE  /\ live' \in [Workers -> BOOLEAN]
         /\ proc' \in [Workers -> {"none", "running", "exited", "waited"}]
         /\ \A w \in Workers :
              IF Fork /\ w \in S /\ live[w] /\ proc[w] = "exited"
              THEN proc'[w] = "waited" /\ ~live'[w]
              ELSE proc'[w] = proc[w] /\ live'[w] = live[w]
<1> DEFINE zombies == {w \in S : Fork /\ live[w] /\ proc[w] = "exited"}
<1>1. /\ proc' = [w \in Workers |-> IF w \in zombies THEN "waited" ELSE proc[w]]
      /\ live' = [w \in Workers |-> live[w] /\ w \notin zombies]
  BY DEF Probe
<1>2. \A w : w \in zombies <=> w \in S /\ Fork /\ live[w] /\ proc[w] = "exited"
  OBVIOUS
<1> HIDE DEF zombies
<1>3. live' \in [Workers -> BOOLEAN]
  BY <1>1
<1>4. proc' \in [Workers -> {"none", "running", "exited", "waited"}]
  BY <1>1 DEF TypeOK
<1>5. ASSUME NEW w \in Workers
      PROVE  IF Fork /\ w \in S /\ live[w] /\ proc[w] = "exited"
             THEN proc'[w] = "waited" /\ ~live'[w]
             ELSE proc'[w] = proc[w] /\ live'[w] = live[w]
  BY <1>1, <1>2 DEF TypeOK
<1> QED BY <1>3, <1>4, <1>5

\* What signal_stop does: only flags go down.
LEMMA SignalEffect ==
  ASSUME TypeOK, HandleInv, NEW S, SignalsStop(S), proc' = proc, policy' = policy
  PROVE  /\ live' \in [Workers -> BOOLEAN]
         /\ HandleInv'
<1>1. CASE Fork
  BY <1>1 DEF SignalsStop, SendsSigterm, TypeOK, HandleInv, Fork
<1>2. CASE ~Fork
  <2>1. live' = [w \in Workers |-> live[w] /\ w \notin S]
    BY <1>2 DEF SignalsStop, LowersFlags
  <2> QED BY <1>2, <2>1 DEF TypeOK, HandleInv, Fork
<1> QED BY <1>1, <1>2

\* What one turn of the settling loops does to the next entry f: a process is
\* waited for, and nobody else's handle or process changes.
LEMMA SettleEffect ==
  ASSUME TypeOK, HandleInv, NEW f, DeadOrForced(f), policy' = policy
  PROVE  /\ live' \in [Workers -> BOOLEAN]
         /\ proc' \in [Workers -> {"none", "running", "exited", "waited"}]
         /\ HandleInv'
         /\ \A w \in Workers : w # f => proc'[w] = proc[w] /\ live'[w] = live[w]
         /\ \A w \in Workers : proc'[w] \in {"running", "exited"} => proc'[w] = proc[w]
         /\ \A w \in Workers : proc'[w] = "none" <=> proc[w] = "none"
         /\ Fork /\ f \in Workers => proc'[f] \notin {"running", "exited"}
<1>1. CASE IsAlive(f)
  <2>1. /\ proc' = [proc EXCEPT ![f] = "waited"]
        /\ live' = [live EXCEPT ![f] = ~Fork /\ @]
        /\ Fork \/ proc[f] = "exited"
    BY <1>1 DEF DeadOrForced, ForceStop, JoinReturns
  <2>2. f \in Workers => proc[f] # "none"
    BY <1>1, <2>1 DEF IsAlive, ProcessAlive, FlagUp, HandleInv
  <2>3. live' \in [Workers -> BOOLEAN] BY <2>1 DEF TypeOK
  <2>4. proc' \in [Workers -> {"none", "running", "exited", "waited"}] BY <2>1 DEF TypeOK
  <2>5. HandleInv'
    <3>1. CASE Fork BY <2>1, <3>1 DEF HandleInv, TypeOK, Fork
    <3>2. CASE ~Fork
      BY <2>1, <3>2 DEF HandleInv, TypeOK, Fork
    <3> QED BY <3>1, <3>2
  <2> QED BY <2>1, <2>2, <2>3, <2>4, <2>5 DEF TypeOK
<1>2. CASE ~IsAlive(f)
  <2>1. Probe({f}) BY <1>2 DEF DeadOrForced
  <2>2. Fork => ~(live[f] /\ proc[f] = "running")
    BY <1>2 DEF IsAlive, ProcessAlive
  <2>3. HandleInv' BY <2>1, ProbeEffect DEF HandleInv, Fork
  <2> QED BY <2>1, <2>2, <2>3, ProbeEffect DEF HandleInv, Fork
<1> QED BY <1>1, <1>2

LEMMA PInit == Init => PInv
<1> SUFFICES ASSUME Init PROVE PInv
  OBVIOUS
<1>1. TypeOK
  <2>1. 0 \in 0 .. MaxGen /\ 0 \in 0 .. MaxWorkers BY PmAssumption
  <2>2. live \in [Workers -> BOOLEAN] BY DEF Init
  <2>3. proc \in [Workers -> {"none", "running", "exited", "waited"}] BY DEF Init
  <2> QED BY <2>1, <2>2, <2>3 DEF Init, TypeOK
<1> QED BY <1>1, PmAssumption DEF Init, PInv, HandleInv, GenerationInv, FreshInv, SettleInv,
           NoneForgotten, Fork, Old

\* spawn_workers gives a worker that has no process an entry, with or without one.
LEMMA SpawnKeeps == ASSUME PInv, NEW ok \in BOOLEAN, SpawnOne(ok) PROVE PInv'
<1> DEFINE w == <<gen, next>>
<1>1. /\ pc = "spawn" /\ next < want /\ next' = next + 1
      /\ entries' = entries \cup {w}
      /\ live' = [live EXCEPT ![w] = ok]
      /\ proc' = [proc EXCEPT ![w] = IF ok THEN "running" ELSE "none"]
      /\ UNCHANGED <<policy, pc, gen, want, stopping, waiting, shutdown, reload>>
  BY DEF SpawnOne
<1>2. w \in Workers /\ w[1] = gen /\ w[2] = next
  BY <1>1, PmAssumption DEF PInv, TypeOK, GenerationInv, Workers
<1>3. \A v \in Workers : v # w => v[1] # gen \/ v[2] # next
  BY DEF Workers
<1>4. \A v \in Workers : v[1] \in Nat /\ v[2] \in Nat
  BY PmAssumption DEF Workers
<1>5. gen \in Nat /\ next \in Nat /\ want \in Nat /\ next' \in 0 .. MaxWorkers
  BY <1>1, PmAssumption DEF PInv, TypeOK
<1> HIDE DEF w
<1>6. TypeOK' BY <1>1, <1>2, <1>5 DEF PInv, TypeOK
<1>7. HandleInv' BY <1>1, <1>2 DEF PInv, TypeOK, HandleInv, Fork
<1>8. GenerationInv' BY <1>1, <1>2, <1>5 DEF PInv, GenerationInv, Generation
<1>9. FreshInv'
  <2> SUFFICES ASSUME NEW v \in Workers, Unborn(v)' PROVE proc'[v] = "none" /\ v \notin entries'
    BY DEF FreshInv
  <2>1. Unborn(v) /\ v # w BY <1>1, <1>2, <1>4, <1>5 DEF Unborn
  <2> QED BY <1>1, <2>1 DEF PInv, TypeOK, FreshInv
<1>10. SettleInv' BY <1>1 DEF PInv, SettleInv
<1>11. NoneForgotten' BY <1>1, <1>2 DEF PInv, TypeOK, NoneForgotten
<1> QED BY <1>6, <1>7, <1>8, <1>9, <1>10, <1>11 DEF PInv

\* The head of the main loop; a reload starts a new generation.
LEMMA LoopHeadKeeps == ASSUME PInv, LoopHead PROVE PInv'
<1>1. pc = "loop" /\ UNCHANGED <<policy, entries, stopping, waiting, live, proc, shutdown>>
  BY DEF LoopHead
<1>2. \A v \in Workers : v[1] \in Nat /\ v[2] \in Nat
  BY PmAssumption DEF Workers
<1>3. CASE pc' \in {"signal_all", "reap"} /\ UNCHANGED <<gen, want, next, reload>>
  BY <1>1, <1>3 DEF PInv, TypeOK, HandleInv, GenerationInv, FreshInv, Unborn, SettleInv,
                     NoneForgotten, Fork
<1>4. CASE /\ reload /\ reload' = FALSE /\ gen' = gen + 1 /\ next' = 0
           /\ want' \in 1 .. MaxWorkers /\ pc' = "spawn"
  <2>1. gen \in Nat /\ gen' \in 0 .. MaxGen /\ gen' # 0 /\ want' \in 0 .. MaxWorkers /\ next' \in 0 .. MaxWorkers
    BY <1>4, PmAssumption DEF PInv, TypeOK, GenerationInv
  <2>2. TypeOK' BY <1>1, <1>4, <2>1 DEF PInv, TypeOK
  <2>3. HandleInv' /\ SettleInv' /\ NoneForgotten'
    BY <1>1, <1>4 DEF PInv, HandleInv, SettleInv, NoneForgotten, Fork
  <2>4. \A w \in entries : w \in Workers /\ Generation(w) <= gen + 1
    BY <2>1, <1>2 DEF PInv, TypeOK, GenerationInv, Generation
  <2>5. GenerationInv' BY <1>1, <1>4, <2>1, <2>4 DEF GenerationInv, Generation
  <2>6. FreshInv' BY <1>1, <1>2, <1>4, <2>1 DEF PInv, FreshInv, Unborn
  <2> QED BY <2>2, <2>3, <2>5, <2>6 DEF PInv
<1> QED BY <1>3, <1>4 DEF LoopHead

\* stop_old_workers: the first loop, the second, and the erase.  Under ForkPolicy
\* the second has waited for every old process; under ThreadPolicy an old thread
\* that is not joined ends the program instead of being forgotten.
LEMMA OldKeeps ==
  ASSUME PInv, SignalOld \/ EraseOld PROVE PInv'
<1>1. CASE SignalOld
  <2>1. /\ pc = "signal_old" /\ pc' = "settle_old" /\ waiting' = Old
        /\ stopping' = stopping \cup Old /\ SignalsStop(Old \ stopping)
        /\ UNCHANGED <<policy, gen, want, next, entries, proc, shutdown, reload>>
    BY <1>1 DEF SignalOld
  <2>2. live' \in [Workers -> BOOLEAN] /\ HandleInv'
    BY <2>1, SignalEffect DEF PInv
  <2>3. Old \subseteq entries /\ Old' = Old BY <2>1 DEF Old
  <2>4. TypeOK' BY <2>1, <2>2, <2>3 DEF PInv, TypeOK
  <2>5. GenerationInv' /\ NoneForgotten' BY <2>1 DEF PInv, GenerationInv, NoneForgotten
  <2>6. FreshInv' BY <2>1 DEF PInv, FreshInv, Unborn
  <2>7. SettleInv' BY <2>1, <2>3 DEF SettleInv
  <2> QED BY <2>2, <2>4, <2>5, <2>6, <2>7 DEF PInv
<1>2. CASE EraseOld
  <2>1. /\ pc = "settle_old" /\ waiting = {} /\ Drops(Old, "reap")
        /\ entries' = entries \ Old /\ stopping' = stopping \ Old
        /\ UNCHANGED <<policy, gen, want, next, waiting, live, proc, shutdown, reload>>
    BY <1>2 DEF EraseOld, ErasesOld
  <2>2. pc' \in {"reap", "terminated"} BY <2>1 DEF Drops
  <2>3. \A w \in entries \ Old : Generation(w) = gen BY DEF Old
  <2>4. TypeOK' BY <2>1, <2>2, <2>3 DEF PInv, TypeOK, Generation
  <2>5. HandleInv' /\ GenerationInv'
    BY <2>1, <2>2 DEF PInv, HandleInv, GenerationInv, Fork, Generation
  <2>6. FreshInv' BY <2>1, <2>2 DEF PInv, FreshInv, Unborn
  <2>7. SettleInv' BY <2>1, <2>2 DEF SettleInv
  <2>8. NoneForgotten'
    <3> SUFFICES ASSUME pc' # "terminated", NEW w \in Workers, proc[w] \in {"running", "exited"}
                 PROVE  w \in entries'
      BY <2>1 DEF NoneForgotten
    <3>1. w \in entries BY <2>1 DEF PInv, NoneForgotten
    <3>2. CASE Fork BY <2>1, <3>1, <3>2 DEF PInv, SettleInv
    <3>3. CASE ~Fork BY <2>1, <3>1, <3>3 DEF Drops, Joinable
    <3> QED BY <3>2, <3>3
  <2> QED BY <2>4, <2>5, <2>6, <2>7, <2>8 DEF PInv
<1> QED BY <1>1, <1>2

\* One turn of a settling loop.
LEMMA SettleKeeps == ASSUME PInv, Settle PROVE PInv'
<1> DEFINE f == First(waiting)
<1>1. /\ pc \in {"settle_old", "settle_all"} /\ DeadOrForced(f) /\ waiting' = waiting \ {f}
      /\ UNCHANGED <<policy, pc, gen, want, next, entries, stopping, shutdown, reload>>
  BY DEF Settle
<1> HIDE DEF f
<1>2. TypeOK /\ HandleInv /\ policy' = policy BY <1>1 DEF PInv
<1>3. /\ live' \in [Workers -> BOOLEAN]
      /\ proc' \in [Workers -> {"none", "running", "exited", "waited"}]
      /\ HandleInv'
      /\ \A w \in Workers : w # f => proc'[w] = proc[w] /\ live'[w] = live[w]
      /\ \A w \in Workers : proc'[w] \in {"running", "exited"} => proc'[w] = proc[w]
      /\ \A w \in Workers : proc'[w] = "none" <=> proc[w] = "none"
      /\ Fork /\ f \in Workers => proc'[f] \notin {"running", "exited"}
  BY <1>1, <1>2, SettleEffect
<1>4. TypeOK' BY <1>1, <1>3 DEF PInv, TypeOK
<1>5. GenerationInv' BY <1>1 DEF PInv, GenerationInv
<1>6. FreshInv' BY <1>1, <1>3 DEF PInv, FreshInv, Unborn
<1>7. NoneForgotten' BY <1>1, <1>3 DEF PInv, NoneForgotten
<1>8. SettleInv'
  <2>1. Old' = Old /\ Old \subseteq entries /\ entries \subseteq Workers /\ Fork' = Fork
    BY <1>1, <1>2 DEF Old, Fork, TypeOK
  <2>2. \A w \in entries : Fork /\ (w = f \/ proc[w] \notin {"running", "exited"})
                             => proc'[w] \notin {"running", "exited"}
    BY <1>3, <2>1
  <2> QED BY <1>1, <2>1, <2>2 DEF PInv, SettleInv
<1> QED BY <1>3, <1>4, <1>5, <1>6, <1>7, <1>8 DEF PInv

\* reap: an entry goes only when its process was waited for or its thread joined.
LEMMA ReapKeeps == ASSUME PInv, Reap PROVE PInv'
<1>1. /\ pc = "reap" /\ entries' = {w \in entries : live'[w]} /\ stopping' = stopping \cap entries'
      /\ pc' \in {"signal_all", "loop"}
      /\ UNCHANGED <<policy, gen, want, next, waiting, shutdown, reload>>
  BY DEF Reap
<1>2. /\ live' \in [Workers -> BOOLEAN]
      /\ proc' \in [Workers -> {"none", "running", "exited", "waited"}]
      /\ HandleInv'
      /\ \A w \in Workers : proc'[w] \in {"running", "exited"} => proc'[w] = proc[w]
      /\ \A w \in Workers : proc[w] = "none" /\ w \notin entries => proc'[w] = "none"
      /\ \A w \in entries : proc'[w] \in {"running", "exited"} => live'[w]
  <2>1. CASE Fork
    <3>1. Probe(Workers) BY <2>1 DEF Reap, ReapProcesses
    <3>2. HandleInv' BY <1>1, <3>1, ProbeEffect DEF PInv, HandleInv, Fork
    <3>3. \A w \in Workers : proc'[w] \in {"running", "exited"} => live'[w]
      BY <1>1, <2>1, <3>2 DEF HandleInv, Fork
    <3> QED BY <3>1, <3>2, <3>3, ProbeEffect DEF PInv, TypeOK
  <2>2. CASE ~Fork
    <3>1. /\ live' = live
          /\ proc' = [w \in Workers |-> IF w \in entries /\ ~live[w] THEN "waited" ELSE proc[w]]
      BY <2>2 DEF Reap, ReapThreads
    <3>2. proc' \in [Workers -> {"none", "running", "exited", "waited"}]
      BY <3>1 DEF PInv, TypeOK
    <3>3. HandleInv' BY <1>1, <2>2, <3>1 DEF PInv, HandleInv, Fork
    <3> QED BY <3>1, <3>2, <3>3 DEF PInv, TypeOK
  <2> QED BY <2>1, <2>2
<1>3. entries' \subseteq entries /\ waiting = {} BY <1>1 DEF PInv, SettleInv
<1>4. TypeOK' BY <1>1, <1>2, <1>3 DEF PInv, TypeOK, Generation
<1>5. GenerationInv' BY <1>1, <1>3 DEF PInv, GenerationInv, Generation
<1>6. FreshInv' BY <1>1, <1>2, <1>3 DEF PInv, FreshInv, Unborn
<1>7. SettleInv' BY <1>1, <1>3 DEF SettleInv
<1>8. NoneForgotten' BY <1>1, <1>2 DEF PInv, NoneForgotten
<1> QED BY <1>2, <1>4, <1>5, <1>6, <1>7, <1>8 DEF PInv

\* stop_all_workers: the signals, the polling loop and the clear.
LEMMA AllKeeps == ASSUME PInv, SignalAll \/ WaitAll \/ ClearAll PROVE PInv'
<1>1. CASE SignalAll
  <2>1. /\ pc = "signal_all" /\ pc' = "wait_all" /\ SignalsStop(entries \ stopping)
        /\ stopping' = entries
        /\ UNCHANGED <<policy, gen, want, next, entries, waiting, proc, shutdown, reload>>
    BY <1>1 DEF SignalAll
  <2>2. live' \in [Workers -> BOOLEAN] /\ HandleInv'
    BY <2>1, SignalEffect DEF PInv
  <2>3. TypeOK' BY <2>1, <2>2 DEF PInv, TypeOK
  <2>4. FreshInv' BY <2>1 DEF PInv, FreshInv, Unborn
  <2> QED BY <2>1, <2>2, <2>3, <2>4 DEF PInv, GenerationInv, SettleInv, NoneForgotten
<1>2. CASE WaitAll
  <2>1. /\ pc = "wait_all"
        /\ UNCHANGED <<policy, gen, want, next, entries, stopping, shutdown, reload>>
    BY <1>2 DEF WaitAll
  <2>2. \/ pc' = "wait_all" /\ waiting' = waiting
        \/ pc' = "settle_all" /\ waiting' = entries
    BY <1>2 DEF WaitAll
  <2>3. /\ live' \in [Workers -> BOOLEAN]
        /\ proc' \in [Workers -> {"none", "running", "exited", "waited"}]
        /\ HandleInv'
        /\ \A w \in Workers : proc'[w] \in {"running", "exited"} => proc'[w] = proc[w]
        /\ \A w \in Workers : proc[w] = "none" => proc'[w] = "none"
    <3>1. CASE Probe({w \in entries : \A v \in entries : IsAlive(v) => Precedes(w, v)})
      <4>1. HandleInv' BY <2>1, <3>1, ProbeEffect DEF PInv, HandleInv, Fork
      <4> QED BY <3>1, <4>1, ProbeEffect DEF PInv
    <3>2. CASE UNCHANGED <<live, proc>>
      BY <2>1, <3>2 DEF PInv, TypeOK, HandleInv, Fork
    <3> QED BY <1>2, <3>1, <3>2 DEF WaitAll
  <2>4. TypeOK' BY <2>1, <2>2, <2>3 DEF PInv, TypeOK
  <2>5. GenerationInv' BY <2>1, <2>2 DEF PInv, GenerationInv
  <2>6. FreshInv' BY <2>1, <2>2, <2>3 DEF PInv, FreshInv, Unborn
  <2>7. SettleInv' BY <2>1, <2>2 DEF PInv, SettleInv
  <2>8. NoneForgotten' BY <2>1, <2>2, <2>3 DEF PInv, NoneForgotten
  <2> QED BY <2>3, <2>4, <2>5, <2>6, <2>7, <2>8 DEF PInv
<1>3. CASE ClearAll
  <2>1. /\ pc = "settle_all" /\ waiting = {} /\ Drops(entries, "returned")
        /\ entries' = {} /\ stopping' = {}
        /\ UNCHANGED <<policy, gen, want, next, waiting, live, proc, shutdown, reload>>
    BY <1>3 DEF ClearAll
  <2>2. pc' \in {"returned", "terminated"} BY <2>1 DEF Drops
  <2>3. TypeOK' BY <2>1, <2>2 DEF PInv, TypeOK
  <2>4. NoneForgotten'
    <3>1. CASE Fork BY <2>1, <3>1 DEF PInv, SettleInv, NoneForgotten
    <3>2. CASE ~Fork BY <2>1, <3>2 DEF PInv, NoneForgotten, Drops, Joinable
    <3> QED BY <3>1, <3>2
  <2> QED BY <2>1, <2>2, <2>3, <2>4
          DEF PInv, HandleInv, GenerationInv, FreshInv, Unborn, SettleInv, Fork
<1> QED BY <1>1, <1>2, <1>3

\* A worker ends, at any moment.
LEMMA ExitKeeps == ASSUME PInv, NEW w \in Workers, WorkerExits(w) PROVE PInv'
<1>1. /\ pc # "terminated" /\ proc[w] = "running" /\ proc' = [proc EXCEPT ![w] = "exited"]
      /\ UNCHANGED <<policy, pc, gen, want, next, entries, stopping, waiting, shutdown, reload>>
  BY DEF WorkerExits
<1>2. live' \in [Workers -> BOOLEAN] /\ HandleInv'
  <2>1. CASE Fork
    BY <1>1, <2>1 DEF WorkerExits, PInv, TypeOK, HandleInv, Fork
  <2>2. CASE ~Fork
    <3>1. live' = [v \in Workers |-> live[v] /\ v \notin {w}]
      BY <2>2 DEF WorkerExits, LowersFlags
    <3> QED BY <1>1, <2>2, <3>1 DEF PInv, TypeOK, HandleInv, Fork
  <2> QED BY <2>1, <2>2
<1>3. TypeOK' BY <1>1, <1>2 DEF PInv, TypeOK
<1>4. GenerationInv' BY <1>1 DEF PInv, GenerationInv
<1>5. FreshInv' BY <1>1 DEF PInv, TypeOK, FreshInv, Unborn
<1>6. SettleInv'
  <2>1. Old' = Old /\ Old \subseteq Workers /\ entries \subseteq Workers /\ Fork' = Fork
    BY <1>1 DEF Old, Fork, PInv, TypeOK
  <2>2. \A v \in Workers : proc[v] \notin {"running", "exited"} => proc'[v] \notin {"running", "exited"}
    BY <1>1 DEF PInv, TypeOK
  <2> QED BY <1>1, <2>1, <2>2 DEF PInv, SettleInv
<1>7. NoneForgotten' BY <1>1 DEF PInv, TypeOK, NoneForgotten
<1> QED BY <1>2, <1>3, <1>4, <1>5, <1>6, <1>7 DEF PInv

LEMMA PNext == PInv /\ [Next]_vars => PInv'
<1> SUFFICES ASSUME PInv, [Next]_vars PROVE PInv'
  OBVIOUS
<1>1. CASE Start
  <2>1. /\ pc = "start" /\ pc' = "spawn" /\ gen = 0 /\ gen' = 1 /\ next' = 0 /\ entries = {}
        /\ want' \in 1 .. MaxWorkers
        /\ UNCHANGED <<policy, entries, stopping, waiting, live, proc, shutdown, reload>>
    BY <1>1 DEF Start, PInv, GenerationInv
  <2>2. 1 \in 0 .. MaxGen /\ 0 \in 0 .. MaxWorkers /\ want' \in 0 .. MaxWorkers /\ 0 <= want'
    BY <2>1, PmAssumption
  <2>3. TypeOK' BY <2>1, <2>2 DEF PInv, TypeOK
  <2>4. HandleInv' /\ SettleInv' /\ NoneForgotten'
    BY <2>1 DEF PInv, HandleInv, SettleInv, NoneForgotten, Fork
  <2>5. GenerationInv' BY <2>1, <2>2 DEF PInv, GenerationInv
  <2>6. FreshInv'
    <3>1. \A w \in Workers : w[1] > 0 BY DEF Workers
    <3> QED BY <2>1, <3>1 DEF PInv, FreshInv, Unborn
  <2> QED BY <2>3, <2>4, <2>5, <2>6 DEF PInv
<1>2. ASSUME NEW ok \in BOOLEAN, SpawnOne(ok) PROVE PInv'
  BY <1>2, SpawnKeeps
<1>3. CASE SpawnEnds
  <2>1. /\ pc = "spawn" /\ next = want
        /\ UNCHANGED <<policy, gen, want, next, entries, stopping, waiting, live, proc, shutdown, reload>>
        /\ pc' = IF gen = 1 THEN "loop" ELSE "signal_old"
    BY <1>3 DEF SpawnEnds
  <2>2. \A w \in entries : Generation(w) \in Nat \ {0} /\ Generation(w) <= gen
    BY DEF PInv, TypeOK, GenerationInv, Generation, Workers
  <2>3. TypeOK' BY <2>1, <2>2 DEF PInv, TypeOK
  <2>4. FreshInv' BY <2>1 DEF PInv, FreshInv, Unborn
  <2> QED BY <2>1, <2>3, <2>4
          DEF PInv, HandleInv, GenerationInv, SettleInv, NoneForgotten, Fork
<1>4. CASE LoopHead BY <1>4, LoopHeadKeeps
<1>5. CASE SignalOld \/ EraseOld BY <1>5, OldKeeps
<1>6. CASE Settle BY <1>6, SettleKeeps
<1>7. CASE Reap BY <1>7, ReapKeeps
<1>8. CASE SignalAll \/ WaitAll \/ ClearAll BY <1>8, AllKeeps
<1>9. CASE RequestShutdown
  BY <1>9 DEF RequestShutdown, PInv, TypeOK, HandleInv, GenerationInv, FreshInv, Unborn,
              SettleInv, NoneForgotten, Fork, Old
<1>10. CASE RequestReload
  BY <1>10 DEF RequestReload, PInv, TypeOK, HandleInv, GenerationInv, FreshInv, Unborn,
               SettleInv, NoneForgotten, Fork, Old
<1>11. ASSUME NEW w \in Workers, WorkerExits(w) PROVE PInv'
  BY <1>11, ExitKeeps
<1>12. CASE UNCHANGED vars
  BY <1>12 DEF vars, PInv, TypeOK, HandleInv, GenerationInv, FreshInv, Unborn, SettleInv,
               NoneForgotten, Fork, Old
<1> QED BY <1>1, <1>2, <1>3, <1>4, <1>5, <1>6, <1>7, <1>8, <1>9, <1>10, <1>11, <1>12
        DEF Next, Master

\* A pid that a handle of ForkPolicy holds is that of a process nobody has waited
\* for, and a flag of ThreadPolicy is up only while its thread runs: for any
\* number of workers and reloads, in every step of the stop sequences.
THEOREM HandlesAreCurrent == Spec => []HandleIsCurrent
<1>1. PInv => HandleIsCurrent BY DEF PInv, HandleInv, HandleIsCurrent
<1> QED BY PInit, PNext, <1>1, PTL DEF Spec

\* The master forgets no worker: whoever runs or is a zombie is in workers_.
THEOREM WorkersAreKnown == Spec => []NoneForgotten
<1>1. PInv => NoneForgotten BY DEF PInv
<1> QED BY PInit, PNext, <1>1, PTL DEF Spec

\* spawn_workers never gives an entry to a worker that has one, or a process: no
\* handle is overwritten.
THEOREM SpawnIsFresh ==
  Spec => [](pc = "spawn" /\ next < want
               => <<gen, next>> \notin entries /\ proc[<<gen, next>>] = "none")
<1>1. PInv => (pc = "spawn" /\ next < want
                 => <<gen, next>> \notin entries /\ proc[<<gen, next>>] = "none")
  <2> SUFFICES ASSUME PInv, pc = "spawn", next < want
               PROVE  <<gen, next>> \notin entries /\ proc[<<gen, next>>] = "none"
    OBVIOUS
  <2>1. <<gen, next>> \in Workers /\ gen \in Nat /\ next \in Nat
    BY PmAssumption DEF PInv, TypeOK, GenerationInv, Workers
  <2>2. Unborn(<<gen, next>>) BY <2>1 DEF Unborn
  <2> QED BY <2>1, <2>2 DEF PInv, FreshInv
<1> QED BY PInit, PNext, <1>1, PTL DEF Spec

\* When stop_old_workers has ended a reload, nobody of an older generation runs or
\* is a zombie.
THEOREM ReloadLeavesOneGeneration == Spec => OldGenerationGone
<1>1. PInv /\ PInv' /\ [Next]_vars =>
        [EraseOld /\ pc' = "reap" =>
           \A w \in Workers : proc'[w] \in {"running", "exited"} => Generation(w) = gen]_vars
  <2> SUFFICES ASSUME PInv', EraseOld, pc' = "reap",
                      NEW w \in Workers, proc'[w] \in {"running", "exited"}
               PROVE  Generation(w) = gen
    OBVIOUS
  <2>1. w \in entries' BY DEF PInv, NoneForgotten
  <2>2. gen' = gen BY DEF EraseOld
  <2> QED BY <2>1, <2>2 DEF PInv, TypeOK, Generation
<1> QED BY PInit, PNext, <1>1, PTL DEF Spec, OldGenerationGone
=============================================================================
