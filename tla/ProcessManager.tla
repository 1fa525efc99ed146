--------------------------- MODULE ProcessManager ---------------------------
(***************************************************************************)
(* process_manager<Cfg, Policy> (include/async_net/executor/               *)
(* process_manager.hpp): the master's loop, reload by generations, and the *)
(* stop sequences, with ForkPolicy (worker processes, pids, waitpid) or    *)
(* ThreadPolicy (std::thread and a running flag).                          *)
(*                                                                         *)
(* A worker is named <<generation, id>>.  live[w] is what the handle says: *)
(* h.pid # 0 under ForkPolicy, *h.running under ThreadPolicy.  proc[w] is  *)
(* the process or thread itself: "exited" is a zombie process or a thread  *)
(* that ended and is joinable; "waited" is one waitpid or join returned    *)
(* for.  The deadlines of graceful_timeout may pass at any moment.  A      *)
(* SIGTERM has no effect on a worker: its handler there does nothing.      *)
(***************************************************************************)
EXTENDS Naturals

CONSTANTS
  Policies,     \* the policies compared: ForkPolicy and ThreadPolicy
  MaxWorkers,   \* bound on num_workers (any configuration, or reload_fn, may choose)
  MaxGen        \* bound on the generations

ASSUME PmAssumption ==
  /\ Policies \subseteq {"fork", "thread"}
  /\ MaxWorkers \in Nat \ {0} /\ MaxGen \in Nat \ {0}

VARIABLES
  policy,       \* the Policy parameter of the class; never changes
  pc,           \* where run() is
  gen,          \* current_generation_
  want, next,   \* spawn_workers: count and i
  entries,      \* workers_
  stopping,     \* the entries whose stopping flag is set
  waiting,      \* the entries the loop over workers_ has still to settle
  live, proc,
  shutdown,     \* shutdown_requested
  reload        \* reload_requested

vars == <<policy, pc, gen, want, next, entries, stopping, waiting, live, proc, shutdown, reload>>

Workers == (1 .. MaxGen) \X (0 .. MaxWorkers - 1)
Generation(w) == w[1]
Fork == policy = "fork"

\* Every variable is of its type; while run() is in its main loop every entry is of
\* the current generation.
TypeOK ==
  /\ policy \in Policies
  /\ pc \in {"start", "spawn", "loop", "reap", "signal_old", "settle_old", "signal_all",
             "wait_all", "settle_all", "returned", "terminated"}
  /\ gen \in 0 .. MaxGen /\ want \in 0 .. MaxWorkers /\ next \in 0 .. MaxWorkers
  /\ entries \subseteq Workers /\ stopping \subseteq entries /\ waiting \subseteq entries
  /\ live \in [Workers -> BOOLEAN]
  /\ proc \in [Workers -> {"none", "running", "exited", "waited"}]
  /\ shutdown \in BOOLEAN /\ reload \in BOOLEAN
  /\ pc \in {"loop", "reap"} => \A w \in entries : Generation(w) = gen

Init ==
  /\ policy \in Policies
  /\ pc = "start" /\ gen = 0 /\ want = 0 /\ next = 0
  /\ entries = {} /\ stopping = {} /\ waiting = {}
  /\ live = [w \in Workers |-> FALSE] /\ proc = [w \in Workers |-> "none"]
  /\ shutdown = FALSE /\ reload = FALSE

-----------------------------------------------------------------------------
\* Policy::is_alive: what it answers, and the waitpid(WNOHANG) it does for each
\* worker of S.
ProcessAlive(w) == live[w] /\ proc[w] = "running"
FlagUp(w) == live[w]
IsAlive(w) == IF Fork THEN ProcessAlive(w) ELSE FlagUp(w)
KeepsPid(S) ==
  /\ proc' = [w \in Workers |-> IF Fork /\ w \in S /\ live[w] /\ proc[w] = "exited"
                                THEN "waited" ELSE proc[w]]
  /\ live' = live
Probe(S) ==
  LET zombies == {w \in S : Fork /\ live[w] /\ proc[w] = "exited"}
  IN  /\ proc' = [w \in Workers |-> IF w \in zombies THEN "waited" ELSE proc[w]]
      /\ live' = [w \in Workers |-> live[w] /\ w \notin zombies]

\* Policy::force_stop: SIGKILL and waitpid, or join, which waits for the thread.
JoinReturns(w) == proc[w] = "exited"
ForceWaits(w) ==
  /\ proc[w] = "exited"
  /\ proc' = [proc EXCEPT ![w] = "waited"]
  /\ live' = [live EXCEPT ![w] = ~Fork /\ @]
ForceStop(w) ==
  /\ Fork \/ JoinReturns(w)
  /\ proc' = [proc EXCEPT ![w] = "waited"]
  /\ live' = [live EXCEPT ![w] = ~Fork /\ @]

\* Policy::signal_stop for each worker of S.
SendsSigterm(S) == UNCHANGED live
LowersFlags(S) == live' = [w \in Workers |-> live[w] /\ w \notin S]
SignalsStop(S) == IF Fork THEN SendsSigterm(S) ELSE LowersFlags(S)

\* Dropping the entries S destroys their handles: std::terminate for a joinable thread.
Joinable(w) == proc[w] \in {"running", "exited"}
Detaches(S, then) == pc' = then
Drops(S, then) == pc' = IF ~Fork /\ \E w \in S : Joinable(w) THEN "terminated" ELSE then

-----------------------------------------------------------------------------
\* run() up to the first spawn_workers.
Start ==
  /\ pc = "start"
  /\ pc' = "spawn" /\ gen' = 1 /\ next' = 0
  /\ want' \in 1 .. MaxWorkers
  /\ UNCHANGED <<policy, entries, stopping, waiting, live, proc, shutdown, reload>>

\* One turn of spawn_workers; fork() may fail.
ForkSucceeds(ok) == ok \in BOOLEAN
ThreadStarts(ok) == ok = TRUE
SpawnOne(ok) ==
  LET w == <<gen, next>>
  IN  /\ pc = "spawn" /\ next < want
      /\ IF Fork THEN ForkSucceeds(ok) ELSE ThreadStarts(ok)
      /\ next' = next + 1
      /\ entries' = entries \cup {w}
      /\ live' = [live EXCEPT ![w] = ok]
      /\ proc' = [proc EXCEPT ![w] = IF ok THEN "running" ELSE "none"]
      /\ UNCHANGED <<policy, pc, gen, want, stopping, waiting, shutdown, reload>>

SpawnEnds ==
  /\ pc = "spawn" /\ next = want
  /\ pc' = IF gen = 1 THEN "loop" ELSE "signal_old"
  /\ UNCHANGED <<policy, gen, want, next, entries, stopping, waiting, live, proc, shutdown, reload>>

\* The head of the main loop: shutdown, a reload, or straight to reap.
LoopHead ==
  /\ pc = "loop"
  /\ \/ /\ shutdown
        /\ pc' = "signal_all" /\ UNCHANGED <<gen, want, next, reload>>
     \/ /\ ~shutdown /\ reload
        /\ reload' = FALSE
        /\ gen' = gen + 1 /\ next' = 0 /\ want' \in 1 .. MaxWorkers
        /\ pc' = "spawn"
     \/ /\ ~shutdown /\ ~reload
        /\ pc' = "reap" /\ UNCHANGED <<gen, want, next, reload>>
  /\ UNCHANGED <<policy, entries, stopping, waiting, live, proc, shutdown>>

\* stop_old_workers: signal, settle one after the other, erase.
Old == {w \in entries : Generation(w) # gen}
SignalOld ==
  /\ pc = "signal_old"
  /\ SignalsStop(Old \ stopping)
  /\ stopping' = stopping \cup Old /\ waiting' = Old
  /\ pc' = "settle_old"
  /\ UNCHANGED <<policy, gen, want, next, entries, proc, shutdown, reload>>

Precedes(v, w) == v[1] < w[1] \/ (v[1] = w[1] /\ v[2] < w[2])
First(S) == CHOOSE w \in S : \A v \in S \ {w} : Precedes(w, v)

\* The next entry is found dead, or is force-stopped once the deadline has passed.
NeverForces(w) == Probe({w})
DeadOrForced(w) == IF IsAlive(w) THEN ForceStop(w) ELSE Probe({w})
Settle ==
  /\ pc \in {"settle_old", "settle_all"} /\ waiting # {}
  /\ DeadOrForced(First(waiting))
  /\ waiting' = waiting \ {First(waiting)}
  /\ UNCHANGED <<policy, pc, gen, want, next, entries, stopping, shutdown, reload>>

ErasesOld ==
  /\ Drops(Old, "reap")
  /\ entries' = entries \ Old /\ stopping' = stopping \ Old
EraseOld ==
  /\ pc = "settle_old" /\ waiting = {}
  /\ ErasesOld
  /\ UNCHANGED <<policy, gen, want, next, waiting, live, proc, shutdown, reload>>

\* Policy::reap: waitpid(-1) until no child has exited, or join of every thread whose
\* flag is down; then the entries without a worker are erased.
ReapProcesses == Probe(Workers)
ReapThreads ==
  /\ \A w \in entries : ~live[w] => JoinReturns(w)
  /\ proc' = [w \in Workers |-> IF w \in entries /\ ~live[w] THEN "waited" ELSE proc[w]]
  /\ live' = live
Reap ==
  /\ pc = "reap"
  /\ IF Fork THEN ReapProcesses ELSE ReapThreads
  /\ entries' = {w \in entries : live'[w]}
  /\ stopping' = stopping \cap entries'
  /\ pc' = IF entries' = {} THEN "signal_all" ELSE "loop"
  /\ UNCHANGED <<policy, gen, want, next, waiting, shutdown, reload>>

\* stop_all_workers: signal, poll until all are dead or the deadline, settle, clear.
SignalAll ==
  /\ pc = "signal_all"
  /\ SignalsStop(entries \ stopping)
  /\ stopping' = entries
  /\ pc' = "wait_all"
  /\ UNCHANGED <<policy, gen, want, next, entries, waiting, proc, shutdown, reload>>

\* One turn of the polling loop looks at the entries up to the first that is alive.
WaitAll ==
  /\ pc = "wait_all"
  /\ \/ /\ Probe({w \in entries : \A v \in entries : IsAlive(v) => Precedes(w, v)})
        /\ IF \E v \in entries : IsAlive(v)
           THEN UNCHANGED <<pc, waiting>>
           ELSE pc' = "settle_all" /\ waiting' = entries
     \/ pc' = "settle_all" /\ waiting' = entries /\ UNCHANGED <<live, proc>>
  /\ UNCHANGED <<policy, gen, want, next, entries, stopping, shutdown, reload>>

ClearAll ==
  /\ pc = "settle_all" /\ waiting = {}
  /\ Drops(entries, "returned")
  /\ entries' = {} /\ stopping' = {}
  /\ UNCHANGED <<policy, gen, want, next, waiting, live, proc, shutdown, reload>>

-----------------------------------------------------------------------------
\* A worker ends: its function returned, its loop stopped, or an exception.
\* A thread lowers its flag as its last statement.
WorkerExits(w) ==
  /\ pc # "terminated" /\ proc[w] = "running"
  /\ proc' = [proc EXCEPT ![w] = "exited"]
  /\ IF Fork THEN UNCHANGED live ELSE LowersFlags({w})
  /\ UNCHANGED <<policy, pc, gen, want, next, entries, stopping, waiting, shutdown, reload>>

\* SIGTERM, SIGINT or request_shutdown; SIGHUP or request_reload.
RequestShutdown ==
  /\ ~shutdown /\ shutdown' = TRUE
  /\ UNCHANGED <<policy, pc, gen, want, next, entries, stopping, waiting, live, proc, reload>>
RequestReload ==
  /\ ~reload /\ gen \in 1 .. MaxGen - 1 /\ pc \notin {"returned", "terminated"}
  /\ reload' = TRUE
  /\ UNCHANGED <<policy, pc, gen, want, next, entries, stopping, waiting, live, proc, shutdown>>

Master ==
  \/ Start \/ SpawnOne(TRUE) \/ SpawnOne(FALSE) \/ SpawnEnds \/ LoopHead
  \/ SignalOld \/ Settle \/ EraseOld \/ Reap \/ SignalAll \/ WaitAll \/ ClearAll

Next ==
  \/ Master \/ RequestShutdown \/ RequestReload
  \/ \E w \in Workers : WorkerExits(w)

Spec == Init /\ [][Next]_vars

\* The master is scheduled, and the deadline of stop_all_workers passes.
FairSpec == Spec /\ WF_vars(Master) /\ WF_vars(WaitAll /\ pc' = "settle_all")

-----------------------------------------------------------------------------
\* A pid (or a raised flag) in a handle is that of a worker nobody has waited for:
\* kill() never reaches a process that reuses the number.
HandleIsCurrent == \A w \in Workers : live[w] => proc[w] \in {"running", "exited"}

\* A worker that runs, or is a zombie, is in workers_: through reloads, failed forks
\* and exits at any moment the master forgets no worker.
NoneForgotten ==
  pc # "terminated" => \A w \in Workers : proc[w] \in {"running", "exited"} => w \in entries

\* The outcome of a reload: one generation, and of the old one nobody runs.
OldGenerationGone ==
  [][EraseOld /\ pc' = "reap" =>
       \A w \in Workers : proc'[w] \in {"running", "exited"} => Generation(w) = gen]_vars

\* A shutdown request ends run(), whatever the workers do.
ShutdownCompletes == shutdown ~> pc \in {"returned", "terminated"}

\* The declaration of run(): it "blocks until shutdown" and "Returns exit code (0 =
\* normal shutdown)".
ReturnsNormally == pc # "terminated"
=============================================================================
