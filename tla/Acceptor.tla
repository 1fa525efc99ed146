------------------------------ MODULE Acceptor ------------------------------
(***************************************************************************)
(* network::acceptor (include/async_net/network/acceptor.hpp): the accept  *)
(* loop serve(), launch_handler, reap_completed, await_completion, stop(). *)
(*                                                                         *)
(* serve() and the handlers are coroutines of one io_context whose thread  *)
(* executes one of them at a time until it suspends; a stretch of serve()  *)
(* or of a handler between two suspensions is one step.  A handler may     *)
(* move to a pool thread with run_on and back, and may end there; it is    *)
(* done() from the moment it is suspended finally, while its FinalAwaiter  *)
(* still executes on that thread ("finishing").  await_completion never    *)
(* suspends: it blocks the thread.                                         *)
(***************************************************************************)
EXTENDS Naturals, FiniteSets

CONSTANTS
  Conns,      \* incoming connections, each with its handler
  Hops        \* whether handlers use run_on: a subset of {"pool", "back"}

ASSUME AcceptorAssumption == Hops \subseteq {"pool", "back"}

VARIABLES
  serve,      \* where the accept loop is
  running,    \* running_
  tasks,      \* tasks_
  handler,    \* the state of each connection and of its handler
  touched     \* handlers deleted while a thread was executing them

vars == <<serve, running, tasks, handler, touched>>

Active == {"on_loop", "on_pool", "finishing"}

\* Every variable is of its type; the accept loop forgets no handler it launched.
TypeOK ==
  /\ serve \in {"new", "failed", "accept", "spin", "returned"}
  /\ running \in BOOLEAN
  /\ tasks \subseteq Conns
  /\ handler \in [Conns -> {"none", "backlog", "deleted"} \cup Active \cup {"done"}]
  /\ \A h \in Conns : h \in tasks <=> handler[h] \in Active \cup {"done"}
  /\ touched \subseteq Conns

Init ==
  /\ serve = "new" /\ running = TRUE /\ tasks = {}
  /\ handler = [h \in Conns |-> "none"] /\ touched = {}

LoopFree == serve # "spin"
IsDone(s) == s \in {"finishing", "done"}                       \* task.done()

\* reap_completed, starting from the set ts of entries and the states hs.
ReapNothing(ts, hs) == tasks' = ts /\ handler' = hs /\ UNCHANGED touched
ReapCompleted(ts, hs) ==
  LET dead == {h \in ts : IsDone(hs[h])}
  IN  /\ tasks' = ts \ dead
      /\ handler' = [h \in Conns |-> IF h \in dead THEN "deleted" ELSE hs[h]]
      /\ touched' = touched \cup {h \in dead : hs[h] = "finishing"}

-----------------------------------------------------------------------------
\* serve(): bind fails, or the first async_accept suspends (a connection that is
\* there already completes it at once: AcceptResumes).
ServeStarts ==
  /\ serve = "new"
  /\ serve' \in {"failed", IF running THEN "accept" ELSE "spin"}
  /\ UNCHANGED <<running, tasks, handler, touched>>

\* The head of while (running_).
LoopsOn == serve' = IF running THEN "accept" ELSE "spin"

\* async_accept yields a connection; launch_handler runs its handler until it ends
\* or suspends, and reaps.
AcceptResumes(h, next) ==
  /\ serve = "accept" /\ handler[h] = "backlog"
  /\ next \in {"done", "on_loop"} \cup (IF "pool" \in Hops THEN {"on_pool"} ELSE {})
  /\ IF next = "done"
     THEN ReapCompleted(tasks, [handler EXCEPT ![h] = "deleted"])
     ELSE ReapCompleted(tasks \cup {h}, [handler EXCEPT ![h] = next])
  /\ LoopsOn
  /\ UNCHANGED running

\* async_accept yields an error (the connection is gone again).
AcceptFailsForGood(h) ==
  /\ serve = "accept" /\ handler[h] = "backlog"
  /\ handler' = [handler EXCEPT ![h] = "deleted"]
  /\ serve' = "returned"
  /\ UNCHANGED <<running, tasks, touched>>
AcceptFails(h) ==
  /\ serve = "accept" /\ handler[h] = "backlog"
  /\ handler' = [handler EXCEPT ![h] = "deleted"]
  /\ LoopsOn
  /\ UNCHANGED <<running, tasks, touched>>

\* One turn of await_completion: leave when tasks_ is empty, else sleep and reap.
SpinTurn ==
  /\ serve = "spin"
  /\ \/ /\ tasks = {}
        /\ serve' = "returned"
        /\ UNCHANGED <<tasks, handler, touched>>
     \/ /\ tasks # {}
        /\ ReapCompleted(tasks, handler)
        /\ UNCHANGED serve
  /\ UNCHANGED running

\* stop(), from any thread.  wake() makes poll() return; it completes no accept.
Stop ==
  /\ running
  /\ running' = FALSE
  /\ UNCHANGED <<serve, tasks, handler, touched>>

-----------------------------------------------------------------------------
\* Clients and handlers.

Connects(h) ==
  /\ handler[h] = "none"
  /\ handler' = [handler EXCEPT ![h] = "backlog"]
  /\ UNCHANGED <<serve, running, tasks, touched>>

\* A handler is resumed by the loop and ends, or moves to the pool.
HandlerOnLoop(h) ==
  /\ handler[h] = "on_loop" /\ LoopFree
  /\ \/ handler' = [handler EXCEPT ![h] = "done"]
     \/ "pool" \in Hops /\ handler' = [handler EXCEPT ![h] = "on_pool"]
  /\ UNCHANGED <<serve, running, tasks, touched>>

\* It reaches its final suspension on a pool thread, or returns to the loop.
HandlerOnPool(h) ==
  /\ handler[h] = "on_pool"
  /\ \/ handler' = [handler EXCEPT ![h] = "finishing"]
     \/ "back" \in Hops /\ handler' = [handler EXCEPT ![h] = "on_loop"]
  /\ UNCHANGED <<serve, running, tasks, touched>>

\* FinalAwaiter::await_suspend returns there.
HandlerFinishes(h) ==
  /\ handler[h] = "finishing"
  /\ handler' = [handler EXCEPT ![h] = "done"]
  /\ UNCHANGED <<serve, running, tasks, touched>>

ServeStep ==
  \/ ServeStarts \/ SpinTurn
  \/ \E h \in Conns : AcceptFails(h)
  \/ \E h \in Conns, next \in {"done", "on_loop", "on_pool"} : AcceptResumes(h, next)
HandlerStep(h) == HandlerOnLoop(h) \/ HandlerOnPool(h) \/ HandlerFinishes(h)

Next ==
  \/ ServeStep \/ Stop
  \/ \E h \in Conns : Connects(h) \/ HandlerStep(h)

Spec == Init /\ [][Next]_vars

\* The loop and the pool are scheduled, and handlers end.  A handler that hops does
\* not do so for ever.
Fairness ==
  /\ WF_vars(ServeStep)
  /\ \A h \in Conns :
       /\ WF_vars(HandlerStep(h))
       /\ SF_vars(handler[h] = "on_loop" /\ HandlerOnLoop(h) /\ handler'[h] = "done")
       /\ SF_vars(HandlerOnPool(h) /\ handler'[h] = "finishing")

FairSpec == Spec /\ Fairness

-----------------------------------------------------------------------------
\* serve() returns only when every handler it launched has ended and its entry has
\* been deleted.
ReturnsAfterHandlers ==
  serve = "returned" => tasks = {} /\ \A h \in Conns : handler[h] \notin Active

\* After stop(), once another connection has ended the pending accept, serve()
\* returns unless some handler needs the loop that await_completion blocks.
SpinEnds ==
  serve = "spin" ~> serve = "returned" \/ \E h \in Conns : handler[h] = "on_loop"

\* The comment in stop(): "Wake the io_context so poll() unblocks and serve() can
\* check running_".
StopReachesServe == ~running ~> serve # "accept"

\* The comment in await_completion: it sleeps to "Give time for completion callbacks
\* to fire".
CallbacksFire == \A h \in Conns : serve = "spin" /\ handler[h] = "on_loop" ~> handler[h] # "on_loop"

\* The comment in launch_handler: a suspended handler is kept "alive until
\* completion".
KeptUntilComplete == touched = {}
=============================================================================
