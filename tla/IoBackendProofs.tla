--------------------------- MODULE IoBackendProofs ---------------------------
(***************************************************************************)
(* The three backends for any descriptors: no suspended coroutine is lost. *)
(***************************************************************************)
EXTENDS MCIoBackends, FiniteSetTheorems, TLAPS

-----------------------------------------------------------------------------
\* kqueue.  The invariant adds to OperationArmed which coroutines own the entries
\* of the maps, and that none runs while the thread is in kevent() or under the lock.

KKinds == {"read", "recvfrom", "write", "sendto", "accept", "connect", "wait"}

KTypeOK ==
  /\ kops \in [K!Slots -> KKinds \cup {"none"}]
  /\ armed \subseteq K!Slots /\ kevents \subseteq K!Slots /\ unarmed \subseteq K!Slots
  /\ kresumes \subseteq K!Slots
  /\ task \in [K!Slots -> {"new", "running", "suspended", "finished"}]
  /\ at \in {"out", "waiting", "locked", "resume"}

\* An entry of the maps, or of to_resume, is that of a suspended coroutine.
KOwnerInv ==
  /\ \A c \in K!Slots : kops[c] # "none" => task[c] = "suspended"
  /\ \A c \in kresumes : task[c] = "suspended" /\ kops[c] = "none"

\* Where the thread is in poll_impl, and what it then holds.
KLoopInv ==
  /\ at \in {"waiting", "locked"} => K!Idle
  /\ at # "locked" => kevents = {}
  /\ at # "resume" => kresumes = {}

KInv == KTypeOK /\ KOwnerInv /\ KLoopInv /\ K!OperationArmed

LEMMA KInit == K!Init => KInv
  BY DEF K!Init, KInv, KTypeOK, KOwnerInv, KLoopInv, K!OperationArmed, K!Idle, KKinds

\* What all operations but an immediate connect do.
LEMMA KQueue ==
  ASSUME KInv, NEW c \in K!Slots, NEW kind \in KKinds, K!Queue(c, kind)
  PROVE  KInv'
<1> USE DEF KInv, K!Queue
<1>1. KTypeOK' BY DEF KTypeOK, KKinds
<1>2. KOwnerInv' BY DEF KTypeOK, KOwnerInv, KKinds
<1>3. KLoopInv' BY DEF KTypeOK, KLoopInv, K!Idle
<1>4. K!OperationArmed' BY DEF KTypeOK, KOwnerInv, K!OperationArmed, KKinds
<1> QED BY <1>1, <1>2, <1>3, <1>4

LEMMA KDeregister ==
  ASSUME KInv, NEW c \in K!Slots, K!deregister(c)
  PROVE  KInv'
<1> USE DEF KInv, K!deregister
<1>1. KTypeOK' BY DEF KTypeOK
<1>2. KOwnerInv' BY DEF KTypeOK, KOwnerInv
<1>3. KLoopInv' BY DEF KTypeOK, KLoopInv, K!Idle
<1>4. K!OperationArmed' BY DEF KTypeOK, K!OperationArmed
<1> QED BY <1>1, <1>2, <1>3, <1>4

\* The section under the lock: what has an event is completed, or registered
\* again, or an accept.
LEMMA KCompleteEvents ==
  ASSUME KInv, K!CompleteEvents
  PROVE  KInv'
<1> DEFINE found == {c \in kevents : kops[c] # "none"}
           done == {c \in found : K!Calls(c) \/ kops[c] \in {"connect", "wait"}}
<1>1. /\ at = "locked" /\ at' = "resume" /\ kevents' = {} /\ kresumes' = done
      /\ kops' = [c \in K!Slots |-> IF c \in done THEN "none" ELSE kops[c]]
      /\ armed' = armed \cup {c \in found \ done : K!Rearmed(c)}
      /\ unarmed' = unarmed \cup {c \in found \ done : kops[c] = "accept"}
      /\ opened' = opened /\ task' = task
  BY DEF K!CompleteEvents
<1>2. found \subseteq K!Slots /\ done \subseteq found
  BY DEF KInv, KTypeOK
<1>3. kresumes = {} BY <1>1 DEF KInv, KLoopInv
<1>4. \A c \in found \ done : K!Rearmed(c) \/ kops[c] = "accept"
  <2> SUFFICES ASSUME NEW c \in found \ done PROVE K!Rearmed(c) \/ kops[c] = "accept"
    OBVIOUS
  <2>1. kops[c] \in KKinds BY <1>2 DEF KInv, KTypeOK
  <2>2. kops[c] \notin {"connect", "wait"} OBVIOUS
  <2> QED BY <2>1, <2>2 DEF KKinds, K!Rearmed
<1> HIDE DEF found, done
<1>5. KTypeOK' BY <1>1, <1>2 DEF KInv, KTypeOK
<1>6. KOwnerInv'
  <2>1. \A c \in done : kops[c] # "none" /\ c \in K!Slots BY <1>2 DEF found, done
  <2> QED BY <1>1, <2>1 DEF KInv, KOwnerInv
<1>7. KLoopInv' BY <1>1 DEF KLoopInv
<1>8. K!OperationArmed'
  <2> SUFFICES ASSUME NEW c \in K!Slots, task[c] = "suspended", c[1] \in opened
               PROVE  IF kops'[c] = "none" THEN c \in kresumes'
                      ELSE c \notin kresumes' /\ c \in armed' \cup kevents' \cup unarmed'
    BY <1>1 DEF K!OperationArmed
  <2>1. kops[c] # "none" /\ c \in armed \cup kevents \cup unarmed
    BY <1>3 DEF KInv, K!OperationArmed
  <2>2. CASE c \in done BY <2>2, <1>1
  <2>3. CASE c \notin done
    <3>1. kops'[c] = kops[c] /\ c \notin kresumes' BY <2>3, <1>1
    <3>2. CASE c \in kevents
      <4>1. c \in found \ done BY <3>2, <2>3, <2>1 DEF found
      <4> QED BY <4>1, <3>1, <2>1, <1>1, <1>4
    <3>3. CASE c \notin kevents BY <3>1, <3>3, <2>1, <1>1
    <3> QED BY <3>2, <3>3
  <2> QED BY <2>2, <2>3
<1> QED BY <1>5, <1>6, <1>7, <1>8 DEF KInv

LEMMA KNext == ASSUME KInv, K!Next \/ UNCHANGED K!kvars PROVE KInv'
<1>1. ASSUME NEW c \in K!Slots, K!Start(c) PROVE KInv'
  BY <1>1 DEF KInv, K!Start, KTypeOK, KOwnerInv, KLoopInv, K!OperationArmed, K!Idle
<1>2. ASSUME NEW c \in K!Slots, K!Submit(c) PROVE KInv'
  <2>1. CASE UNCHANGED K!kvars
    BY <2>1 DEF KInv, K!kvars, KTypeOK, KOwnerInv, KLoopInv, K!OperationArmed, K!Idle
  <2>2. CASE \E kind \in KKinds : K!Queue(c, kind)
    BY <2>2, KQueue
  <2> QED BY <1>2, <2>1, <2>2 DEF K!Submit, KKinds, K!async_read, K!async_accept, K!async_recvfrom,
             K!async_wait_readable, K!async_write, K!async_sendto, K!async_wait_writable, K!async_connect
<1>3. ASSUME NEW c \in K!Slots, K!Finish(c) PROVE KInv'
  BY <1>3 DEF KInv, K!Finish, KTypeOK, KOwnerInv, KLoopInv, K!OperationArmed, K!Idle
<1>4. ASSUME NEW c \in K!Slots, K!deregister(c) PROVE KInv'
  BY <1>4, KDeregister
<1>5. ASSUME NEW c \in K!Slots, K!Arrive(c) \/ K!Withdraw(c) PROVE KInv'
  BY <1>5 DEF KInv, K!Arrive, K!Withdraw, KTypeOK, KOwnerInv, KLoopInv, K!OperationArmed, K!Idle
<1>6. CASE K!poll
  BY <1>6 DEF KInv, K!poll, KTypeOK, KOwnerInv, KLoopInv, K!OperationArmed, K!Idle
<1>7. CASE K!kevent
  BY <1>7 DEF KInv, K!kevent, KTypeOK, KOwnerInv, KLoopInv, K!OperationArmed, K!Idle
<1>8. CASE K!CompleteEvents
  BY <1>8, KCompleteEvents
<1>9. ASSUME NEW c \in K!Slots, K!Resume(c) PROVE KInv'
  BY <1>9 DEF KInv, K!Resume, KTypeOK, KOwnerInv, KLoopInv, K!OperationArmed, K!Idle
<1>10. CASE K!Returns
  BY <1>10 DEF KInv, K!Returns, KTypeOK, KOwnerInv, KLoopInv, K!OperationArmed, K!Idle
<1>11. CASE K!wake
  BY <1>11 DEF KInv, K!wake, KTypeOK, KOwnerInv, KLoopInv, K!OperationArmed, K!Idle
<1>12. CASE UNCHANGED K!kvars
  BY <1>12 DEF KInv, K!kvars, KTypeOK, KOwnerInv, KLoopInv, K!OperationArmed, K!Idle
<1> QED BY <1>1, <1>2, <1>3, <1>4, <1>5, <1>6, <1>7, <1>8, <1>9, <1>10, <1>11, <1>12
        DEF K!Next, K!PollStep

-----------------------------------------------------------------------------
\* io_uring.

UCounts == [U!Requests -> Nat]
URing == [sq : UCounts, queued : Nat, cq : UCounts, held : UCounts]

UTypeOK ==
  /\ ring \in URing
  /\ resumes \in [U!Slots -> Nat]
  /\ task \in [U!Slots -> {"new", "running", "suspended", "finished"}]
  /\ at \in {"out", "waiting", "locked", "resume"}
  /\ fails \in Nat

\* Where the thread is in poll_impl: while it waits, it runs no coroutine and the
\* kernel has taken all requests.
ULoopInv ==
  /\ at # "resume" => \A c \in U!Slots : resumes[c] = 0
  /\ at = "waiting" => U!Idle /\ ring.sq[U!Wake] = 0

\* The poll of the eventfd is in one of the queues or in the kernel until a
\* submission fails.
UWakeInv == fails = 0 => U!InRing(U!Wake) = 1

UInv == UTypeOK /\ ULoopInv /\ UWakeInv /\ U!RequestTracked

\* How often a request is in the queues of a ring or in the kernel.
Total(r, x) == r.sq[x] + r.cq[x] + r.held[x]

LEMMA UDistinct ==
  /\ U!Wake \in U!Requests /\ U!Timeout \in U!Requests /\ U!Slots \subseteq U!Requests
  /\ U!Wake # U!Timeout
  /\ \A c \in U!Slots : c # U!Wake /\ c # U!Timeout
BY DEF U!Slots, U!Wake, U!Timeout, U!Requests

\* submit_sqes loses nothing: what it takes is held or has failed.
LEMMA USubmit ==
  ASSUME NEW r \in URing, NEW ok \in BOOLEAN
  PROVE  /\ U!submit_sqes(r, ok) \in URing
         /\ \A x \in U!Requests : /\ Total(U!submit_sqes(r, ok), x) = Total(r, x)
                                  /\ U!submit_sqes(r, ok).cq[x] >= r.cq[x]
         /\ ok => /\ U!submit_sqes(r, ok).queued = 0
                  /\ \A x \in U!Requests : U!submit_sqes(r, ok).sq[x] = 0
<1> DEFINE s == U!submit_sqes(r, ok)
<1>1. CASE ~ok
  BY <1>1 DEF U!submit_sqes, URing, UCounts
<1>2. CASE ok
  <2> DEFINE cq == [x \in U!Requests |-> r.cq[x] + IF U!Closed(x) THEN r.sq[x] ELSE 0]
             held == [x \in U!Requests |-> r.held[x] + IF U!Closed(x) THEN 0 ELSE r.sq[x]]
  <2>1. s = [sq |-> U!None, queued |-> 0, cq |-> cq, held |-> held]
    BY <1>2 DEF U!submit_sqes
  <2>2. ASSUME NEW x \in U!Requests
        PROVE  /\ r.sq[x] \in Nat /\ r.cq[x] \in Nat /\ r.held[x] \in Nat
               /\ U!None[x] = 0
               /\ cq[x] \in Nat /\ held[x] \in Nat /\ cq[x] >= r.cq[x]
               /\ U!None[x] + cq[x] + held[x] = r.sq[x] + r.cq[x] + r.held[x]
    <3>1. r.sq[x] \in Nat /\ r.cq[x] \in Nat /\ r.held[x] \in Nat BY DEF URing, UCounts
    <3>2. U!None[x] = 0 BY DEF U!None
    <3> QED BY <3>1, <3>2
  <2>3. U!None \in UCounts BY DEF U!None, UCounts
  <2>4. cq \in UCounts /\ held \in UCounts BY <2>2 DEF UCounts
  <2> HIDE DEF cq, held
  <2>5. s \in URing BY <2>1, <2>3, <2>4 DEF URing
  <2>6. s.sq = U!None /\ s.queued = 0 /\ s.cq = cq /\ s.held = held BY <2>1
  <2> QED BY <2>2, <2>5, <2>6 DEF Total
<1> QED BY <1>1, <1>2

\* get_sqe queues its request, or, when the kernel does not take a full queue,
\* nothing.
LEMMA UGet ==
  ASSUME NEW r \in URing, NEW y \in U!Requests, NEW ok \in BOOLEAN
  PROVE  /\ U!get_sqe(r, y, ok) \in URing
         /\ \A x \in U!Requests :
              /\ Total(U!get_sqe(r, y, ok), x)
                   = Total(r, x) + (IF U!Room(r, ok) /\ x = y THEN 1 ELSE 0)
              /\ U!get_sqe(r, y, ok).cq[x] >= r.cq[x]
         /\ (U!Full(r) => ok) => U!Room(r, ok)
<1> DEFINE s == U!Flushed(r, ok)
           n == [s EXCEPT !.sq = U!Plus(@, y), !.queued = @ + 1]
           q == U!get_sqe(r, y, ok)
<1>1. /\ s \in URing
      /\ \A x \in U!Requests : Total(s, x) = Total(r, x) /\ s.cq[x] >= r.cq[x]
  <2>1. \A x \in U!Requests : r.cq[x] >= r.cq[x] BY DEF URing, UCounts
  <2> QED BY <2>1, USubmit DEF U!Flushed
<1>2. q = IF U!Room(r, ok) THEN n ELSE s BY DEF U!get_sqe
<1>3. (U!Full(r) => ok) => U!Room(r, ok)
  <2>1. U!Full(r) /\ ok => s.queued = 0 BY USubmit DEF U!Flushed
  <2>2. ~U!Full(r) => s = r BY DEF U!Flushed
  <2> QED BY <2>1, <2>2, RingAssumption DEF U!Full, U!Room
<1> HIDE DEF s, q
<1>4. /\ n \in URing
      /\ \A x \in U!Requests : /\ n.cq[x] = s.cq[x] /\ n.held[x] = s.held[x]
                               /\ n.sq[x] = s.sq[x] + IF x = y THEN 1 ELSE 0
  <2>1. s.sq \in UCounts /\ s.queued \in Nat /\ s.cq \in UCounts /\ s.held \in UCounts
    BY <1>1 DEF URing
  <2>2. /\ U!Plus(s.sq, y) \in UCounts
        /\ \A x \in U!Requests : U!Plus(s.sq, y)[x] = s.sq[x] + IF x = y THEN 1 ELSE 0
    <3>1. \A x \in U!Requests : s.sq[x] \in Nat /\ s.sq[x] = s.sq[x] + 0 BY <2>1 DEF UCounts
    <3> QED BY <2>1, <3>1 DEF U!Plus, UCounts
  <2>3. /\ n.sq = U!Plus(s.sq, y) /\ n.queued = s.queued + 1
        /\ n.cq = s.cq /\ n.held = s.held
    BY <1>1 DEF URing
  <2>4. n \in URing
    <3>1. s.queued + 1 \in Nat BY <2>1
    <3> QED BY <1>1, <2>2, <3>1 DEF URing
  <2> QED BY <2>2, <2>3, <2>4
<1>5. ASSUME NEW x \in U!Requests
      PROVE  Total(n, x) = Total(s, x) + (IF x = y THEN 1 ELSE 0)
  <2>1. s.sq[x] \in Nat /\ s.cq[x] \in Nat /\ s.held[x] \in Nat BY <1>1 DEF URing, UCounts
  <2> QED BY <1>4, <2>1 DEF Total
<1>6. \A x \in U!Requests : Total(s, x) \in Nat
  BY <1>1 DEF URing, UCounts, Total
<1> HIDE DEF n
<1>7. \A x \in U!Requests :
        Total(q, x) = Total(r, x) + (IF U!Room(r, ok) /\ x = y THEN 1 ELSE 0)
  <2>1. \A x \in U!Requests : Total(s, x) = Total(r, x) + 0 BY <1>1, <1>6
  <2> QED BY <1>1, <1>2, <1>5, <2>1
<1> QED BY <1>1, <1>2, <1>3, <1>4, <1>7 DEF q

LEMMA UInit == U!Init => UInv
<1> SUFFICES ASSUME U!Init PROVE UInv
  OBVIOUS
<1>1. /\ ring = [sq |-> U!None, queued |-> 0, cq |-> U!None, held |-> U!Plus(U!None, U!Wake)]
      /\ resumes = [c \in U!Slots |-> 0] /\ task = [c \in U!Slots |-> "new"]
      /\ at = "out" /\ fails = 0
  BY DEF U!Init, U!setup_ring
<1>2. U!None \in UCounts /\ \A x \in U!Requests : U!None[x] = 0 BY DEF U!None, UCounts
<1>3. /\ U!Plus(U!None, U!Wake) \in UCounts
      /\ \A x \in U!Requests : U!Plus(U!None, U!Wake)[x] = IF x = U!Wake THEN 1 ELSE 0
  BY <1>2, UDistinct DEF U!Plus, UCounts
<1>4. ring \in URing BY <1>1, <1>2, <1>3 DEF URing
<1>5. \A x \in U!Requests : U!InRing(x) = IF x = U!Wake THEN 1 ELSE 0
  BY <1>1, <1>2, <1>3 DEF U!InRing
<1>6. UTypeOK BY <1>1, <1>4 DEF UTypeOK
<1>7. ULoopInv BY <1>1 DEF ULoopInv
<1>8. UWakeInv BY <1>5, UDistinct DEF UWakeInv
<1>9. U!RequestTracked
  <2> SUFFICES ASSUME NEW c \in U!Slots
               PROVE  U!InRing(c) + resumes[c] = IF task[c] = "suspended" THEN 1 ELSE 0
    BY DEF U!RequestTracked
  <2>1. U!InRing(c) = 0 BY <1>5, UDistinct
  <2> QED BY <1>1, <2>1
<1> QED BY <1>6, <1>7, <1>8, <1>9 DEF UInv

\* A call of io_uring_enter that fails is remembered.
LEMMA UEnter ==
  ASSUME UInv, NEW ok \in BOOLEAN, U!Enter(ok)
  PROVE  fails' \in Nat /\ (fails' = 0 => fails = 0 /\ ok)
BY DEF U!Enter, UInv, UTypeOK

\* The numbers in the invariant.
LEMMA UNumbers ==
  ASSUME UInv
  PROVE  /\ \A x \in U!Requests : /\ ring.sq[x] \in Nat /\ ring.cq[x] \in Nat
                                  /\ ring.held[x] \in Nat /\ Total(ring, x) \in Nat
                                  /\ Total(ring, x) = U!InRing(x)
         /\ \A c \in U!Slots : /\ resumes[c] \in Nat
                               /\ Total(ring, c) + resumes[c] = IF task[c] = "suspended" THEN 1 ELSE 0
<1>1. \A x \in U!Requests : ring.sq[x] \in Nat /\ ring.cq[x] \in Nat /\ ring.held[x] \in Nat
  BY DEF UInv, UTypeOK, URing, UCounts
<1>2. \A x \in U!Requests : Total(ring, x) \in Nat /\ Total(ring, x) = U!InRing(x)
  BY <1>1 DEF Total, U!InRing
<1>3. \A c \in U!Slots : resumes[c] \in Nat BY DEF UInv, UTypeOK
<1> QED BY <1>1, <1>2, <1>3, UDistinct DEF UInv, U!RequestTracked

\* What a step that keeps every request of a coroutine, and the poll of the eventfd,
\* has to show.
LEMMA UKeep ==
  ASSUME UInv, ring' \in URing, fails' \in Nat, fails' = 0 => fails = 0,
         \A x \in U!Slots \cup {U!Wake} : Total(ring', x) = Total(ring, x),
         at' \in {"out", "waiting", "locked", "resume"},
         UNCHANGED <<task, resumes>>,
         ULoopInv'
  PROVE  UInv'
<1>1. UTypeOK' BY DEF UInv, UTypeOK
<1>2. \A x \in U!Slots \cup {U!Wake} : U!InRing(x)' = U!InRing(x)
  BY DEF Total, U!InRing
<1>3. UWakeInv' BY <1>2 DEF UInv, UWakeInv
<1>4. U!RequestTracked' BY <1>2 DEF UInv, U!RequestTracked
<1> QED BY <1>1, <1>3, <1>4 DEF UInv

\* The async_*_impl.
LEMMA UQueue == ASSUME UInv, NEW c \in U!Slots, U!Queue(c) PROVE UInv'
<1>1. PICK ok \in BOOLEAN :
        /\ task[c] = "running" /\ U!Enter(U!Full(ring) => ok)
        /\ ring' = U!get_sqe(ring, c, ok)
        /\ task' = [task EXCEPT ![c] = IF ~U!Room(ring, ok) THEN "running" ELSE "suspended"]
        /\ UNCHANGED <<at, resumes>>
  BY DEF U!Queue, U!Completes
<1> DEFINE got == U!Room(ring, ok)
<1>2. /\ ring' \in URing
      /\ \A x \in U!Requests :
           Total(ring', x) = Total(ring, x) + (IF got /\ x = c THEN 1 ELSE 0)
  <2>1. ring \in URing /\ c \in U!Requests BY UDistinct DEF UInv, UTypeOK
  <2> QED BY <1>1, <2>1, UGet
<1>3. fails' \in Nat /\ (fails' = 0 => fails = 0) BY <1>1, UEnter
<1>4. /\ task[c] = "running" /\ UNCHANGED <<at, resumes>>
      /\ task' = [task EXCEPT ![c] = IF ~got THEN "running" ELSE "suspended"]
  BY <1>1
<1> HIDE DEF got
<1>5. UTypeOK' BY <1>2, <1>3, <1>4 DEF UInv, UTypeOK
<1>6. at # "waiting" BY <1>4 DEF UInv, ULoopInv, U!Idle
<1>7. ULoopInv' BY <1>4, <1>6 DEF UInv, ULoopInv
<1>8. \A x \in U!Requests : U!InRing(x)' = Total(ring, x) + (IF got /\ x = c THEN 1 ELSE 0)
  BY <1>2, <1>4 DEF Total, U!InRing
<1>9. UWakeInv'
  <2>1. U!InRing(U!Wake)' = U!InRing(U!Wake) BY <1>8, UDistinct, UNumbers
  <2> QED BY <1>3, <2>1 DEF UInv, UWakeInv
<1>10. U!RequestTracked'
  <2> SUFFICES ASSUME NEW d \in U!Slots
               PROVE  U!InRing(d)' + resumes'[d] = IF task'[d] = "suspended" THEN 1 ELSE 0
    BY DEF U!RequestTracked
  <2>1. /\ Total(ring, d) \in Nat /\ resumes[d] \in Nat
        /\ Total(ring, d) + resumes[d] = IF task[d] = "suspended" THEN 1 ELSE 0
    BY UNumbers, UDistinct
  <2>2. U!InRing(d)' = Total(ring, d) + (IF got /\ d = c THEN 1 ELSE 0) BY <1>8, UDistinct
  <2>3. task'[d] = IF d = c THEN (IF ~got THEN "running" ELSE "suspended") ELSE task[d]
    BY <1>4 DEF UInv, UTypeOK
  <2>4. CASE d # c BY <1>4, <2>1, <2>2, <2>3, <2>4
  <2>5. CASE d = c
    <3>1. Total(ring, c) = 0 /\ resumes[c] = 0 BY <1>4, <2>1, <2>5
    <3>2. CASE got BY <1>4, <2>2, <2>3, <2>5, <3>1, <3>2
    <3>3. CASE ~got BY <1>4, <2>2, <2>3, <2>5, <3>1, <3>3
    <3> QED BY <3>2, <3>3
  <2> QED BY <2>4, <2>5
<1> QED BY <1>5, <1>7, <1>9, <1>10 DEF UInv

\* poll_impl up to io_uring_enter.
LEMMA UPoll ==
  ASSUME UInv, NEW timeout \in BOOLEAN, NEW ok \in BOOLEAN, U!poll(timeout, ok) PROVE UInv'
<1> DEFINE waits == ring.cq = U!None /\ timeout
           r == IF waits THEN U!Timed(ring, ok) ELSE ring
<1>1. /\ at = "out" /\ U!Idle /\ U!Enter(ok) /\ ring' = U!submit_sqes(r, ok)
      /\ at' = (IF waits /\ ok THEN "waiting" ELSE "locked") /\ UNCHANGED <<task, resumes>>
  BY DEF U!poll
<1>2. ring \in URing BY DEF UInv, UTypeOK
<1>3. /\ U!get_sqe(ring, U!Timeout, ok) \in URing
      /\ \A x \in U!Requests : Total(U!get_sqe(ring, U!Timeout, ok), x) = Total(ring, x)
           + (IF U!Room(ring, ok) /\ x = U!Timeout THEN 1 ELSE 0)
  BY <1>2, UDistinct, UGet
<1>4. \A x \in U!Requests : x # U!Timeout => Total(U!get_sqe(ring, U!Timeout, ok), x) = Total(ring, x)
  BY <1>3, UNumbers
<1>5. r \in URing /\ \A x \in U!Slots \cup {U!Wake} : Total(r, x) = Total(ring, x)
  BY <1>2, <1>3, <1>4, UDistinct DEF U!Timed
<1> HIDE DEF r, waits
<1>6. /\ ring' \in URing
      /\ \A x \in U!Slots \cup {U!Wake} : Total(ring', x) = Total(ring, x)
      /\ ok => ring'.sq[U!Wake] = 0
  BY <1>1, <1>5, USubmit, UDistinct
<1>7. ULoopInv'
  <2>1. \A c \in U!Slots : resumes'[c] = 0 BY <1>1 DEF UInv, ULoopInv
  <2>2. U!Idle' BY <1>1 DEF U!Idle
  <2> QED BY <1>1, <1>6, <2>1, <2>2 DEF ULoopInv
<1>8. fails' \in Nat /\ (fails' = 0 => fails = 0) BY <1>1, UEnter
<1> QED BY <1>1, <1>6, <1>7, <1>8, UKeep

\* process_cqes: the completions seen are passed on, and the poll of the eventfd is
\* queued again.
LEMMA UProcess == ASSUME UInv, NEW ok \in BOOLEAN, U!process_cqes(ok) PROVE UInv'
<1> DEFINE woken == ring.cq[U!Wake] > 0
           r == IF woken THEN U!PollAgain(ring, ok) ELSE ring
           again == woken /\ U!Room(ring, ok)
<1>1. /\ at = "locked" /\ at' = "resume" /\ U!Enter(U!Full(ring) /\ woken => ok)
      /\ ring' = [r EXCEPT !.cq = [x \in U!Requests |-> r.cq[x] - ring.cq[x]]]
      /\ resumes' = [c \in U!Slots |-> ring.cq[c]] /\ UNCHANGED task
  BY DEF U!process_cqes
<1>2. ring \in URing BY DEF UInv, UTypeOK
<1>3. /\ U!PollAgain(ring, ok) \in URing
      /\ \A x \in U!Requests :
           /\ Total(U!PollAgain(ring, ok), x)
                = Total(ring, x) + (IF U!Room(ring, ok) /\ x = U!Wake THEN 1 ELSE 0)
           /\ U!PollAgain(ring, ok).cq[x] >= ring.cq[x]
      /\ (U!Full(ring) => ok) => U!Room(ring, ok)
  BY <1>2, UDistinct, UGet DEF U!PollAgain
<1>4. /\ r \in URing
      /\ \A x \in U!Requests : /\ Total(r, x) = Total(ring, x) + (IF again /\ x = U!Wake THEN 1 ELSE 0)
                               /\ r.cq[x] >= ring.cq[x]
  <2>1. \A x \in U!Requests : Total(ring, x) = Total(ring, x) + 0 /\ ring.cq[x] >= ring.cq[x]
    BY UNumbers
  <2>2. CASE woken BY <1>3, <2>2
  <2>3. CASE ~woken BY <1>2, <2>1, <2>3
  <2> QED BY <2>2, <2>3
<1>5. fails' \in Nat /\ (fails' = 0 => fails = 0 /\ (woken => again)) BY <1>1, <1>3, UEnter
<1> HIDE DEF r, again
<1> DEFINE left == [x \in U!Requests |-> r.cq[x] - ring.cq[x]]
<1>6. /\ left \in UCounts /\ ring' = [r EXCEPT !.cq = left]
  BY <1>1, <1>2, <1>4 DEF URing, UCounts
<1>7. \A x \in U!Requests : left[x] = r.cq[x] - ring.cq[x] OBVIOUS
<1> HIDE DEF left
<1>8. ring' \in URing /\ ring'.sq = r.sq /\ ring'.cq = left /\ ring'.held = r.held
  BY <1>4, <1>6 DEF URing
<1>9. ASSUME NEW x \in U!Requests
      PROVE  U!InRing(x)' = (Total(ring, x) + (IF again /\ x = U!Wake THEN 1 ELSE 0)) - ring.cq[x]
  <2>1. /\ r.sq[x] \in Nat /\ r.cq[x] \in Nat /\ r.held[x] \in Nat /\ ring.cq[x] \in Nat
    BY <1>2, <1>4 DEF URing, UCounts
  <2>2. U!InRing(x)' = r.sq[x] + (r.cq[x] - ring.cq[x]) + r.held[x] BY <1>7, <1>8 DEF U!InRing
  <2>3. U!InRing(x)' = (r.sq[x] + r.cq[x] + r.held[x]) - ring.cq[x] BY <2>1, <2>2
  <2>4. r.sq[x] + r.cq[x] + r.held[x] = Total(r, x) BY DEF Total
  <2> QED BY <1>4, <2>3, <2>4
<1>10. UTypeOK'
  <2>1. resumes' \in [U!Slots -> Nat] BY <1>1, UNumbers, UDistinct
  <2> QED BY <1>1, <1>5, <1>8, <2>1 DEF UInv, UTypeOK
<1>11. ULoopInv' BY <1>1 DEF ULoopInv
<1>12. UWakeInv'
  <2> SUFFICES ASSUME fails' = 0 PROVE U!InRing(U!Wake)' = 1
    BY DEF UWakeInv
  <2>1. Total(ring, U!Wake) = 1 BY <1>5, UNumbers, UDistinct DEF UInv, UWakeInv
  <2>2. /\ ring.sq[U!Wake] \in Nat /\ ring.cq[U!Wake] \in Nat /\ ring.held[U!Wake] \in Nat
    BY UNumbers, UDistinct
  <2>3. U!InRing(U!Wake)' = (1 + (IF again THEN 1 ELSE 0)) - ring.cq[U!Wake]
    BY <1>9, <2>1, UDistinct
  <2>4. CASE woken
    <3>1. ring.cq[U!Wake] = 1 BY <2>1, <2>2, <2>4 DEF Total
    <3> QED BY <1>5, <2>3, <2>4, <3>1
  <2>5. CASE ~woken
    <3>1. ring.cq[U!Wake] = 0 BY <2>2, <2>5
    <3>2. ~again BY <2>5 DEF again
    <3> QED BY <2>3, <3>1, <3>2
  <2> QED BY <2>4, <2>5
<1>13. U!RequestTracked'
  <2> SUFFICES ASSUME NEW c \in U!Slots
               PROVE  U!InRing(c)' + resumes'[c] = IF task'[c] = "suspended" THEN 1 ELSE 0
    BY DEF U!RequestTracked
  <2>1. /\ Total(ring, c) \in Nat /\ resumes[c] = 0 /\ ring.cq[c] \in Nat
        /\ Total(ring, c) + resumes[c] = IF task[c] = "suspended" THEN 1 ELSE 0
    BY <1>1, UNumbers, UDistinct DEF UInv, ULoopInv
  <2>2. U!InRing(c)' = (Total(ring, c) + 0) - ring.cq[c] BY <1>9, UDistinct
  <2>3. U!InRing(c)' + ring.cq[c] = Total(ring, c) BY <2>1, <2>2
  <2> QED BY <1>1, <2>1, <2>3
<1> QED BY <1>10, <1>11, <1>12, <1>13 DEF UInv

\* ctx->resume(): the completion is used up, and the coroutine runs.
LEMMA UResume == ASSUME UInv, NEW c \in U!Slots, U!Resume(c) PROVE UInv'
<1>1. /\ at = "resume" /\ resumes[c] > 0 /\ task' = [task EXCEPT ![c] = "running"]
      /\ resumes' = [resumes EXCEPT ![c] = @ - 1] /\ UNCHANGED <<ring, at, fails>>
  BY DEF U!Resume
<1>2. resumes[c] = 1 /\ Total(ring, c) = 0
  <2>1. /\ resumes[c] \in Nat /\ Total(ring, c) \in Nat
        /\ Total(ring, c) + resumes[c] = IF task[c] = "suspended" THEN 1 ELSE 0
    BY UNumbers, UDistinct
  <2> QED BY <1>1, <2>1
<1>3. resumes' = [resumes EXCEPT ![c] = 0] BY <1>1, <1>2
<1>4. UTypeOK' BY <1>1, <1>3 DEF UInv, UTypeOK
<1>5. ULoopInv' /\ UWakeInv' BY <1>1 DEF UInv, ULoopInv, UWakeInv, U!InRing
<1>6. U!RequestTracked'
  <2> SUFFICES ASSUME NEW d \in U!Slots
               PROVE  U!InRing(d)' + resumes'[d] = IF task'[d] = "suspended" THEN 1 ELSE 0
    BY DEF U!RequestTracked
  <2>1. U!InRing(d)' = U!InRing(d) BY <1>1 DEF U!InRing
  <2>2. CASE d = c
    <3>1. resumes'[d] = 0 /\ task'[d] = "running" BY <1>1, <1>3, <2>2 DEF UInv, UTypeOK
    <3>2. U!InRing(d) = 0 BY <1>2, <2>2, UNumbers, UDistinct
    <3> QED BY <2>1, <3>1, <3>2
  <2>3. CASE d # c
    <3>1. resumes'[d] = resumes[d] /\ task'[d] = task[d] BY <1>1, <1>3, <2>3 DEF UInv, UTypeOK
    <3> QED BY <2>1, <3>1 DEF UInv, U!RequestTracked
  <2> QED BY <2>2, <2>3
<1> QED BY <1>4, <1>5, <1>6 DEF UInv

\* The kernel completes a request.
LEMMA UDone ==
  ASSUME UInv, NEW x \in U!Requests, ring.held[x] > 0, U!Done(x),
         UNCHANGED <<task, at, resumes, fails>>
  PROVE  UInv'
<1>1. ring \in URing BY DEF UInv, UTypeOK
<1> DEFINE held == [ring.held EXCEPT ![x] = @ - 1]
           cq == U!Plus(ring.cq, x)
<1>2. ring' = [ring EXCEPT !.held = held, !.cq = cq] BY DEF U!Done
<1>3. \A y \in U!Requests : /\ ring.sq[y] \in Nat /\ ring.cq[y] \in Nat /\ ring.held[y] \in Nat
  BY UNumbers
<1>4. /\ held \in UCounts /\ cq \in UCounts
      /\ \A y \in U!Requests : /\ held[y] = IF y = x THEN ring.held[y] - 1 ELSE ring.held[y]
                               /\ cq[y] = IF y = x THEN ring.cq[y] + 1 ELSE ring.cq[y]
  BY <1>1, <1>3 DEF U!Plus, URing, UCounts
<1> HIDE DEF held, cq
<1>5. ring' \in URing /\ ring'.sq = ring.sq /\ ring'.cq = cq /\ ring'.held = held
  BY <1>1, <1>2, <1>4 DEF URing
<1>6. ASSUME NEW y \in U!Requests PROVE Total(ring', y) = Total(ring, y)
  BY <1>3, <1>4, <1>5 DEF Total
<1>7. ULoopInv' BY <1>5 DEF UInv, ULoopInv, U!Idle
<1>8. fails' \in Nat /\ (fails' = 0 => fails = 0) /\ at' \in {"out", "waiting", "locked", "resume"}
  BY DEF UInv, UTypeOK
<1> QED BY <1>5, <1>6, <1>7, <1>8, UKeep, UDistinct

LEMMA UNext == ASSUME UInv, U!Next \/ UNCHANGED U!uvars PROVE UInv'
<1>1. ASSUME NEW c \in U!Slots, U!Start(c) PROVE UInv'
  BY <1>1 DEF UInv, U!Start, UTypeOK, ULoopInv, UWakeInv, U!RequestTracked, U!InRing
<1>2. ASSUME NEW c \in U!Slots, U!Submit(c) PROVE UInv'
  BY <1>2, UQueue DEF U!Submit, U!async_read, U!async_accept, U!async_recvfrom,
     U!async_wait_readable, U!async_write, U!async_connect, U!async_sendto, U!async_wait_writable
<1>3. ASSUME NEW c \in U!Slots, U!Finish(c) PROVE UInv'
  BY <1>3 DEF UInv, U!Finish, UTypeOK, ULoopInv, U!Idle, UWakeInv, U!RequestTracked, U!InRing
<1>4. ASSUME UNCHANGED <<ring, task, at, resumes, fails>> PROVE UInv'
  BY <1>4 DEF UInv, UTypeOK, ULoopInv, U!Idle, UWakeInv, U!RequestTracked, U!InRing
<1>5. CASE U!Waited \/ U!Returns
  BY <1>5 DEF UInv, U!Waited, U!Returns, UTypeOK, ULoopInv, UWakeInv, U!RequestTracked, U!InRing
<1>6. ASSUME NEW x \in U!Slots \cup {U!Wake}, U!Complete(x) PROVE UInv'
  BY <1>6, UDone, UDistinct DEF U!Complete
<1>7. CASE U!Expire
  BY <1>7, UDone, UDistinct DEF U!Expire
<1>8. CASE \E c \in U!Slots : U!deregister(c) \/ U!Arrive(c)
  BY <1>4, <1>8 DEF U!deregister, U!Arrive
<1>9. CASE U!wake \/ UNCHANGED U!uvars
  BY <1>4, <1>9 DEF U!wake, U!uvars
<1> QED BY <1>1, <1>2, <1>3, <1>5, <1>6, <1>7, <1>8, <1>9, UPoll, UProcess, UResume
        DEF U!Next, U!PollStep

-----------------------------------------------------------------------------
\* epoll, with one thread.

Single == \A s, t \in Threads : s = t

Active(c) == co[c] = "running" \/ inAwait[c] # NoThread

\* The thread executes at most one coroutine.
CoInv ==
  /\ \A c \in Slots : host[c] # NoThread <=> co[c] = "running"
  /\ \A c \in Slots : inAwait[c] # NoThread => co[c] = "suspended"
  /\ \A c, d \in Slots : Active(c) /\ Active(d) => c = d

\* Where the thread is in poll_impl: none is executed before the resumptions, and
\* what is to be resumed is suspended and has left the maps.
PollInv ==
  \A p \in Pollers :
    /\ poll[p] \in {"wait", "locked", "erase"} => \A c \in Slots : ~Active(c)
    /\ poll[p] \notin {"erase", "resume"} => toResume[p] = {}
    /\ \A c \in toResume[p] : /\ co[c] = "suspended" /\ inAwait[c] = NoThread
                              /\ poll[p] = "resume" => ops[c] = "none"

\* The tail of await_suspend will not go on.
Stays(c) == inAwait[c] # NoThread => ~completed[c]

\* An entry of the maps is that of a suspended coroutine.
OpInv == \A c \in Slots : ops[c] # "none" => co[c] = "suspended" /\ Stays(c)

\* So is a deferred wait, which has no entry yet; they exist during the
\* resumptions.
DeferInv ==
  \A t \in Threads : \A c \in deferred[t] :
    /\ t \in Pollers /\ poll[t] = "resume" /\ c \notin toResume[t]
    /\ co[c] = "suspended" /\ ops[c] = "none" /\ Stays(c)

\* And no suspended coroutine is without one.
KeptInv ==
  \A c \in Slots :
    co[c] = "suspended" /\ c[1] \in open /\ Stays(c) =>
      \/ ops[c] # "none"
      \/ \E p \in Pollers : c \in toResume[p]
      \/ \E t \in Threads : c \in deferred[t]

EInv == TypeOK /\ CoInv /\ PollInv /\ OpInv /\ DeferInv /\ KeptInv /\ NoDoubleResume

LEMMA EInit == Init => EInv
<1> SUFFICES ASSUME Init PROVE EInv
  OBVIOUS
<1>1. TypeOK BY DEF Init, TypeOK, InPoll
<1>2. CoInv /\ PollInv BY DEF Init, CoInv, PollInv, Active
<1>3. OpInv /\ DeferInv /\ KeptInv /\ NoDoubleResume
  BY DEF Init, OpInv, DeferInv, KeptInv, NoDoubleResume
<1> QED BY <1>1, <1>2, <1>3 DEF EInv

\* A coroutine that is executed is in no list, and the thread is not where it
\* holds lists.
LEMMA ERunning ==
  ASSUME EInv, Single, NEW c \in Slots, co[c] = "running"
  PROVE  /\ ops[c] = "none" /\ host[c] \in Threads /\ inAwait[c] = NoThread
         /\ \A p \in Pollers : poll[p] \in {"out", "resume"} /\ c \notin toResume[p]
         /\ \A t \in Threads : c \notin deferred[t]
         /\ \A d \in Slots : d # c => ~Active(d)
<1>1. Active(c) BY DEF Active
<1>2. ops[c] = "none" BY DEF EInv, OpInv
<1>3. host[c] \in Threads /\ inAwait[c] = NoThread BY DEF EInv, TypeOK, CoInv
<1>4. \A p \in Pollers : poll[p] \in {"out", "resume"} BY <1>1 DEF EInv, TypeOK, PollInv
<1>5. \A p \in Pollers : c \notin toResume[p] BY DEF EInv, PollInv
<1>6. \A t \in Threads : c \notin deferred[t] BY DEF EInv, DeferInv
<1>7. \A d \in Slots : d # c => ~Active(d) BY <1>1 DEF EInv, CoInv
<1> QED BY <1>2, <1>3, <1>4, <1>5, <1>6, <1>7

\* update_events computes a mask.
LEMMA EMask ==
  ASSUME TypeOK, NEW o, NEW fds, UpdateEvents(o, fds) PROVE mask' \in [Fds -> SUBSET Dirs]
BY DEF UpdateEvents, MaskFrom, TypeOK

\* await_suspend: an operation that completes at once, one that is entered into the
\* maps, and a wait that is deferred.
LEMMA ESuspend ==
  ASSUME EInv, Single, NEW c \in Slots, NEW done \in BOOLEAN, Suspend(c, done),
         ops' \in [Slots -> {"none", "io", "connect", "wait"}],
         \A d \in Slots : d # c => ops'[d] = ops[d],
         mask' \in [Fds -> SUBSET Dirs], ready' \subseteq Slots,
         \/ done /\ ops' = ops /\ deferred' = deferred
         \/ ~done /\ ops'[c] # "none" /\ deferred' = deferred
         \/ /\ ~done /\ ops' = ops /\ InPoll(host[c])
            /\ deferred' = [deferred EXCEPT ![host[c]] = @ \cup {c}]
  PROVE  EInv'
<1>1. /\ co[c] = "running" /\ c[1] \in open /\ co' = [co EXCEPT ![c] = "suspended"]
      /\ inAwait' = [inAwait EXCEPT ![c] = host[c]] /\ host' = [host EXCEPT ![c] = NoThread]
      /\ completed' = [completed EXCEPT ![c] = done]
      /\ UNCHANGED <<open, hup, poll, events, toResume, doubled>>
  BY DEF Suspend, polling
<1>2. /\ ops[c] = "none" /\ host[c] \in Threads /\ inAwait[c] = NoThread
      /\ \A p \in Pollers : poll[p] \in {"out", "resume"} /\ c \notin toResume[p]
      /\ \A t \in Threads : c \notin deferred[t]
      /\ \A d \in Slots : d # c => ~Active(d)
  BY <1>1, ERunning
<1>3. \A d \in Slots :
        d # c => /\ co'[d] = co[d] /\ inAwait'[d] = inAwait[d] /\ host'[d] = host[d]
                 /\ completed'[d] = completed[d]
  BY <1>1 DEF EInv, TypeOK
<1>4. /\ co'[c] = "suspended" /\ inAwait'[c] = host[c] /\ host'[c] = NoThread
      /\ completed'[c] = done
  BY <1>1 DEF EInv, TypeOK
<1>5. host[c] # NoThread BY <1>2, EpollAssumption
<1>6. /\ deferred' \in [Threads -> SUBSET Slots]
      /\ \A t \in Threads : deferred'[t] # deferred[t] => InPoll(t) /\ ~done /\ ops' = ops
      /\ \A t \in Threads : \A d \in deferred'[t] : d \in deferred[t] \/ d = c
  <2>1. deferred \in [Threads -> SUBSET Slots] BY DEF EInv, TypeOK
  <2>2. CASE deferred' = deferred BY <2>1, <2>2
  <2>3. CASE /\ ~done /\ ops' = ops /\ InPoll(host[c])
             /\ deferred' = [deferred EXCEPT ![host[c]] = @ \cup {c}]
    <3>1. /\ deferred' \in [Threads -> SUBSET Slots]
          /\ deferred'[host[c]] = deferred[host[c]] \cup {c}
          /\ \A t \in Threads : t # host[c] => deferred'[t] = deferred[t]
      BY <1>2, <2>1, <2>3
    <3> QED BY <2>3, <3>1
  <2> QED BY <2>2, <2>3
<1>7. TypeOK'
  <2>1. \A t \in Threads : deferred'[t] # {} => InPoll(t)' BY <1>1, <1>6 DEF EInv, TypeOK, InPoll
  <2> QED BY <1>1, <1>2, <1>6, <2>1 DEF EInv, TypeOK
<1>8. CoInv'
  <2>1. \A d \in Slots : Active(d)' => d = c BY <1>2, <1>3 DEF Active
  <2>2. \A d \in Slots : d # c => /\ host'[d] # NoThread <=> co'[d] = "running"
                                  /\ inAwait'[d] # NoThread => co'[d] = "suspended"
    BY <1>3, ZenonT(40) DEF EInv, CoInv
  <2>3. ASSUME NEW d \in Slots
        PROVE  /\ host'[d] # NoThread <=> co'[d] = "running"
               /\ inAwait'[d] # NoThread => co'[d] = "suspended"
    <3>1. CASE d = c BY <1>4, <3>1
    <3>2. CASE d # c BY <2>2, <3>2
    <3> QED BY <3>1, <3>2
  <2>4. \A d, e \in Slots : Active(d)' /\ Active(e)' => d = e BY <2>1
  <2> QED BY <2>3, <2>4 DEF CoInv
<1>9. PollInv'
  <2>1. \A p \in Pollers : \A d \in toResume[p] : d \in Slots /\ d # c BY <1>2 DEF EInv, TypeOK
  <2>2. \A d \in Slots : d # c => ops'[d] = ops[d] OBVIOUS
  <2>3. ASSUME NEW p \in Pollers, NEW d \in toResume[p]
        PROVE  co'[d] = "suspended" /\ inAwait'[d] = NoThread /\ (poll[p] = "resume" => ops'[d] = "none")
    <3>1. d \in Slots /\ d # c BY <2>1
    <3>2. co[d] = "suspended" /\ inAwait[d] = NoThread /\ (poll[p] = "resume" => ops[d] = "none")
      BY DEF EInv, PollInv
    <3> QED BY <1>3, <2>2, <3>1, <3>2
  <2>4. \A p \in Pollers : poll[p] \notin {"erase", "resume"} => toResume[p] = {}
    BY DEF EInv, PollInv
  <2> QED BY <1>1, <1>2, <2>3, <2>4 DEF PollInv
<1>10. OpInv'
  <2> SUFFICES ASSUME NEW d \in Slots, ops'[d] # "none" PROVE co'[d] = "suspended" /\ Stays(d)'
    BY DEF OpInv
  <2>1. CASE d = c BY <1>2, <1>4, <2>1 DEF Stays
  <2>2. CASE d # c BY <1>3, <2>2 DEF EInv, OpInv, Stays
  <2> QED BY <2>1, <2>2
<1>11. DeferInv'
  <2> SUFFICES ASSUME NEW t \in Threads, NEW d \in deferred'[t]
               PROVE  /\ t \in Pollers /\ poll'[t] = "resume" /\ d \notin toResume'[t]
                      /\ co'[d] = "suspended" /\ ops'[d] = "none" /\ Stays(d)'
    BY DEF DeferInv
  <2>1. d \in Slots BY <1>6
  <2>2. CASE d = c
    <3>1. InPoll(t) /\ ~done /\ ops' = ops BY <1>2, <1>6, <2>2
    <3>2. t \in Pollers /\ poll[t] = "resume" BY <1>2, <3>1 DEF InPoll
    <3> QED BY <1>1, <1>2, <1>4, <2>2, <3>1, <3>2 DEF Stays
  <2>3. CASE d # c
    <3>1. d \in deferred[t] BY <1>6, <2>3
    <3>2. /\ t \in Pollers /\ poll[t] = "resume" /\ d \notin toResume[t]
          /\ co[d] = "suspended" /\ ops[d] = "none" /\ Stays(d)
      BY <3>1 DEF EInv, DeferInv
    <3> QED BY <1>1, <1>3, <2>1, <2>3, <3>2 DEF Stays
  <2> QED BY <2>2, <2>3
<1>12. KeptInv'
  <2> SUFFICES ASSUME NEW d \in Slots, co'[d] = "suspended", d[1] \in open', Stays(d)'
               PROVE  \/ ops'[d] # "none"
                      \/ \E p \in Pollers : d \in toResume'[p]
                      \/ \E t \in Threads : d \in deferred'[t]
    BY DEF KeptInv
  <2>1. \A t \in Threads : deferred[t] \subseteq deferred'[t] BY DEF EInv, TypeOK
  <2>2. CASE d = c
    <3>1. ~done BY <1>4, <1>5, <2>2 DEF Stays
    <3>2. CASE ops'[c] # "none" BY <2>2, <3>2
    <3>3. CASE deferred' = [deferred EXCEPT ![host[c]] = @ \cup {c}]
      <4>1. c \in deferred'[host[c]] BY <1>2, <3>3 DEF EInv, TypeOK
      <4> QED BY <1>2, <2>2, <4>1
    <3> QED BY <3>1, <3>2, <3>3
  <2>3. CASE d # c
    <3>1. co[d] = "suspended" /\ d[1] \in open /\ Stays(d) BY <1>1, <1>3, <2>3 DEF Stays
    <3> QED BY <1>1, <2>1, <2>3, <3>1 DEF EInv, KeptInv
  <2> QED BY <2>2, <2>3
<1>13. NoDoubleResume' BY <1>1 DEF EInv, NoDoubleResume
<1> QED BY <1>7, <1>8, <1>9, <1>10, <1>11, <1>12, <1>13 DEF EInv

LEMMA ESubmit == ASSUME EInv, Single, NEW c \in Slots, Submit(c) PROVE EInv'
<1>1. /\ TypeOK /\ ops \in [Slots -> {"none", "io", "connect", "wait"}]
      /\ mask \in [Fds -> SUBSET Dirs] /\ ready \subseteq Slots
  BY DEF EInv, TypeOK
<1>2. CASE SubmitCompletes(c)
  <2>1. Suspend(c, TRUE) /\ UpdateEvents(ops, {c[1]}) /\ ready' \subseteq ready
        /\ ops' = ops /\ deferred' = deferred
    BY <1>2 DEF SubmitCompletes
  <2>2. mask' \in [Fds -> SUBSET Dirs] BY <1>1, <2>1, EMask
  <2> QED BY <1>1, <2>1, <2>2, ESuspend
<1>3. CASE ConnectCompletes(c)
  BY <1>1, <1>3, ESuspend DEF ConnectCompletes
<1>4. ASSUME NEW kind \in {"io", "connect", "wait"}, Register(c, kind)
      PROVE  /\ ops' \in [Slots -> {"none", "io", "connect", "wait"}] /\ ops'[c] # "none"
             /\ \A d \in Slots : d # c => ops'[d] = ops[d]
             /\ mask' \in [Fds -> SUBSET Dirs]
  <2>1. mask' \in [Fds -> SUBSET Dirs] BY <1>1, <1>4, EMask DEF Register
  <2> QED BY <1>1, <1>4, <2>1 DEF Register
<1>5. ASSUME NEW kind \in {"io", "connect"}, SubmitPends(c, kind) PROVE EInv'
  <2>1. Suspend(c, FALSE) /\ Register(c, kind) /\ ready' = ready /\ deferred' = deferred
    BY <1>5 DEF SubmitPends
  <2> QED BY <1>1, <1>4, <2>1, ESuspend
<1>6. CASE SubmitWait(c)
  <2>1. Suspend(c, FALSE) /\ ready' = ready BY <1>6 DEF SubmitWait
  <2>2. CASE /\ InPoll(host[c]) /\ deferred' = [deferred EXCEPT ![host[c]] = @ \cup {c}]
             /\ UNCHANGED <<ops, mask>>
    BY <1>1, <2>1, <2>2, ESuspend
  <2>3. CASE Register(c, "wait") /\ UNCHANGED deferred
    BY <1>1, <1>4, <2>1, <2>3, ESuspend
  <2> QED BY <1>6, <2>2, <2>3 DEF SubmitWait
<1> QED BY <1>2, <1>3, <1>5, <1>6 DEF Submit

\* A coroutine starts, or is resumed by poll_impl or by the tail of await_suspend.
LEMMA ERuns ==
  ASSUME EInv, Single, NEW c \in Slots, NEW t \in Threads,
         co' = [co EXCEPT ![c] = "running"], host' = [host EXCEPT ![c] = t],
         inAwait' \in [Slots -> Threads \cup {NoThread}], inAwait'[c] = NoThread,
         \A d \in Slots : d # c => inAwait'[d] = inAwait[d] /\ ~Active(d),
         toResume' \in [Pollers -> SUBSET Slots],
         \A p \in Pollers : /\ poll[p] \in {"out", "resume"} /\ c \notin toResume'[p]
                            /\ \A d \in Slots : d # c => (d \in toResume'[p] <=> d \in toResume[p]),
         ops[c] = "none", \A s \in Threads : c \notin deferred[s],
         UNCHANGED <<ops, mask, open, ready, hup, completed, poll, events, deferred, doubled>>
  PROVE  EInv'
<1>1. \A d \in Slots : d # c => co'[d] = co[d] /\ host'[d] = host[d] BY DEF EInv, TypeOK
<1>2. co'[c] = "running" /\ host'[c] = t /\ host'[c] # NoThread
  BY EpollAssumption DEF EInv, TypeOK
<1>3. TypeOK'
  <2>1. \A s \in Threads : deferred'[s] # {} => InPoll(s)' BY DEF EInv, TypeOK, InPoll
  <2> QED BY <2>1 DEF EInv, TypeOK
<1>4. CoInv'
  <2>1. \A d \in Slots : Active(d)' => d = c BY <1>1 DEF Active
  <2>2. \A d \in Slots : d # c => /\ host'[d] # NoThread <=> co'[d] = "running"
                                  /\ inAwait'[d] # NoThread => co'[d] = "suspended"
    BY <1>1, ZenonT(40) DEF EInv, CoInv
  <2>3. ASSUME NEW d \in Slots
        PROVE  /\ host'[d] # NoThread <=> co'[d] = "running"
               /\ inAwait'[d] # NoThread => co'[d] = "suspended"
    <3>1. CASE d = c BY <1>2, <3>1
    <3>2. CASE d # c BY <2>2, <3>2
    <3> QED BY <3>1, <3>2
  <2>4. \A d, e \in Slots : Active(d)' /\ Active(e)' => d = e BY <2>1
  <2> QED BY <2>3, <2>4 DEF CoInv
<1>5. PollInv'
  <2> SUFFICES ASSUME NEW p \in Pollers
               PROVE  /\ poll[p] = "out" => toResume'[p] = {}
                      /\ \A d \in toResume'[p] : /\ co'[d] = "suspended" /\ inAwait'[d] = NoThread
                                                 /\ poll[p] = "resume" => ops[d] = "none"
    BY ZenonT(40) DEF PollInv
  <2>1. \A d \in toResume'[p] : d \in Slots /\ d # c /\ d \in toResume[p] OBVIOUS
  <2>2. \A d \in toResume[p] : /\ co[d] = "suspended" /\ inAwait[d] = NoThread
                               /\ poll[p] = "resume" => ops[d] = "none"
    BY DEF EInv, PollInv
  <2>3. poll[p] = "out" => toResume[p] = {} BY DEF EInv, PollInv
  <2> QED BY <1>1, <2>1, <2>2, <2>3
<1>6. OpInv' BY <1>1 DEF EInv, OpInv, Stays
<1>7. DeferInv'
  <2> SUFFICES ASSUME NEW s \in Threads, NEW d \in deferred[s]
               PROVE  /\ s \in Pollers /\ poll[s] = "resume" /\ d \notin toResume'[s]
                      /\ co'[d] = "suspended" /\ ops[d] = "none" /\ Stays(d)'
    BY DEF DeferInv
  <2>1. d \in Slots /\ d # c BY DEF EInv, TypeOK
  <2>2. /\ s \in Pollers /\ poll[s] = "resume" /\ d \notin toResume[s]
        /\ co[d] = "suspended" /\ ops[d] = "none" /\ Stays(d)
    BY DEF EInv, DeferInv
  <2> QED BY <1>1, <2>1, <2>2 DEF Stays
<1>8. KeptInv'
  <2> SUFFICES ASSUME NEW d \in Slots, co'[d] = "suspended", d[1] \in open, Stays(d)'
               PROVE  \/ ops[d] # "none"
                      \/ \E p \in Pollers : d \in toResume'[p]
                      \/ \E s \in Threads : d \in deferred[s]
    BY DEF KeptInv
  <2>1. d # c /\ co[d] = "suspended" BY <1>1, <1>2
  <2>2. Stays(d) BY <2>1 DEF Stays
  <2>3. \/ ops[d] # "none"
        \/ \E p \in Pollers : d \in toResume[p]
        \/ \E s \in Threads : d \in deferred[s]
    BY <2>1, <2>2 DEF EInv, KeptInv
  <2> QED BY <2>1, <2>3
<1>9. NoDoubleResume' BY DEF EInv, NoDoubleResume
<1> QED BY <1>3, <1>4, <1>5, <1>6, <1>7, <1>8, <1>9 DEF EInv

\* A thread that is free executes no coroutine, when it is the only one.
LEMMA EFree == ASSUME EInv, Single, NEW t \in Threads, Free(t) PROVE \A c \in Slots : ~Active(c)
BY DEF Free, Active, Single, EInv, TypeOK, CoInv

LEMMA EStart == ASSUME EInv, Single, NEW t \in Threads, NEW c \in Slots, Start(t, c) PROVE EInv'
<1>1. /\ co[c] = "new" /\ Free(t) /\ ~InPoll(t)
      /\ co' = [co EXCEPT ![c] = "running"] /\ host' = [host EXCEPT ![c] = t]
      /\ UNCHANGED <<ops, mask, open, ready, hup, completed, inAwait, poll, events, toResume,
                     deferred, doubled>>
  BY DEF Start, kernel, polling
<1>2. \A d \in Slots : ~Active(d) BY <1>1, EFree
<1>3. inAwait[c] = NoThread BY <1>2 DEF Active
<1>4. \A p \in Pollers : poll[p] = "out" BY <1>1, EpollAssumption DEF InPoll, Single
<1>5. ops[c] = "none" BY <1>1 DEF EInv, OpInv
<1>6. \A p \in Pollers : c \notin toResume[p] BY <1>1 DEF EInv, PollInv
<1>7. \A s \in Threads : c \notin deferred[s] BY <1>1 DEF EInv, DeferInv
<1>8. toResume \in [Pollers -> SUBSET Slots] /\ inAwait \in [Slots -> Threads \cup {NoThread}]
  BY DEF EInv, TypeOK
<1> QED BY <1>1, <1>2, <1>3, <1>4, <1>5, <1>6, <1>7, <1>8, ERuns

LEMMA EAwait == ASSUME EInv, Single, NEW c \in Slots, AwaitReturns(c) PROVE EInv'
<1>1. /\ inAwait[c] # NoThread /\ inAwait' = [inAwait EXCEPT ![c] = NoThread]
      /\ UNCHANGED <<ops, mask, open, ready, hup, completed, poll, events, toResume, deferred>>
  BY DEF AwaitReturns, kernel, polling
<1>2. /\ co[c] = "suspended" /\ Active(c) /\ inAwait[c] \in Threads
  BY <1>1 DEF EInv, TypeOK, CoInv, Active
<1>3. \A d \in Slots : d # c => inAwait'[d] = inAwait[d] /\ ~Active(d)
  BY <1>1, <1>2 DEF EInv, TypeOK, CoInv
<1>4. inAwait'[c] = NoThread /\ inAwait' \in [Slots -> Threads \cup {NoThread}]
  BY <1>1 DEF EInv, TypeOK
<1>5. CASE ~completed[c]
  <2>1. UNCHANGED <<co, host, doubled>> BY <1>5 DEF AwaitReturns, Suspends
  <2>2. TypeOK'
    <3>1. \A s \in Threads : deferred'[s] # {} => InPoll(s)' BY <1>1 DEF EInv, TypeOK, InPoll
    <3> QED BY <1>1, <1>4, <2>1, <3>1 DEF EInv, TypeOK
  <2>3. CoInv' BY <1>2, <1>3, <1>4, <2>1 DEF EInv, CoInv, Active
  <2>4. PollInv'
    <3>1. \A d \in Slots : Active(d)' => Active(d) BY <1>3, <1>4, <2>1 DEF Active
    <3>2. \A d \in Slots : inAwait[d] = NoThread => inAwait'[d] = NoThread BY <1>3, <1>4
    <3>3. \A p \in Pollers : toResume[p] \subseteq Slots BY DEF EInv, TypeOK
    <3> QED BY <1>1, <2>1, <3>1, <3>2, <3>3 DEF EInv, PollInv
  <2>5. \A d \in Slots : Stays(d)' <=> Stays(d) BY <1>1, <1>3, <1>4, <1>5 DEF Stays
  <2>6. OpInv' /\ KeptInv' BY <1>1, <2>1, <2>5 DEF EInv, OpInv, KeptInv
  <2>7. DeferInv'
    <3>1. \A s \in Threads : deferred[s] \subseteq Slots BY DEF EInv, TypeOK
    <3> QED BY <1>1, <2>1, <2>5, <3>1 DEF EInv, DeferInv
  <2>8. NoDoubleResume' BY <2>1 DEF EInv, NoDoubleResume
  <2> QED BY <2>2, <2>3, <2>4, <2>6, <2>7, <2>8 DEF EInv
<1>6. CASE completed[c]
  <2>1. /\ co' = [co EXCEPT ![c] = "running"] /\ host' = [host EXCEPT ![c] = inAwait[c]]
        /\ doubled' = doubled
    BY <1>2, <1>6 DEF AwaitReturns, Suspends, ResumeOn
  <2>2. ~Stays(c) BY <1>1, <1>6 DEF Stays
  <2>3. ops[c] = "none" BY <2>2 DEF EInv, OpInv
  <2>4. \A s \in Threads : c \notin deferred[s] BY <2>2 DEF EInv, DeferInv
  <2>5. \A p \in Pollers : poll[p] \in {"out", "resume"} /\ c \notin toResume[p]
    BY <1>1, <1>2 DEF EInv, TypeOK, PollInv
  <2>6. toResume \in [Pollers -> SUBSET Slots] BY DEF EInv, TypeOK
  <2> QED BY <1>1, <1>2, <1>3, <1>4, <2>1, <2>3, <2>4, <2>5, <2>6, ERuns
<1> QED BY <1>5, <1>6 DEF EInv, TypeOK

\* A coroutine that ends, and socket::close(), which empties the entries of its
\* descriptor.
LEMMA ELeaves == ASSUME EInv, Single, NEW c \in Slots, Finish(c) \/ Close(c) PROVE EInv'
<1>1. co[c] = "running" BY DEF Finish, Close
<1>2. /\ ops[c] = "none" /\ inAwait[c] = NoThread
      /\ \A p \in Pollers : poll[p] \in {"out", "resume"} /\ c \notin toResume[p]
      /\ \A t \in Threads : c \notin deferred[t]
  BY <1>1, ERunning
<1>3. CASE Finish(c)
  <2>1. /\ co' = [co EXCEPT ![c] = "finished"] /\ host' = [host EXCEPT ![c] = NoThread]
        /\ UNCHANGED <<ops, mask, open, ready, hup, completed, inAwait, poll, events, toResume,
                       deferred, doubled>>
    BY <1>3 DEF Finish, kernel, polling
  <2>2. \A d \in Slots : d # c => co'[d] = co[d] /\ host'[d] = host[d]
    BY <2>1 DEF EInv, TypeOK
  <2>3. co'[c] = "finished" /\ host'[c] = NoThread BY <2>1 DEF EInv, TypeOK
  <2>4. TypeOK'
    <3>1. \A s \in Threads : deferred'[s] # {} => InPoll(s)' BY <2>1 DEF EInv, TypeOK, InPoll
    <3> QED BY <2>1, <3>1 DEF EInv, TypeOK
  <2>5. CoInv'
    <3>1. \A d \in Slots : Active(d)' => Active(d) BY <2>1, <2>2, <2>3 DEF Active
    <3>2. ASSUME NEW d \in Slots
          PROVE  /\ host'[d] # NoThread <=> co'[d] = "running"
                 /\ inAwait'[d] # NoThread => co'[d] = "suspended"
      <4>1. CASE d = c BY <1>2, <2>1, <2>3, <4>1
      <4>2. CASE d # c BY <2>1, <2>2, <4>2 DEF EInv, CoInv
      <4> QED BY <4>1, <4>2
    <3>3. \A d, e \in Slots : Active(d)' /\ Active(e)' => d = e BY <3>1 DEF EInv, CoInv
    <3> QED BY <3>2, <3>3 DEF CoInv
  <2>6. PollInv'
    <3>1. \A p \in Pollers : toResume[p] \subseteq Slots BY DEF EInv, TypeOK
    <3>2. \A p \in Pollers : \A d \in toResume[p] : co'[d] = co[d] BY <1>2, <2>2, <3>1
    <3> QED BY <1>2, <2>1, <3>2 DEF EInv, PollInv
  <2>7. OpInv' /\ KeptInv'
    <3>1. OpInv' BY <1>2, <2>1, <2>2 DEF EInv, OpInv, Stays
    <3>2. KeptInv' BY <2>1, <2>2, <2>3 DEF EInv, KeptInv, Stays
    <3> QED BY <3>1, <3>2
  <2>8. DeferInv'
    <3>1. \A s \in Threads : deferred[s] \subseteq Slots BY DEF EInv, TypeOK
    <3>2. \A s \in Threads : \A d \in deferred[s] : co'[d] = co[d] BY <1>2, <2>2, <3>1
    <3> QED BY <2>1, <3>2 DEF EInv, DeferInv, Stays
  <2>9. NoDoubleResume' BY <2>1 DEF EInv, NoDoubleResume
  <2> QED BY <2>4, <2>5, <2>6, <2>7, <2>8, <2>9 DEF EInv
<1>4. CASE Close(c)
  <2>1. /\ open' = open \ {c[1]} /\ mask' = [mask EXCEPT ![c[1]] = {}]
        /\ ops' = [x \in Slots |-> IF x[1] = c[1] THEN "none" ELSE ops[x]]
        /\ UNCHANGED <<ready, hup, co, host, completed, inAwait, poll, events, toResume,
                       deferred, doubled>>
    BY <1>4 DEF Close, kernel, polling
  <2>2. \A d \in Slots : /\ ops'[d] # "none" => ops[d] # "none"
                         /\ d[1] \in open' => d[1] \in open /\ ops'[d] = ops[d]
    BY <2>1
  <2>3. TypeOK'
    <3>1. \A s \in Threads : deferred'[s] # {} => InPoll(s)' BY <2>1 DEF EInv, TypeOK, InPoll
    <3>2. ops' \in [Slots -> {"none", "io", "connect", "wait"}] BY <2>1 DEF EInv, TypeOK
    <3> QED BY <2>1, <3>1, <3>2 DEF EInv, TypeOK
  <2>4. CoInv' BY <2>1 DEF EInv, CoInv, Active
  <2>5. PollInv'
    <3>1. \A p \in Pollers : toResume[p] \subseteq Slots BY DEF EInv, TypeOK
    <3> QED BY <1>2, <2>1, <2>2, <3>1 DEF EInv, PollInv, Active
  <2>6. OpInv' BY <2>1, <2>2 DEF EInv, OpInv, Stays
  <2>7. DeferInv'
    <3>1. \A s \in Threads : deferred[s] \subseteq Slots BY DEF EInv, TypeOK
    <3> QED BY <2>1, <2>2, <3>1 DEF EInv, DeferInv, Stays
  <2>8. KeptInv' BY <2>1, <2>2 DEF EInv, KeptInv, Stays
  <2>9. NoDoubleResume' BY <2>1 DEF EInv, NoDoubleResume
  <2> QED BY <2>3, <2>4, <2>5, <2>6, <2>7, <2>8, <2>9 DEF EInv
<1> QED BY <1>3, <1>4

\* poll_impl enters, and epoll_wait returns.
LEMMA EWaits ==
  ASSUME EInv, Single, NEW p \in Pollers, PollEnter(p) \/ EpollWait(p) PROVE EInv'
<1>1. /\ \/ poll[p] = "out" /\ Free(p) /\ poll' = [poll EXCEPT ![p] = "wait"] /\ events' = events
         \/ /\ poll[p] = "wait" /\ poll' = [poll EXCEPT ![p] = "locked"]
            /\ events' = [events EXCEPT ![p] = {c \in Slots : Reported(c)}]
      /\ UNCHANGED <<ops, mask, open, ready, hup, co, host, completed, inAwait, toResume, deferred,
                     doubled>>
  BY DEF PollEnter, EpollWait, kernel
<1>2. \A c \in Slots : ~Active(c) BY <1>1, EFree, EpollAssumption DEF EInv, PollInv
<1>3. poll[p] \in {"out", "wait"} /\ poll'[p] \in {"wait", "locked"} BY <1>1 DEF EInv, TypeOK
<1>4. \A q \in Pollers : q = p BY EpollAssumption DEF Single
<1>5. poll' \in [Pollers -> {"out", "wait", "locked", "erase", "resume"}]
      /\ events' \in [Pollers -> SUBSET Slots]
  BY <1>1 DEF EInv, TypeOK
<1>6. \A t \in Threads : deferred[t] = {} BY <1>3, <1>4 DEF EInv, DeferInv
<1>7. TypeOK' BY <1>1, <1>5, <1>6 DEF EInv, TypeOK
<1>8. CoInv' BY <1>1 DEF EInv, CoInv, Active
<1>9. toResume[p] = {} BY <1>3 DEF EInv, PollInv
<1>10. PollInv' BY <1>1, <1>2, <1>4, <1>9 DEF PollInv, Active
<1>11. OpInv' /\ KeptInv' /\ NoDoubleResume'
  BY <1>1 DEF EInv, OpInv, KeptInv, Stays, NoDoubleResume
<1>12. DeferInv' BY <1>1, <1>6 DEF DeferInv
<1> QED BY <1>7, <1>8, <1>10, <1>11, <1>12 DEF EInv

\* The first locked section: what is completed is remembered in to_resume and stays
\* in the maps.
LEMMA EComplete == ASSUME EInv, Single, NEW p \in Pollers, CompleteEvents(p) PROVE EInv'
<1>1. \A q \in Pollers : q = p BY EpollAssumption DEF Single
<1>2. poll[p] = "locked" BY DEF CompleteEvents
<1>3. \A t \in Threads : deferred[t] = {} BY <1>1, <1>2 DEF EInv, DeferInv
<1>4. WithDeferred(p) = ops BY <1>3, EpollAssumption DEF WithDeferred, EInv, TypeOK
<1>5. PICK done : /\ done \subseteq {c \in events[p] : ops[c] # "none"}
                  /\ completed' = [c \in Slots |-> completed[c] \/ c \in done]
                  /\ toResume' = [toResume EXCEPT ![p] = done]
                  /\ UpdateEvents(ops, {c[1] : c \in done \cup deferred[p]})
  <2> DEFINE done == {c \in events[p] : ops[c] # "none" /\ (ops[c] = "io" => Ready(c))}
  <2>1. /\ completed' = [c \in Slots |-> completed[c] \/ c \in done]
        /\ toResume' = [toResume EXCEPT ![p] = done]
        /\ UpdateEvents(ops, {c[1] : c \in done \cup deferred[p]})
    BY <1>4 DEF CompleteEvents
  <2> QED BY <2>1
<1>6. /\ poll' = [poll EXCEPT ![p] = "erase"] /\ ops' = ops
      /\ deferred' = [deferred EXCEPT ![p] = {}] /\ ready' \subseteq ready
      /\ UNCHANGED <<open, hup, co, host, inAwait, events, doubled>>
  BY <1>4 DEF CompleteEvents
<1>7. \A c \in Slots : ~Active(c) BY <1>2 DEF EInv, PollInv
<1>8. done \subseteq Slots /\ \A c \in done : ops[c] # "none"
  BY <1>5 DEF EInv, TypeOK
<1>9. poll'[p] = "erase" /\ toResume'[p] = done BY <1>5, <1>6 DEF EInv, TypeOK
<1>10. \A t \in Threads : deferred'[t] = {} BY <1>3, <1>6 DEF EInv, TypeOK
<1>11. TypeOK'
  <2>1. mask' \in [Fds -> SUBSET Dirs] BY <1>5, EMask DEF EInv
  <2>2. completed' \in [Slots -> BOOLEAN] BY <1>5
  <2>3. toResume' \in [Pollers -> SUBSET Slots] BY <1>5, <1>8 DEF EInv, TypeOK
  <2>4. poll' \in [Pollers -> {"out", "wait", "locked", "erase", "resume"}]
        /\ deferred' \in [Threads -> SUBSET Slots]
    BY <1>6 DEF EInv, TypeOK
  <2> QED BY <1>6, <1>10, <2>1, <2>2, <2>3, <2>4 DEF EInv, TypeOK
<1>12. CoInv' BY <1>6 DEF EInv, CoInv, Active
<1>13. PollInv'
  <2>1. \A c \in done : co[c] = "suspended" /\ inAwait[c] = NoThread
    BY <1>7, <1>8 DEF EInv, OpInv, Active
  <2> QED BY <1>1, <1>6, <1>7, <1>9, <2>1 DEF PollInv, Active
<1>14. \A c \in Slots : Stays(c) /\ Stays(c)' BY <1>6, <1>7 DEF Stays, Active
<1>15. OpInv' BY <1>6, <1>14 DEF EInv, OpInv
<1>16. KeptInv'
  <2>1. \A q \in Pollers : toResume[q] = {} BY <1>1, <1>2 DEF EInv, PollInv
  <2> QED BY <1>3, <1>6, <1>14, <2>1 DEF EInv, KeptInv
<1>17. DeferInv' BY <1>10 DEF DeferInv
<1>18. NoDoubleResume' BY <1>6 DEF EInv, NoDoubleResume
<1> QED BY <1>11, <1>12, <1>13, <1>15, <1>16, <1>17, <1>18 DEF EInv

\* The second locked section: they leave the maps, and only they.
LEMMA EErase == ASSUME EInv, Single, NEW p \in Pollers, PollErase(p) PROVE EInv'
<1>1. \A q \in Pollers : q = p BY EpollAssumption DEF Single
<1>2. /\ poll[p] = "erase" /\ poll' = [poll EXCEPT ![p] = "resume"]
      /\ ops' = [c \in Slots |-> IF c \in toResume[p] THEN "none" ELSE ops[c]]
      /\ events' = [events EXCEPT ![p] = {}]
      /\ UNCHANGED <<mask, open, ready, hup, co, host, completed, inAwait, toResume, deferred, doubled>>
  BY DEF PollErase, EraseCompleted, kernel
<1>3. \A t \in Threads : deferred[t] = {} BY <1>1, <1>2 DEF EInv, DeferInv
<1>4. poll'[p] = "resume" BY <1>2 DEF EInv, TypeOK
<1>5. toResume[p] \subseteq Slots BY DEF EInv, TypeOK
<1>6. TypeOK'
  <2>1. ops' \in [Slots -> {"none", "io", "connect", "wait"}] BY <1>2 DEF EInv, TypeOK
  <2>2. poll' \in [Pollers -> {"out", "wait", "locked", "erase", "resume"}]
        /\ events' \in [Pollers -> SUBSET Slots]
    BY <1>2 DEF EInv, TypeOK
  <2> QED BY <1>2, <1>3, <2>1, <2>2 DEF EInv, TypeOK
<1>7. CoInv' BY <1>2 DEF EInv, CoInv, Active
<1>8. PollInv' BY <1>1, <1>2, <1>4, <1>5 DEF EInv, PollInv
<1>9. OpInv' BY <1>2 DEF EInv, OpInv, Stays
<1>10. DeferInv' BY <1>2, <1>3 DEF DeferInv
<1>11. KeptInv' BY <1>2 DEF EInv, KeptInv, Stays
<1>12. NoDoubleResume' BY <1>2 DEF EInv, NoDoubleResume
<1> QED BY <1>6, <1>7, <1>8, <1>9, <1>10, <1>11, <1>12 DEF EInv

LEMMA EResume == ASSUME EInv, Single, NEW p \in Pollers, NEW c \in Slots, PollResume(p, c) PROVE EInv'
<1>1. \A q \in Pollers : q = p BY EpollAssumption DEF Single
<1>2. /\ poll[p] = "resume" /\ c \in toResume[p] /\ Free(p)
      /\ toResume' = [toResume EXCEPT ![p] = @ \ {c}] /\ ResumeOn(p, c)
      /\ UNCHANGED <<ops, mask, open, ready, hup, completed, inAwait, poll, events, deferred>>
  BY DEF PollResume, kernel
<1>3. co[c] = "suspended" /\ inAwait[c] = NoThread /\ ops[c] = "none" BY <1>2 DEF EInv, PollInv
<1>4. /\ co' = [co EXCEPT ![c] = "running"] /\ host' = [host EXCEPT ![c] = p] /\ doubled' = doubled
  BY <1>2, <1>3 DEF ResumeOn
<1>5. p \in Threads /\ \A d \in Slots : ~Active(d) BY <1>2, EFree, EpollAssumption
<1>6. toResume' \in [Pollers -> SUBSET Slots] /\ inAwait \in [Slots -> Threads \cup {NoThread}]
  BY <1>2 DEF EInv, TypeOK
<1>7. \A q \in Pollers : /\ poll[q] \in {"out", "resume"} /\ c \notin toResume'[q]
                         /\ \A d \in Slots : d # c => (d \in toResume'[q] <=> d \in toResume[q])
  BY <1>1, <1>2 DEF EInv, TypeOK
<1>8. \A s \in Threads : c \notin deferred[s] BY <1>1, <1>2 DEF EInv, DeferInv
<1> QED BY <1>2, <1>3, <1>4, <1>5, <1>6, <1>7, <1>8, ERuns

\* The end of poll_impl: the deferred waits are entered into the maps.
LEMMA EReturns == ASSUME EInv, Single, NEW p \in Pollers, PollReturns(p) PROVE EInv'
<1>1. p \in Threads /\ (\A q \in Pollers : q = p) /\ \A t \in Threads : t = p
  BY EpollAssumption DEF Single
<1>2. /\ poll[p] = "resume" /\ toResume[p] = {} /\ Free(p)
      /\ poll' = [poll EXCEPT ![p] = "out"]
      /\ ops' = [c \in Slots |-> IF c \in deferred[p] THEN "wait" ELSE ops[c]]
      /\ UpdateEvents(WithDeferred(p), {c[1] : c \in deferred[p]})
      /\ deferred' = [deferred EXCEPT ![p] = {}]
      /\ UNCHANGED <<open, ready, hup, co, host, completed, inAwait, events, toResume, doubled>>
  BY DEF PollReturns, FlushDeferred, WithDeferred, kernel
<1>3. \A t \in Threads : deferred'[t] = {} BY <1>1, <1>2 DEF EInv, TypeOK
<1>4. poll'[p] = "out" BY <1>2 DEF EInv, TypeOK
<1>5. TypeOK'
  <2>1. mask' \in [Fds -> SUBSET Dirs] BY <1>2, EMask DEF EInv
  <2>2. ops' \in [Slots -> {"none", "io", "connect", "wait"}] BY <1>2 DEF EInv, TypeOK
  <2>3. poll' \in [Pollers -> {"out", "wait", "locked", "erase", "resume"}]
        /\ deferred' \in [Threads -> SUBSET Slots]
    BY <1>2 DEF EInv, TypeOK
  <2> QED BY <1>2, <1>3, <2>1, <2>2, <2>3 DEF EInv, TypeOK
<1>6. CoInv' BY <1>2 DEF EInv, CoInv, Active
<1>7. PollInv' BY <1>1, <1>2, <1>4 DEF PollInv
<1>8. OpInv' BY <1>1, <1>2 DEF EInv, OpInv, DeferInv, Stays
<1>9. DeferInv' BY <1>3 DEF DeferInv
<1>10. KeptInv' BY <1>1, <1>2 DEF EInv, KeptInv, Stays
<1>11. NoDoubleResume' BY <1>2 DEF EInv, NoDoubleResume
<1> QED BY <1>5, <1>6, <1>7, <1>8, <1>9, <1>10, <1>11 DEF EInv

LEMMA ENext == ASSUME EInv, Single, [Next]_vars PROVE EInv'
<1>1. ASSUME ready' \subseteq Slots, hup' \subseteq Fds,
             UNCHANGED <<ops, mask, open, co, host, completed, inAwait, poll, events, toResume,
                         deferred, doubled>>
      PROVE  EInv'
  <2>1. TypeOK' BY <1>1 DEF EInv, TypeOK, InPoll
  <2>2. CoInv' /\ PollInv' BY <1>1 DEF EInv, CoInv, PollInv, Active
  <2>3. OpInv' /\ DeferInv' BY <1>1 DEF EInv, OpInv, DeferInv, Stays
  <2>4. KeptInv' /\ NoDoubleResume' BY <1>1 DEF EInv, KeptInv, NoDoubleResume, Stays
  <2> QED BY <2>1, <2>2, <2>3, <2>4 DEF EInv
<1>2. ready \subseteq Slots /\ hup \subseteq Fds /\ open \subseteq Fds BY DEF EInv, TypeOK
<1>3. ASSUME NEW c \in Slots, Arrive(c) PROVE EInv' BY <1>1, <1>2, <1>3 DEF Arrive, polling
<1>4. ASSUME NEW fd \in Fds, HangUp(fd) PROVE EInv' BY <1>1, <1>2, <1>4 DEF HangUp, polling
<1>5. CASE UNCHANGED vars BY <1>1, <1>2, <1>5 DEF vars
<1>6. ASSUME NEW c \in Slots, CoroutineStep(c) PROVE EInv'
  BY <1>6, ESubmit, EAwait, ELeaves DEF CoroutineStep
<1>7. ASSUME NEW p \in Pollers, PollStep(p) PROVE EInv'
  BY <1>7, EWaits, EComplete, EErase, EResume, EReturns DEF PollStep
<1> QED BY <1>3, <1>4, <1>5, <1>6, <1>7, EStart DEF Next

\* What the invariant says of the lists that hold a coroutine.
LEMMA ETracked == ASSUME EInv, Single PROVE NoOperationLost
<1> SUFFICES ASSUME NEW c \in Slots, co[c] = "suspended", inAwait[c] = NoThread, c[1] \in open
             PROVE  Tracked(c) = 1
  BY DEF NoOperationLost
<1> DEFINE P == {p \in Pollers : c \in toResume[p]}
           D == {t \in Threads : c \in deferred[t]}
           n == IF ops[c] # "none" /\ \A p \in Pollers : c \notin toResume[p] THEN 1 ELSE 0
<1>1. Tracked(c) = Cardinality(P) + Cardinality(D) + n BY DEF Tracked
<1>2. ASSUME NEW S, S \subseteq Threads, NEW x \in S PROVE Cardinality(S) = 1
  <2>1. S = {x} BY <1>2 DEF Single
  <2> QED BY <2>1, FS_Singleton
<1>3. Cardinality({}) = 0 BY FS_EmptySet
<1>4. ops[c] # "none" \/ P # {} \/ D # {} BY DEF EInv, KeptInv, Stays
<1>5. P # {} => D = {} /\ n = 0
  <2>1. \A t \in Threads : c \in deferred[t] => t \in Pollers /\ c \notin toResume[t]
    BY DEF EInv, DeferInv
  <2>2. \A p \in P, t \in Threads : p \in Threads /\ t = p BY EpollAssumption DEF Single
  <2>3. P # {} => D = {} BY <2>1, <2>2
  <2>4. P # {} => n = 0 OBVIOUS
  <2> QED BY <2>3, <2>4
<1>6. D # {} => ops[c] = "none" BY DEF EInv, DeferInv
<1>7. P = {} /\ ops[c] # "none" => n = 1 OBVIOUS
<1>8. ops[c] = "none" => n = 0 OBVIOUS
<1>9. P # {} => Cardinality(P) = 1 BY <1>2, EpollAssumption
<1>10. D # {} => Cardinality(D) = 1 BY <1>2
<1> HIDE DEF P, D, n
<1>11. CASE P # {} BY <1>1, <1>3, <1>5, <1>9, <1>11
<1>12. CASE P = {} /\ D # {} BY <1>1, <1>3, <1>6, <1>8, <1>10, <1>12
<1>13. CASE P = {} /\ D = {} BY <1>1, <1>3, <1>4, <1>7, <1>13
<1> QED BY <1>11, <1>12, <1>13

-----------------------------------------------------------------------------
\* The program uses the backend that io_context was built with.

\* EpollBackend and its awaiters, used by one thread: a coroutine suspended on an
\* open descriptor is in exactly one of read_ops_/write_ops_, to_resume and the
\* deferred waits, for any number of descriptors.
THEOREM EpollLosesNothing == Single => (MCSpec => []NoOperationLost)
<1> SUFFICES ASSUME Single PROVE MCSpec => []NoOperationLost
  OBVIOUS
<1>1. MCInit => EInv BY EInit DEF MCInit
<1>2. EInv /\ [MCNext]_<<backend, vars, uvars, kvars>> => EInv'
  BY ENext DEF MCNext
<1>3. EInv => NoOperationLost BY ETracked
<1> QED BY <1>1, <1>2, <1>3, PTL DEF MCSpec

\* And it is resumed only while it is suspended: the tail of await_suspend and
\* poll_impl never both resume it.
THEOREM EpollResumesOnce == Single => (MCSpec => []NoDoubleResume)
<1> SUFFICES ASSUME Single PROVE MCSpec => []NoDoubleResume
  OBVIOUS
<1>1. MCInit => EInv BY EInit DEF MCInit
<1>2. EInv /\ [MCNext]_<<backend, vars, uvars, kvars>> => EInv'
  BY ENext DEF MCNext
<1>3. EInv => NoDoubleResume BY DEF EInv
<1> QED BY <1>1, <1>2, <1>3, PTL DEF MCSpec

\* The variables of the other two.
OtherInv == (backend = "io_uring" => UInv) /\ (backend = "kqueue" => KInv)

LEMMA OtherStep ==
  /\ MCInit => OtherInv
  /\ OtherInv /\ [MCNext]_<<backend, vars, uvars, kvars>> => OtherInv'
<1>1. MCInit => OtherInv BY UInit, KInit DEF MCInit, OtherInv
<1>2. ASSUME OtherInv, [MCNext]_<<backend, vars, uvars, kvars>> PROVE OtherInv'
  <2>1. CASE backend = "epoll" /\ backend' = backend BY <2>1 DEF OtherInv
  <2>2. CASE backend = "io_uring" /\ U!Next /\ backend' = backend BY <1>2, <2>2, UNext DEF OtherInv
  <2>3. CASE backend = "kqueue" /\ K!Next /\ backend' = backend BY <1>2, <2>3, KNext DEF OtherInv
  <2>4. CASE UNCHANGED <<backend, vars, uvars, kvars>>
    <3>1. backend' = backend /\ UNCHANGED U!uvars /\ UNCHANGED K!kvars
      BY <2>4 DEF uvars, kvars, U!uvars, K!kvars
    <3> QED BY <1>2, <3>1, UNext, KNext DEF OtherInv
  <2> QED BY <1>2, <2>1, <2>2, <2>3, <2>4 DEF MCNext
<1> QED BY <1>1, <1>2

\* IoUringBackend: a suspended coroutine has exactly one request in the rings, in
\* the kernel or to be resumed, and another has none, whatever the size of the ring
\* and whichever submissions fail.
THEOREM UringLosesNothing == MCSpec => []RequestTracked
<1>1. OtherInv => RequestTracked BY DEF OtherInv, UInv, RequestTracked
<1> QED BY OtherStep, <1>1, PTL DEF MCSpec

\* And the loop does not wait without the poll of its eventfd, as long as no
\* submission failed.
THEOREM UringWakes == MCSpec => []WakeIsArmed
<1>1. ASSUME OtherInv, backend = "io_uring", at = "waiting", fails = 0
      PROVE  ring.held[U!Wake] + ring.cq[U!Wake] = 1
  <2>1. UInv BY <1>1 DEF OtherInv
  <2>2. ring.sq[U!Wake] = 0 BY <1>1, <2>1 DEF UInv, ULoopInv
  <2>3. U!InRing(U!Wake) = 1 BY <1>1, <2>1 DEF UInv, UWakeInv
  <2>4. ring.cq[U!Wake] \in Nat /\ ring.held[U!Wake] \in Nat BY <2>1, UNumbers, UDistinct
  <2> QED BY <2>2, <2>3, <2>4 DEF U!InRing
<1>2. OtherInv => WakeIsArmed BY <1>1 DEF WakeIsArmed, U!WakeIsArmed
<1> QED BY OtherStep, <1>2, PTL DEF MCSpec

\* KqueueBackend never leaves a suspended coroutine, whose descriptor is open,
\* without an event that will look at its operation, an accept that would block
\* apart: for any number of descriptors, however operations, closes and events
\* follow each other.
THEOREM KqueueArmed == MCSpec => []OperationArmed
<1>1. OtherInv => OperationArmed BY DEF OtherInv, KInv, OperationArmed
<1> QED BY OtherStep, <1>1, PTL DEF MCSpec
====
