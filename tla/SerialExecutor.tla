---------------------------- MODULE SerialExecutor ----------------------------
(***************************************************************************)
(* What basic_strand promises (include/async_net/executor/strand.hpp, the  *)
(* class comment): handlers posted through it never run concurrently, and  *)
(* each runs after the previous one completes, in the order of posting.    *)
(***************************************************************************)
EXTENDS Sequences

CONSTANTS Handlers, NoHandler

VARIABLES
  backlog,   \* posted, not yet started, in the order of posting
  active,    \* the handler that is running
  finished   \* the handlers that have completed, in order

svars == <<backlog, active, finished>>

SInit ==
  /\ backlog = <<>>
  /\ active = NoHandler
  /\ finished = <<>>

Accept(h) ==
  /\ backlog' = Append(backlog, h)
  /\ UNCHANGED <<active, finished>>

Start ==
  /\ active = NoHandler
  /\ backlog # <<>>
  /\ active' = Head(backlog)
  /\ backlog' = Tail(backlog)
  /\ UNCHANGED finished

Finish ==
  /\ active # NoHandler
  /\ finished' = Append(finished, active)
  /\ active' = NoHandler
  /\ UNCHANGED backlog

SNext == (\E h \in Handlers : Accept(h)) \/ Start \/ Finish

SSpec == SInit /\ [][SNext]_svars
=============================================================================
