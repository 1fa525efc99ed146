SPECIFICATION FairSpec
CONSTANTS
  N = 3
  Moves = {"await", "drop", "detach", "destroy_outer"}
INVARIANTS NoForgottenWaiter
PROPERTIES AwaitsComplete
CHECK_DEADLOCK FALSE
