SPECIFICATION FairSpec
CONSTANTS
  Policies = {"fork", "thread"}
  MaxWorkers = 2
  MaxGen = 3
INVARIANTS HandleIsCurrent 
PROPERTIES  ShutdownCompletes
CHECK_DEADLOCK FALSE
