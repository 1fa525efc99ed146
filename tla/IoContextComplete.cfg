SPECIFICATION FairSpec
CONSTANTS
  Loops = {l1}
  Clients = {c1, c2}
  Fns = {f1, f2}
  Timers = {t1}
  Mode = "run_until_complete"
  DefaultWait = 2
  Horizon = 1
INVARIANTS NoMissedWakeup CompleteMeansComplete
PROPERTIES PostedFnsRun 
CHECK_DEADLOCK FALSE
