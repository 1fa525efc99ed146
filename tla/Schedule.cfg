SPECIFICATION FairSpec
CONSTANTS
  Tasks = {t1, t2}
  Periodic = {t1}
  Cancellers = {"loop"}
  MaxRuns = 3
 
PROPERTIES PeriodicRepeats CancelledGuardReleased
CHECK_DEADLOCK FALSE
