SPECIFICATION FairSpec
CONSTANTS
  Workers = {w1, w2}
  Clients = {c1}
  Tasks = {t1, t2, t3}
  NoTask = NoTask
INVARIANTS NoLostWakeup StopDrains
PROPERTIES AcceptedTasksRun
CHECK_DEADLOCK FALSE
