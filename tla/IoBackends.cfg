SPECIFICATION MCSpec
CONSTANTS
  Fds = {d1}
  Threads = {t1}
  Pollers = {t1}
  NoThread = NoThread
  SqEntries = 2
  MaxTimers = 2
  MaxFails = 1
INVARIANTS  NoDoubleResume RequestTracked WakeIsArmed OperationArmed
PROPERTIES ReadyIsResumed
