SPECIFICATION Spec
CONSTANTS
  Threads = {t1, t2, t3, t4}
  Main = t1
  MaxFd = 3
  MaxFails = 1
  NULL = NULL
INVARIANTS TypeOK CountersKeepRunning NoCounterIsLost OnlyTheWindowKills
CHECK_DEADLOCK FALSE
