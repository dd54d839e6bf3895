SPECIFICATION Spec
CONSTANTS
  Threads <- MCThreads
  MaxFiles <- MCFiles
  MaxQueue = 1
  Preloaded = TRUE
  Signalled = {1}
  NULL = NULL
INVARIANTS TypeOK SendsOnItsOwnSocket NoSocketIsLost
PROPERTY CommandsGetThrough
