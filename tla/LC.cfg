SPECIFICATION FairSpec
CONSTANTS
  Buffers = {b1, b2}
  InitCtxs <- MCInitCtxs
  Modes <- MCModes
  Ops <- MCOps
  Slices = {1}
  CpiValues = {2}
  Disciplined = TRUE
  MaxCalls = 3
  MaxSignals = 2
  NULL = NULL
INVARIANTS TypeOK NoTickLeftBehind TicksSeeWholeContext NestingIsBounded
PROPERTIES DeferredTickRuns CallsAreAtomic
CHECK_DEADLOCK FALSE
