SPECIFICATION FairSpec
CONSTANTS
  Daemons = {d1, d2}
  Clients = {c1}
  Commands <- MCSliceCommands
  Events = {"stationary"}
  NONE = NONE
  Threads = {1}
  MaxQueue = 1
  MaxPending = 1
  NULL = NULL
PROPERTIES EveryClientReturns TerminationStops
