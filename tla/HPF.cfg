SPECIFICATION FairSpec
CONSTANTS
  Queues = {q1, q2}
  Devices = {d1, d2}
  Placements <- MCPlacements
  Hinting = {q1}
  Priorities <- MCPriorities
  DEFAULT = 0
  MIN <- MCLowest
  MaxDevices = 1
  MaxEvents = 2
  NULL = NULL
  q1 = q1
  q2 = q2
  d1 = d1
  d2 = d2
INVARIANTS TypeOK SleepersAreOutranked GateFollowsQueues
PROPERTY TopQueueRuns
