SPECIFICATION Spec
CONSTANTS
  Queues = {q1, q2}
  Devices = {d1}
  Placements <- MCShared
  Hinting = {q1}
  Priorities = {0, 1}
  DEFAULT = 0
  MIN = 0
  MaxDevices = 1
  MaxEvents = 2
  NULL = NULL
  q1 = q1
  q2 = q2
  d1 = d1
  d2 = d2
INVARIANT NoneSleepsAtAnOpenGate
