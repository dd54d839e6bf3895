SPECIFICATION Spec
CONSTANTS
  Daemons = {d1}
  Clients = {c1, c2}
  Commands <- MCOrderCommands
  Events = {"stationary"}
  NONE = NONE
  Threads = {1}
  MaxQueue = 1
  MaxPending = 1
  NULL = NULL
INVARIANTS TypeOK CommandsTakeEffectInOrder
