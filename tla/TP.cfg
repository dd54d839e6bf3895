SPECIFICATION FairSpec
CONSTANTS
  Buffers = {b1}
  NoContext = NoContext
  Slices = {1, 2}
  Modes = {"YIELDING", "PREDETERMINED"}
  MaxRun = 3
  MaxOver = 1
  Wakes = TRUE
  Mapped = TRUE
  MaxLead = 11
INVARIANTS TypeOK  NothingOwed
PROPERTIES DebtShrinks DebtIsPaidOff
