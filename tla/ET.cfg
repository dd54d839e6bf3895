SPECIFICATION Spec
CONSTANTS
  Events = {e1, e2, e3}
  NONE = NONE
  Demands = {1, 6}
  LevelOf <- MCLevelOf
  Slots = 2
  Width = 3
  OwnLevels <- MCOwnLevels
  None = None
SYMMETRY MCSymmetry
INVARIANTS TypeOK TableIsSound TickPicksHighest
PROPERTY ImplementsEventMap
