SPECIFICATION Spec
CONSTANTS
  Overhead = 46
  Paths <- MCPaths
  Objects = {x1, x2}
  Events = {e1}
  Demands <- MCDemands
  Texts <- MCTexts
  MaxArgs = 1
  JUNK = JUNK
  NULL = NULL
INVARIANTS TypeOK SavedDemandSurvives LogsArriveWhole
CHECK_DEADLOCK FALSE
