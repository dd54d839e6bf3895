SPECIFICATION FairLatencySpec
CONSTANTS
  Width = 8
  Slice = 3
  Margin = 1
  Demands <- MCDemands
  Feedbacks <- MCFeedbacks
  RunTimes = {1, 2}
  Runcycles = {1}
  MaxElapsed = 14
  MaxUsed = 8
  NULL = NULL
INVARIANTS LatencyTypeOK 
PROPERTY EstimateSettles
