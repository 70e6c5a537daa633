CONSTANTS
  Process = {p1, p2}
  Actor = {ana, bob}
  Reviewers = {ana}
  NeedsAll = FALSE
  None = None
  MaxFence = 8
  MaxFaults = 1
  MaxCancels = 1
  MaxCalls = 2
SPECIFICATION FairSpec
INVARIANTS DecisionJustified
PROPERTIES RefinesBallot ApprovalCloses
CHECK_DEADLOCK FALSE
