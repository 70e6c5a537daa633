CONSTANTS
  Process = {p1, p2}
  Actor = {ana, bob}
  Reviewers = {ana, bob}
  NeedsAll = TRUE
  None = None
  MaxFence = 5
  MaxFaults = 1
  MaxCancels = 0
  MaxCalls = 3
SPECIFICATION Spec
SYMMETRY Symmetry
INVARIANTS TypeOK DecisionJustified
CHECK_DEADLOCK FALSE
