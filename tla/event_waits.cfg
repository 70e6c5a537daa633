CONSTANTS
  Process = {p1, p2}
  None = None
  MaxFence = 8
  MaxFaults = 1
  MaxCancels = 1
  MaxCalls = 1
  MaxEvents = 2
  ReconcileLimit = 1
  MaxCrowd = 1
SPECIFICATION FairSpec
INVARIANTS TypeOK OlderEventNeverWakes
PROPERTIES EveryEventHeard
CHECK_DEADLOCK FALSE
