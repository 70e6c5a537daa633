CONSTANTS
  trigger = trigger
  act = act
  wait = wait
  cond = cond
  done = done
  halt = halt
  Worker = {w1, w2}
  None = None
  Node <- DelayActNodes
  Entry = trigger
  Kind <- DelayActKind
  Target <- DelayActTarget
  FailurePolicy <- DelayActPolicy
  External = {}
  MaxAttempts = 2
  MaxTransitions = 5
  MaxFence = 6
  MaxFaults = 1
  MaxOperator = 1
  MaxPauses = 0
  MaxDeliveries = 0
SPECIFICATION FairSpec
PROPERTIES EveryRunFinishes
CHECK_DEADLOCK FALSE
