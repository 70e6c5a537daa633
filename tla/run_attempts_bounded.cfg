CONSTANTS
  trigger = trigger
  act = act
  wait = wait
  cond = cond
  done = done
  halt = halt
  Worker = {w1, w2}
  None = None
  Node <- BranchNodes
  Entry = trigger
  Kind <- BranchKind
  Target <- BranchTarget
  FailurePolicy <- BranchPolicy
  External = {}
  MaxAttempts = 2
  MaxTransitions = 6
  MaxFence = 3
  MaxFaults = 0
  MaxOperator = 0
  MaxPauses = 0
  MaxDeliveries = 0
SPECIFICATION Spec
INVARIANT AttemptsBounded
CHECK_DEADLOCK FALSE
