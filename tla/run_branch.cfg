CONSTANTS
  trigger = trigger
  act = act
  wait = wait
  cond = cond
  done = done
  halt = halt
  Worker = {w1, w2}
  None = None
  Node <- BranchNodes
  Entry = trigger
  Kind <- BranchKind
  Target <- BranchTarget
  FailurePolicy <- BranchPolicy
  External = {}
  MaxAttempts = 2
  MaxTransitions = 5
  MaxFence = 3
  MaxFaults = 1
  MaxOperator = 1
  MaxPauses = 0
  MaxDeliveries = 2
SPECIFICATION Spec
PROPERTIES ResolvedOnce RefinesSequentialRun
SYMMETRY WorkerSymmetry
CHECK_DEADLOCK FALSE
