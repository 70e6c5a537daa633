CONSTANTS
  trigger = trigger
  act = act
  wait = wait
  cond = cond
  done = done
  halt = halt
  Worker = {w1, w2}
  None = None
  Node <- ActWaitNodes
  Entry = trigger
  Kind <- ActWaitKind
  Target <- ActWaitTarget
  FailurePolicy <- ActWaitPolicy
  External = {act}
  MaxAttempts = 2
  MaxTransitions = 5
  MaxFence = 3
  MaxFaults = 0
  MaxOperator = 0
  MaxPauses = 0
  MaxDeliveries = 2
SPECIFICATION Spec
INVARIANT WaitingRunHasOpenWait
CHECK_DEADLOCK FALSE
