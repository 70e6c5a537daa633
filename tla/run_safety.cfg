CONSTANTS
  trigger = trigger
  act = act
  wait = wait
  cond = cond
  done = done
  halt = halt
  Worker = {w1, w2}
  None = None
  Node <- ActWaitNodes
  Entry = trigger
  Kind <- ActWaitKind
  Target <- ActWaitTarget
  FailurePolicy <- ActWaitPolicy
  External = {act}
  MaxAttempts = 2
  MaxTransitions = 5
  MaxFence = 3
  MaxFaults = 1
  MaxOperator = 1
  MaxPauses = 1
  MaxDeliveries = 2
SPECIFICATION Spec
INVARIANTS TypeOK NoBlindReplay PauseExcludesEffects
PROPERTIES OnlyHolderWrites TerminalIsFinal CancelStopsProgress
SYMMETRY WorkerSymmetry
CHECK_DEADLOCK FALSE
