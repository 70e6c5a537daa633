CONSTANTS
  Services = {"mail", "dispatch", "quota", "webhooks", "erasure", "placement"}
  Row = {1, 2}
  OfferRow = {1}
  Worker = {w1, w2}
  None = None
  Lost = Lost
  MaxAttempts = 2
  MaxFaults = 1
  MaxOperator = 1
  Terms = {"t1", "t2"}
  RowTerms <- MCRowTerms
  Event = {1, 2}
  Subject = {"s", "t"}
  Parent = {"p"}
  NoParent = NoParent
  Workflow = {"wA", "wB"}
  Setup <- MCSetup
  NoEvent = NoEvent
  Cron = Cron
  Batch = 2
  DueBatch = 1
  MinuteLimit = 3
  WorkflowLimit = 2
  MaxConcurrent = 1
  MaxRequests = 1
  MaxDispatchFaults = 1
  Effect = {1, 2, 3}
  Flow = {"f", "g"}
  FlowOf <- MCFlowOf
  SpaceLimit = 2
  FlowLimit = 1
  LineageLimit = 2
  Threshold = 2
  MaxMinute = 1
  MaxQuotaFaults = 1
  Hook = {1, 2}
  Sweep = Sweep
  Nobody = Nobody
  LostCall = LostCall
  MaxTries = 2
  MaxHookFaults = 2
  File = {f1, f2, f3}
  NewVersion = {f3}
  DocumentOf <- MCDocumentOf
  Request = {1, 2}
  Fulfilment = {2}
  HolderOf <- MCHolderOf
  Reaper = Reaper
  Unowned = Unowned
  DeadReaper = DeadReaper
  MaxPurgeAttempts = 2
  MaxErasureFaults = 1
  MaxErasureOps = 3
  Stage = {1, 2, 3}
  Application = {1, 2}
  Clerk = {c1, c2}
  EndStatus = {"hired"}
  Pipelines <- MCPipelines
  Nowhere = Nowhere
  MaxCalls = 3
  MaxAborts = 3
SPECIFICATION ServicesSafe
INVARIANTS
  ServicesTypeOK
  DeliveriesPaid
  PendingHasAttempt
  NothingSentUndelivered
  SentOfferWasMailed
  AcknowledgedIsHandled
  ExecutedIsAdmitted
  EffectsCharged
  NoSlotLeaks
  HooksPaid
  CompletedMeansErased
  NoOrphanObjects
  PlacedInLiveStage
  OtherwiseStatusMatches
PROPERTIES
  LateCallbackHarmless
  HookOutcomeFinal
  HeldRowsSurvive
  HistoryIsChained
SYMMETRY CallerSymmetry
CHECK_DEADLOCK FALSE
