CONSTANTS
  offscreen = offscreen
  onscreen = onscreen
  Tasks <- MCTasks
  Offscreen <- MCOffscreen
  Existing <- MCExisting
  MaxCalls = 3
SPECIFICATION FairSpec
INVARIANTS
  FinishedOncePerRequest
  NotBeforeTheGpu
  CompletionIsAnnounced
  ResultIsCurrent
PROPERTIES
  EveryRequestFinishes
CHECK_DEADLOCK FALSE
