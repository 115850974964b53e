SPECIFICATION Spec
CONSTANTS
  u1 = u1
  u2 = u2
  d1 = d1
  e1 = e1
  e2 = e2
  Job <- OneDelete
  DeleteJob <- OneDelete
  Linked <- OneDelete
  Engine <- OneEngine
  Concurrency = 1
  MaxAttempts = 2
  DeletePolicy = "manual-review"
  MaxReplays = 2
  MaxCrashes = 2
  MaxCalls = 1
INVARIANTS
  CompletedIsDone
  RequestHonest
  AttemptBudget
PROPERTIES
  DeadLetterStays
  ImplementsJobQueue
CHECK_DEADLOCK FALSE
