SPECIFICATION FairSpec
CONSTANTS
  u1 = u1
  u2 = u2
  d1 = d1
  e1 = e1
  e2 = e2
  Job <- OneUpdate
  DeleteJob <- NoJob
  Linked <- NoJob
  Engine <- OneEngine
  Concurrency = 1
  MaxAttempts = 2
  DeletePolicy = "manual-review"
  MaxReplays = 0
  MaxCrashes = 1
  MaxCalls = 1
PROPERTIES
  ProcessingIsTransient
CHECK_DEADLOCK FALSE
