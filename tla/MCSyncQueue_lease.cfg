SPECIFICATION Spec
CONSTANTS
  u1 = u1
  u2 = u2
  d1 = d1
  e1 = e1
  e2 = e2
  Job <- OneDelete
  DeleteJob <- OneDelete
  Linked <- OneDelete
  Engine <- TwoEngines
  Concurrency = 1
  MaxAttempts = 2
  DeletePolicy = "cascade"
  MaxReplays = 1
  MaxCrashes = 1
  MaxCalls = 1
SYMMETRY EngineSymmetry
INVARIANTS
  TypeOK
  LeaseAccounted
  RetryWatched
CHECK_DEADLOCK FALSE
