SPECIFICATION FairSpec
CONSTANTS
  tick = tick
  request = request
  Timer = tick
  NJob = 2
  Check <- TickAndRequest
  MaxAttempts = 1
  MaxList = 1
  MaxReplays = 1
  MaxLosses = 1
  MaxUpsets = 1
INVARIANTS
  TypeOK
  MailedOnce
PROPERTIES
  EveryNewStateMailed
CHECK_DEADLOCK FALSE
