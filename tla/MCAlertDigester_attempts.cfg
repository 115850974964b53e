SPECIFICATION Spec
CONSTANTS
  tick = tick
  request = request
  Timer = tick
  NJob = 2
  Check <- TickAndRequest
  MaxAttempts = 2
  MaxList = 1
  MaxReplays = 1
  MaxLosses = 1
  MaxUpsets = 2
INVARIANTS
  TypeOK
  MailedOnce
CHECK_DEADLOCK FALSE
