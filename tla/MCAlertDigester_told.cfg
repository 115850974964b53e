\* Also refuted with MaxReplays = 0: with MaxLosses = 1 by a mail that is not
\* taken, with NJob = 2 by a newer job that keeps another off the list.
SPECIFICATION FairSpec
CONSTANTS
  tick = tick
  request = request
  Timer = tick
  NJob = 1
  Check <- TickOnly
  MaxAttempts = 1
  MaxList = 1
  MaxReplays = 1
  MaxLosses = 0
  MaxUpsets = 0
PROPERTIES
  EveryFailureTold
CHECK_DEADLOCK FALSE
