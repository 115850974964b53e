\* What the code does not promise: TLC refutes each of these invariants, and stops
\* at the first; comment the others out to see its counterexample.
SPECIFICATION Spec
CONSTANTS
  a1 = a1
  a2 = a2
  c1 = c1
  c2 = c2
  c3 = c3
  None = None
  Topics <- Parts
  Actor <- TwoActors
  MaxPairing = 1
  MaxRequests = 4
  MaxRestarts = 1
  Rotates = TRUE
  MaxTokens = 3
  MaxGrants = 1
  MaxFaults = 1
  Call <- ThreeCalls
  Interval = 2
  MaxRetries = 1
  Delays = {1}
  MaxRepeats = 2
  MaxTime = 4
  Lookback = 1
  MaxClock = 3
  MaxPublished = 2
  MaxChanges = 2
  Stamped = FALSE
  Shared = TRUE
  MaxRecords = 3
  PerPage = 2
  Limits = {0, 1, 2}
  PlanLimits = {0, 3}
  MaxFailures = 2
  MaxEdits = 2
  MaxFailed = 1
  ConfiguredFields <- UnfittingFields
  MaxCarried = 4
  Mappings <- FewMappings
  SchemaPairs <- FewSchemas
  KeyProfiles <- FewProfiles
  Siblings = 2
  MaxNumber = 2
  Letters = {"a", "b"}
SYMMETRY PlatformSymmetry
INVARIANTS
  QuietUntilReviewed
  NeverStaleRules
  NewcomerIsQuiet
  NeverToldInVain
  NeverAnotherOrganization
  SlotsSpacedAcrossClients
  RefreshedOnce
  NoneDropped
  JobPerChangeUnstamped
  QuotaHoldsAlways
  ErrorsNotWritten
  EveryRecordMade
  SidesAgree
  EchoEnds
  UntransformedIsBlocked
  OneSidedIsWarned
  RequiredIsWritten
  BlankIsOrderedAlike
  AdvancedIsHeeded
CHECK_DEADLOCK FALSE
