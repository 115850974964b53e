SPECIFICATION Spec
CONSTANTS
  None = None
  r1 = r1
  r2 = r2
  q1 = q1
  q2 = q2
  Rec <- OneRec
  Request <- TwoRequests
  Routes <- BatchToEnd
  MaxRev = 2
  MaxRuns = 3
  MaxChanges = 0
  MaxSchemas = 0
SYMMETRY Symmetric
VIEW GatesView
INVARIANTS
  CanaryFirst
  ExecutesItsRevision
  ExecutingIsRunning
