SPECIFICATION Spec
CONSTANTS
  None = None
  r1 = r1
  r2 = r2
  q1 = q1
  q2 = q2
  Rec <- OneRec
  Request <- OneRequest
  Routes <- RecordToEnd
  MaxRev = 2
  MaxRuns = 4
  MaxChanges = 1
  MaxSchemas = 1
SYMMETRY Symmetric
INVARIANTS
  TypeOK
  CanaryRan
  DriftStopsExecution
