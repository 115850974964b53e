SPECIFICATION Spec
CONSTANTS
  None = None
  r1 = r1
  r2 = r2
  q1 = q1
  q2 = q2
  Rec <- TwoRec
  Request <- OneRequest
  Routes <- BatchToEnd
  MaxRev = 1
  MaxRuns = 3
  MaxChanges = 2
  MaxSchemas = 0
SYMMETRY Symmetric
INVARIANTS
  DriftStopsExecution
