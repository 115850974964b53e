SPECIFICATION Spec
CONSTANTS
  None = None
  r1 = r1
  r2 = r2
  q1 = q1
  q2 = q2
  Rec <- OneRec
  Request <- OneRequest
  Routes <- WithPreflight
  MaxRev = 1
  MaxRuns = 3
  MaxChanges = 0
  MaxSchemas = 1
SYMMETRY Symmetric
INVARIANTS
  SchemaAsPreviewed
