\* TLC refutes both; comment one out to see the other's counterexample.
SPECIFICATION Spec
CONSTANTS
  None = None
  r1 = r1
  r2 = r2
  q1 = q1
  q2 = q2
  Rec <- TwoRec
  Request <- OneRequest
  Routes <- BatchToEnd
  MaxRev = 1
  MaxRuns = 3
  MaxChanges = 1
  MaxSchemas = 0
SYMMETRY Symmetric
INVARIANTS
  DriftInvalidates
  NeverStranded
