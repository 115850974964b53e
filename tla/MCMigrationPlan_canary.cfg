\* A canary that is shown as verified and wrote nothing: by a batch whose records
\* all failed, or, with Routes <- TestRoutes, by a second canary's preview.
SPECIFICATION Spec
CONSTANTS
  None = None
  r1 = r1
  r2 = r2
  q1 = q1
  q2 = q2
  Rec <- TwoRec
  Request <- TwoRequests
  Routes <- CanaryRoutes
  MaxRev = 1
  MaxRuns = 3
  MaxChanges = 0
  MaxSchemas = 0
SYMMETRY Symmetric
INVARIANTS
  CanaryRan
