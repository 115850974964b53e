---------------------------- MODULE MCMigrationPlan --------------------------
(* Instances of MigrationPlan for TLC. *)
EXTENDS MigrationPlan, TLC

CONSTANTS r1, r2, q1, q2

OneRec == {r1}
TwoRec == {r1, r2}
OneRequest == {q1}
TwoRequests == {q1, q2}

TestRoutes    == {"test-preview", "test-execute"}
CanaryRoutes  == {"test-batch", "test-preview", "test-execute"}
BatchToEnd    == {"test-batch", "preview", "execute"}
WithPreflight == {"preflight", "test-batch", "preview", "execute"}
RecordToEnd   == AllRoutes \ {"test-batch"}

\* Without the histories that plan_gates does not look at and no action reads
GatesView == <<plan, frozen, runs, version, schema, req, canaried, stranded, changes>>

Symmetric == Permutations(TwoRec) \cup Permutations(TwoRequests)
=============================================================================
