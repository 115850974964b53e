---------------------------- MODULE MCSyncIntake ----------------------------
(* Instances of SyncIntake for TLC. *)
EXTENDS SyncIntake, TLC

CONSTANTS p1, p2

OneProcess   == {p1}
TwoProcesses == {p1, p2}
TwoRecords   == {1, 2}
OneForeign   == {2}
NoneForeign  == {}
=============================================================================
