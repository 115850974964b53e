---------------------------- MODULE MCSyncQueue ----------------------------
(* Finite instances of SyncQueue for TLC. *)
EXTENDS SyncQueue, TLC

CONSTANTS u1, u2, d1, e1, e2

UpdateAndDelete == {u1, d1}
OneUpdate       == {u1}
TwoUpdates      == {u1, u2}
OneDelete       == {d1}
NoJob           == {}
OneEngine       == {e1}
TwoEngines      == {e1, e2}

EngineSymmetry == Permutations(Engine)
=============================================================================
