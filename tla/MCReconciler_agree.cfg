SPECIFICATION Spec
CONSTANTS
  NativeId = {i1, i2}
  Link = {l1, l2}
  Worker = {w1, w2}
  Field = {"email", "body"}
  Value = {key, va, vb, Null}
  Null = Null
  key = key
  va = va
  vb = vb
  vc = vc
  KeyField = {"email"}
  ReadOnly <- NoFields
  Required <- NoFields
  Kept <- AllKept
  UniqueKey = {}
  Strategy = "last-write-wins"
  SourceOfTruth = "salesforce"
  UserContent <- Bodies
  MaxTries = 2
  MaxEdits = 2
  MaxDeletes = 0
  MaxFaults = 0
  Absent = Absent
  Deleted = Deleted
  None = None
CHECK_DEADLOCK FALSE
INVARIANT Agreement
SYMMETRY Symmetric
