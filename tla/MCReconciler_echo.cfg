SPECIFICATION FairSpec
CONSTANTS
  NativeId = {i1, i2, i3}
  Link = {l1, l2, l3}
  Worker = {w1}
  Field = {"email", "body"}
  Value = {key, va, vb, Null}
  Null = Null
  key = key
  va = va
  vb = vb
  vc = vc
  KeyField = {"email"}
  ReadOnly <- NoFields
  Required <- EmailNeeded
  Kept <- AllKept
  UniqueKey = {"hubspot"}
  Strategy = "field-merge"
  SourceOfTruth = "salesforce"
  UserContent <- OrBlank
  MaxTries = 2
  MaxEdits = 2
  MaxDeletes = 1
  MaxFaults = 0
  Absent = Absent
  Deleted = Deleted
  None = None
CHECK_DEADLOCK FALSE
PROPERTY EchoDropped
PROPERTY DeleteSparesLiving
PROPERTY Quiesces
