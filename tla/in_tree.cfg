SPECIFICATION Spec
CONSTANTS
  i1 = i1
  i2 = i2
  l1 = l1
  l2 = l2
  f1 = f1
  Absent = Absent
  None = None
  Operator = Operator
  NoOwner = NoOwner
  Stranger = Stranger
  DefaultLabel = l1
  Images <- MCImages
  Labels <- MCLabels
  Secrets <- MCSecrets
  Specs <- MCInTree
  Foreign = {}
  AlienKinds = {}
  AlienOwners = {}
  MaxUid = 1
  MaxEdits = 0
  MaxAlien = 0
  MaxFaults = 0
  EmptyImageAdmitted = TRUE
INVARIANTS
  InTreeDriverKept
CHECK_DEADLOCK FALSE
