SPECIFICATION FairSpec
CONSTANTS
  i1 = i1
  i2 = i2
  l1 = l1
  l2 = l2
  f1 = f1
  Absent = Absent
  None = None
  Operator = Operator
  NoOwner = NoOwner
  Stranger = Stranger
  DefaultLabel = l1
  Images <- MCImages
  Labels <- MCLabels
  Secrets <- MCSecrets
  Specs <- MCOneSpec
  Foreign = {}
  AlienKinds = {}
  AlienOwners = {}
  MaxUid = 1
  MaxEdits = 0
  MaxAlien = 0
  MaxFaults = 0
  EmptyImageAdmitted = FALSE
PROPERTIES
  AllRealised
CHECK_DEADLOCK FALSE
