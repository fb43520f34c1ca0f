SPECIFICATION SettledSpec
CONSTANTS
  i1 = i1
  i2 = i2
  l1 = l1
  l2 = l2
  Absent = Absent
  None = None
  Operator = Operator
  NoOwner = NoOwner
  Stranger = Stranger
  DefaultLabel = l1
  Images <- MCImages
  Labels <- MCLabels
  Secrets <- MCSecrets
  Specs <- MCTwoSpecs
  Foreign = {}
  AlienKinds = {}
  AlienOwners = {}
  MaxUid = 2
  MaxEdits = 2
  MaxAlien = 0
  MaxFaults = 1
  EmptyImageAdmitted = TRUE
INVARIANTS
  QuietMeansDone
CONSTRAINT EditedOrRemade
CHECK_DEADLOCK FALSE
