SPECIFICATION Spec
CONSTANTS
  i1 = i1
  i2 = i2
  l1 = l1
  l2 = l2
  f1 = f1
  Absent = Absent
  None = None
  Operator = Operator
  NoOwner = NoOwner
  Stranger = Stranger
  DefaultLabel = l1
  Images <- MCImages
  Labels <- MCLabels
  Secrets <- MCSecrets
  Specs <- MCTwoSpecs
  Foreign <- MCForeign
  AlienKinds <- MCSchedulers
  AlienOwners <- MCAnyOwner
  MaxUid = 1
  MaxEdits = 1
  MaxAlien = 1
  MaxFaults = 1
  EmptyImageAdmitted = TRUE
CONSTRAINT Interference
INVARIANTS
  TypeOK
  QuietMeansDone
PROPERTIES
  TeardownOrder
  ForeignFinalizersKept
  StrangersLeftAlone
CHECK_DEADLOCK FALSE
