SPECIFICATION PipelineSpec
CONSTANTS
  v1 = v1
  v2 = v2
  Versions <- MCVersions
  MaxPushes = 3
  MaxJobs = 4
  MaxActive = 2
  MaxFaults = 2
SYMMETRY MCSymmetry
INVARIANTS
  PipelineTypeOK
  ImagesFollowTag
  PublishedIsComplete
  PageFollowsTag
  ImagesOfTheirVersion
CHECK_DEADLOCK FALSE
