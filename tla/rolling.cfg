SPECIFICATION LifeFairSpec
CONSTANTS
  p1 = p1
  p2 = p2
  p3 = p3
  gpue = gpue
  other = other
  Free = Free
  Departed = Departed
  Unreadable = Unreadable
  Pods <- MCPods
  Ids <- MCIds
  Files <- MCFiles
  FirstFile <- AsShipped
  LeaseDuration = 3
  RenewDeadline = 2
  MaxRollouts = 2
  MaxFaults = 2
INVARIANTS
  LifeTypeOK
  AtMostOneActs
PROPERTIES
  SomebodyWorks
  RolloutCompletes
CHECK_DEADLOCK FALSE
