SPECIFICATION BootstrapFairSpec
CONSTANTS
  w1 = w1
  Workloads <- MCWorkloads
  MaxGen = 2
  MaxPods = 3
  MaxFaults = 1
  MaxEvicts = 1
INVARIANTS
  BootstrapTypeOK
  OneExtension
PROPERTIES
  ExtensionComesUp
  WorkloadsPlaced
CHECK_DEADLOCK FALSE
