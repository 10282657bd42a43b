SPECIFICATION FairClusterSpec
CONSTANTS
  NumVms = 2
  Nodes = {1, 2}
  RegisterAttempts = 2
  NumAttempts = 2
  ClockSteps = {1}
  MaxNum = 2
  MaxRegistrations = 2
  MaxRestarts = 0
  MaxReports = 0
  MaxBreaks = 0
INVARIANTS
  ClusterTypeOK
  LeaksAreReported
  ListedPerVm
PROPERTIES
  EveryVmTried
CHECK_DEADLOCK FALSE
