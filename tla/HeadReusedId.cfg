SPECIFICATION Spec
CONSTANTS
  Nodes = {n1}
  NumAttempts = 1
  ClockSteps <- OneStep
  MaxNum = 2
  MaxRegistrations = 2
  MaxRestarts = 1
  MaxReports = 0
  MaxBreaks = 0
INVARIANT
  RoutingIdsUnique
CHECK_DEADLOCK FALSE
