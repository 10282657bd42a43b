SPECIFICATION FairSpec
CONSTANTS
  Nodes = {n1}
  NumAttempts = 1
  ClockSteps <- OneStep
  MaxNum = 2
  MaxRegistrations = 2
  MaxRestarts = 0
  MaxReports = 0
  MaxBreaks = 0
PROPERTY
  BecomesCurrent
CHECK_DEADLOCK FALSE
