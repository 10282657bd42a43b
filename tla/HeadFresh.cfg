SPECIFICATION FairSpec
CONSTANTS
  Nodes = {n1}
  NumAttempts = 2
  ClockSteps <- AnyStep
  MaxNum = 2
  MaxRegistrations = 2
  MaxRestarts = 1
  MaxReports = 2
  MaxBreaks = 1
INVARIANTS
  TypeOK
  StoresAgree
  NoResurrection
  StaleOnlyAfterMissedPulse
  NoRequestLost
  AddFindsItsNode
PROPERTIES
  ConvergesUnlessMissed
  QueueServed
  FeedSpec
CHECK_DEADLOCK FALSE
