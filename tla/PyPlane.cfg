SPECIFICATION FairSpec
CONSTANTS
  Replicas = {p1}
  Requests = {r1, r2}
  NumAttempts = 1
  MaxReports = 2
  MaxUpdates = 2
INVARIANTS
  TypeOK
  CountsAreExact
PROPERTIES
  StreamSpec
  EverybodyIsServed
CHECK_DEADLOCK FALSE
