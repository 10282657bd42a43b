SPECIFICATION FairSpec
CONSTANTS
  Sessions = {s1, s2}
  Replicas = {r1, r2}
  Threads = 2
  MaxUpdates = 2
  MaxTokens = 1
INVARIANTS
  TypeOK
  ExactUnlessOverlapped
  GaugeIsExact
PROPERTIES
  CountedOnce
  EverySessionEnds
CHECK_DEADLOCK FALSE
