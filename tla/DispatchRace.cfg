SPECIFICATION Spec
CONSTANTS
  Sessions = {s1, s2}
  Replicas = {r1, r2}
  Threads = 2
  MaxUpdates = 1
  MaxTokens = 1
INVARIANT
  ActiveIsExact
CHECK_DEADLOCK FALSE
SYMMETRY Symmetry
