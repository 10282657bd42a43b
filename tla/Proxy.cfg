SPECIFICATION FairSpec
CONSTANTS
  Tasks = {t1, t2}
  NumAttempts = 2
  MaxProcs = 4
  MaxFailures = 1
INVARIANTS
  TypeOK
  NoStrayProxy
  WatchGoesOn
PROPERTIES
  CrashIsNoticed
CHECK_DEADLOCK FALSE
