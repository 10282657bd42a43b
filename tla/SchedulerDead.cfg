SPECIFICATION FairSpec
CONSTANTS
  Calls = {c1}
  MaxNum = 1
PROPERTY DeadIsMarked
CHECK_DEADLOCK FALSE
