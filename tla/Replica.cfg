SPECIFICATION FairSpec
CONSTANTS
  x = x
  y = y
  Chars <- MCChars
  Marker <- MCMarker
  Requests = {r1}
  MaxLen = 4
  MaxStep = 2
INVARIANTS
  TypeOK
  Consecutive
  NoLostWakeup
PROPERTIES
  StreamSpec
  CallsReturn
CHECK_DEADLOCK FALSE
