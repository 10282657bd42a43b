SPECIFICATION FairSpec
CONSTANTS
  x = x
  y = y
  Chars <- MCChars
  Marker <- MCMarker
  Requests = {r1}
  MaxLen = 1
  MaxStep = 1
PROPERTY EndIsSignalled
CHECK_DEADLOCK FALSE
