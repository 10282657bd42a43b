SPECIFICATION FairSpec
CONSTANTS
  Calls = {c1, c2, c3}
  MaxNum = 3
INVARIANTS
  TypeOK
  AnswersAreOwn
  NoMissedRegistration
  FuturesAreOwned
PROPERTIES
  EveryCallAnswered
  NothingOutlivesIt
  EveryReplicaPinged
CHECK_DEADLOCK FALSE
