SPECIFICATION FairSpec
CONSTANTS
  PingEvery = 2
  MaxMessages = 2
INVARIANTS
  TypeOK
  RegisteredIsLive
  PingsFollowWelcome
  RunEndsConnection
PROPERTIES
  LossEndsRun
  DestructorReturns
CHECK_DEADLOCK FALSE
