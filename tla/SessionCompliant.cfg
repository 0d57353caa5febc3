SPECIFICATION Spec
CONSTANTS
  SessionIds = {1, 2}
  CallTypes = {"CALL", "CALL_UNKNOWN"}
  Unsolicited = {}
  MaxCalls = 2
  MaxRogue = 0
  Spurious = FALSE
INVARIANTS
  TypeOK
  RoundsDoNotOverlap
  HealthyNoFault
  RepliesInOrder
  JoinAnsweredOnce
  WaitsAreServed
