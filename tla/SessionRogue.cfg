SPECIFICATION Spec
CONSTANTS
  SessionIds = {0, 1}
  CallTypes = {"CALL_THROWS"}
  Unsolicited = {"WELCOME", "ABORT", "PONG", "FORBIDDEN", "IGNORED", "EMPTY", "MALFORMED"}
  MaxCalls = 1
  MaxRogue = 2
  Spurious = TRUE
INVARIANT
  SessionAgreesWithJoin
PROPERTIES
  ImplementsLifecycle
  SessionIdStable
