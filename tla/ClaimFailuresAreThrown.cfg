SPECIFICATION Spec
CONSTANTS
  SessionIds = {1}
  CallTypes = {"CALL"}
  Unsolicited = {}
  MaxCalls = 1
  MaxRogue = 0
  Spurious = FALSE
INVARIANT
  FailuresAreThrown
