SPECIFICATION Spec
CONSTANTS
  SessionIds = {1}
  CallTypes = {"CALL"}
  Unsolicited = {"ABORT"}
  MaxCalls = 1
  MaxRogue = 1
  Spurious = FALSE
PROPERTY
  AbortIsHandled
