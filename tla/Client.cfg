SPECIFICATION FairSpec
CONSTANTS
  SessionIds = {1}
  CallTypes = {"CALL"}
  Unsolicited = {"PONG", "EMPTY"}
  MaxCalls = 1
  MaxRogue = 1
  Spurious = FALSE
INVARIANT
  ExitIsQuiet
PROPERTIES
  ImplementsSession
  ImplementsTransport
  ClosedIsNoticed
  LossEndsProcess
