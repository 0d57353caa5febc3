CHECK_DEADLOCK FALSE
SPECIFICATION Spec
CONSTANTS
  Strings = {realm, reason}
  Objects = {empty, object}
  EmptyObject = empty
  Null = null
  Half = 32
INVARIANTS
  RoundTrip
  SessionReadsAnswers
