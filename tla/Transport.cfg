CHECK_DEADLOCK FALSE
SPECIFICATION FairSpec
CONSTANT OtherWork = FALSE
INVARIANTS
  TypeOK
  GoneIsQuiet
  ConnectedIsOpen
  WaitsAreServed
PROPERTIES
  ImplementsLink
  ConnectReturning
  DisconnectReturning
  DestroyReturning
