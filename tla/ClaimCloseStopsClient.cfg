SPECIFICATION FairSpec
CONSTANTS
  PingEvery = 2
  MaxMessages = 2
PROPERTY CloseStopsClient
CHECK_DEADLOCK FALSE
