SPECIFICATION Spec
CONSTANTS
  MaxTime = 2
  MaxHandles = 2
INVARIANTS
  FirstHandshakeWaits
  NothingLost
PROPERTIES
  ReturnsConnected
  ConnectEnds
CHECK_DEADLOCK FALSE
