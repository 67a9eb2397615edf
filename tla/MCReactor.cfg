SPECIFICATION Spec
CONSTANTS
  MaxConns = 2
  MaxReceived = 3
  MaxRoom = 2
  MaxWrite = 3
  ReadSizes = {2}
INVARIANTS
  NoMissedEvent
PROPERTIES
  ResetNoticed
CHECK_DEADLOCK FALSE
