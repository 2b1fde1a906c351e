CONSTANTS
  BasketSize = 3
  KeyLength = 1
  InitialBaskets = 2
  InitialOffsets = 2
  ScalarSize = 1
  ObjectSizes = {1, 3}
  MaxEvents = 3
  MaxRows = 3
  MaxWriteErrors = 1
SPECIFICATION Spec
INVARIANTS EntriesReadBack NoRowIsLostSilently ReaderAcceptsTree ArraysFit FailuresHaveACause
PROPERTY ImplementsLog
CHECK_DEADLOCK FALSE
