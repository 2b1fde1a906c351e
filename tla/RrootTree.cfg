CONSTANTS
  BasketSize = 3
  KeyLength = 1
  InitialBaskets = 2
  InitialOffsets = 2
  ScalarSize = 1
  ObjectSizes = {3}
  MaxEvents = 3
  MaxRows = 3
  MaxWriteErrors = 1
  AnyOrder = {TRUE, FALSE}
  MaxReadErrors = 1
SPECIFICATION ReadSpec
INVARIANTS BasketsAreManaged LeafIsTheEntry RowsBelongToTheEvent
CHECK_DEADLOCK FALSE
