SPECIFICATION Spec
CONSTANTS
  Files <- MCFiles
  MaxEvents = 8
  MaxCommands = 4
INVARIANT RecordsInOrder
PROPERTIES EventIsRecord RecordsAreDelivered
CHECK_DEADLOCK FALSE
