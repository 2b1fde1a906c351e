CONSTANTS
  Objects <- MCObjects
  BEGIN = 2
  KeyLength = 2
  BigExtra = 1
  DirectorySize = 1
  InfosSize = 1
  Segment = 1
  BigSegment = 2
  GapWord = 1
  START_BIG_FILE = 40
  ObjectSizes = {1, 3}
  BasketSizes = {1, 2, 3, 8, 9, 14, 15}
  MaxBaskets = 2
  MaxWriteErrors = 2
SPECIFICATION Spec
INVARIANTS DirectoryResolves FreeListIsSound ClosedFileIsComplete
PROPERTIES ReachableStaysWhole ImplementsStore
CHECK_DEADLOCK FALSE
