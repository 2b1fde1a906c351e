CONSTANTS
  MAXBUF = 6
  HDRSIZE = 2
  Smallest = 3
  MaxBytes = 20
SPECIFICATION Spec
INVARIANT UncompressGivesTheObject
CHECK_DEADLOCK FALSE
