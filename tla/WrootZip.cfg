CONSTANTS
  MAXBUF = 6
  HDRSIZE = 2
  Smallest = 3
  MaxBytes = 20
SPECIFICATION Spec
INVARIANTS BuffersSuffice AcceptedIsObject
PROPERTY EveryRecordIsRead
CHECK_DEADLOCK FALSE
