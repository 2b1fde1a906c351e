SPECIFICATION Spec
CONSTANTS
  Photon = {1, 2, 3}
  Tube = {1, 2}
  MaxEvents = 2
INVARIANTS MapMatchesCollection CountedOnceIfDetected FlagsConsistent
PROPERTY ImplementsCounting
CHECK_DEADLOCK FALSE
