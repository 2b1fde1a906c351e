SPECIFICATION Spec
CONSTANTS
  Species <- MCSpecies
  Charged <- MCCharged
  Energy <- MCEnergy
  PrimaryKind <- MCPrimaryKind
  Daughters <- MCDaughters
  TrackSecondariesFirst = TRUE
  DrawOptical = TRUE
  MayAbort = TRUE
  MaxEvents = 2
  MaxPrimaries = 1
  MaxTracks = 4
  MaxSteps = 3
  MaxPerStep = 2
INVARIANTS TypeOK TrackInOnePlace TrajectoryComplete NothingLeftAtEnd SecondariesFirst
PROPERTY EventEnds
CHECK_DEADLOCK FALSE
