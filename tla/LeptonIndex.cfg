SPECIFICATION TableSpec
CONSTANTS
  Species <- MCSpecies
  Charged <- MCCharged
  Energy <- MCEnergy
  PrimaryKind <- MCPrimaryKind
  Daughters <- MCDaughters
  TrackSecondariesFirst = TRUE
  DrawOptical = TRUE
  MayAbort = FALSE
  MaxEvents = 1
  MaxPrimaries = 1
  MaxTracks = 3
  MaxSteps = 2
  MaxPerStep = 1
  TargetIsKnown = {TRUE, FALSE}
INVARIANTS LeptonIndexIsLepton
CHECK_DEADLOCK FALSE
