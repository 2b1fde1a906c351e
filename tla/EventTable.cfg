SPECIFICATION TableSpec
CONSTANTS
  Species <- MCSpecies
  Charged <- MCCharged
  Energy <- MCEnergy
  PrimaryKind <- MCPrimaryKind
  Daughters <- MCDaughters
  TrackSecondariesFirst = TRUE
  DrawOptical = FALSE
  MayAbort = TRUE
  MaxEvents = 2
  MaxPrimaries = 2
  MaxTracks = 3
  MaxSteps = 2
  MaxPerStep = 2
  TargetIsKnown = {TRUE, FALSE}
INVARIANTS LeptonIndexIsLepton TableComplete ParentKnown
CHECK_DEADLOCK FALSE
