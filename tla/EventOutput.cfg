SPECIFICATION OutputSpec
CONSTANTS
  TimeHistoStep = 2
  TimeHistoStepBin = 2
  TimeHistoMaxBin = 5
  GlobalThreshold = 1
  offset = 4
  eventgateup = 3
  pmtgate = 3
  Noise <- MCNoise
  Hits <- MCHits
  MaxEvents = 2
  MaxTimes = 2
INVARIANTS TriggerIsFirstWindow DigitFromFirstTime EntryIsEvent
CHECK_DEADLOCK FALSE
