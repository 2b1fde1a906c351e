SPECIFICATION Spec
CONSTANTS
  Literals8inch <- MC8inch
  Literals12inch <- MC12inch
  Initial = "12inch"
  Selectable = {"8inch"}
  MaxBuilds = 3
INVARIANTS TubesNumbered HitLeadsToItsTube EntryDescribesTank VolumesKnown
CHECK_DEADLOCK FALSE
