CONSTANTS
  BlockBufferSize = 4
  SegmentBufferSize = 3
  Lengths <- OneTwo
  Rates <- Two
  Junctions <- OneTwo
  MaxLines = 4
  MaxHolds = 1
  MaxOverrides = 0
  MayStarve = FALSE
SPECIFICATION Spec
INVARIANTS
  PlanIsOptimal
  StartsFromRest
PROPERTIES
  SpeedIsSmooth
\* The host may send nothing more.
CHECK_DEADLOCK FALSE
