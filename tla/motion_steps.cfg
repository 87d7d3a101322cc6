CONSTANTS
  BlockBufferSize = 3
  SegmentBufferSize = 3
  Lengths <- OneTwo
  Rates <- Two
  Junctions <- OneTwo
  MaxLines = 3
  MaxHolds = 1
  MaxOverrides = 1
  MayStarve = TRUE
SPECIFICATION FairSpec
PROPERTIES
  PathFollowed
  MotionEnds
  HoldCompletes
\* The host may send nothing more.
CHECK_DEADLOCK FALSE
