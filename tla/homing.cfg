CONSTANTS
  Cycles <- ZThenXY
  Length = 4
  Low <- MinusOne
  High = 5
  Starts <- Everywhere
  Seek = 6
  PullOff = 2
  Locate = 4
  N_HOMING_LOCATE_CYCLE = 1
  MaxBytes = 1
  MaxLines = 2
SPECIFICATION FairSpec
INVARIANTS
  ClearsZFirst
PROPERTIES
  HomedMeansFound
  HomingEnds
CHECK_DEADLOCK FALSE
