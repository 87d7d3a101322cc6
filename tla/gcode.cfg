CONSTANTS
  Lines <- SomeLines
  Jogs <- SomeJogs
  N_COORDINATE_SYSTEM = 2
  MmPerInch = 2
  Travel <- TwoToTwo
  BlockBuffer = 2
  MaxLines = 3
  MaxEvents = 1
SPECIFICATION Spec
INVARIANTS
  ParsedAsWritten
  CoordinatesCoherent
  PositionsAgree
  SpindleAsCommanded
  WorkPositionAsProgrammed
CHECK_DEADLOCK FALSE
