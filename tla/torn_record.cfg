CONSTANTS
  Bits = 3
  Size = 21
  GlobalLength = 4
  VectorLength = 2
  LineLength = 2
  LastCoord = 1
  N_STARTUP_LINE = 2
  Parameters = 6
  StartupBlock = 12
  BuildInfo = 18
  Version = 2
  Lines <- TwoLines
  Vectors <- TwoVectors
  Values <- FourValues
  Numbers <- SixNumbers
  LineNumbers <- ThreeNumbers
  MaxCommands = 1
  MaxLosses = 1
SPECIFICATION Spec
PROPERTIES
  DamageIsDetected
CHECK_DEADLOCK FALSE
