CONSTANTS
  Bits = 3
  Size = 21
  GlobalLength = 4
  VectorLength = 2
  LineLength = 2
  LastCoord = 1
  N_STARTUP_LINE = 2
  Parameters = 6
  StartupBlock = 12
  BuildInfo = 18
  Version = 2
  Lines <- TwoLines
  Vectors <- TwoVectors
  Values <- FourValues
  Numbers <- SixNumbers
  LineNumbers <- LineNumbersSix
  MaxCommands = 3
  MaxLosses = 2
SPECIFICATION FairSpec
INVARIANTS
  RamIsStored
  SoftLimitsNeedHoming
PROPERTIES
  StoresStayApart
  BootEnds
\* The user may type nothing more.
CHECK_DEADLOCK FALSE
