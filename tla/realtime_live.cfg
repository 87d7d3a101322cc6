CONSTANTS
  Bytes <- RealtimeBytes
  Lines <- ProgramLines
  MaxBytes = 2
  MaxLines = 2
  BlockSlots = 2
  SegmentSlots = 2
  BlockSegments = 2
SPECIFICATION FairSpec
PROPERTIES
  ResetHonoured
  CycleEnds
  HoldCompletes
  DoorStopsSpindle
