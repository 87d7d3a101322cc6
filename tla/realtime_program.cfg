CONSTANTS
  Bytes <- RealtimeBytes
  Lines <- ProgramLines
  MaxBytes = 4
  MaxLines = 2
  BlockSlots = 1
  SegmentSlots = 2
  BlockSegments = 2
SPECIFICATION Spec
INVARIANTS
  TypeOK
  ResetSeesMotion
  WaitIsAnswered
  AlarmHoldsNothing
  DoorKeepsSpindleOff
PROPERTIES
  HoldEndsByOperator
  StopOverrideEndsWithHold
  JogCancelFlushes
