CONSTANTS
  Bytes <- ResetOnly
  Lines <- ProbeOnly
  MaxBytes = 1
  MaxLines = 1
  BlockSlots = 2
  SegmentSlots = 2
  BlockSegments = 2
SPECIFICATION Spec
PROPERTY
  CommandIsRead
