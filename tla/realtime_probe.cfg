CONSTANTS
  Bytes <- ProbeBytes
  Lines <- ProbeLines
  MaxBytes = 2
  MaxLines = 3
  BlockSlots = 2
  SegmentSlots = 2
  BlockSegments = 2
SPECIFICATION FairSpec
PROPERTY
  ProbeReturns
