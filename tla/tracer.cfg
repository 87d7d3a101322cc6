CONSTANTS
  Axes <- XY
  Lines <- ShortLines
  MaxLines = 2
SPECIFICATION Spec
INVARIANTS
  TypeOK
  LineIsExact
  OnTheLine
CHECK_DEADLOCK FALSE
