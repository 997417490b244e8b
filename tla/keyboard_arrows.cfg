SPECIFICATION Spec
CONSTANTS
  BUFF_SIZE = 4
  LINE = 3
  CHAIN = 1
  UsedSpan = 8
  Strokes <- WithArrow
CHECK_DEADLOCK FALSE
INVARIANTS SpecialKeysErased
