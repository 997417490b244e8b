SPECIFICATION FairSpec
CONSTANTS
  Pairs = 2
  N = 2
INVARIANTS TypeOK Exclusion NoLostWakeup NobodyLeft FinalValue
PROPERTIES WorkersEnd
CHECK_DEADLOCK FALSE
