SPECIFICATION Spec
CONSTANTS
  Start = 128
  Total = 640
  Header = 24
  MIN_BLOCK_SIZE = 128
  Word = 8
  BuddyHeader = 16
  BuddyMin = 128
  MAX_EXP = 3
  Managers = {"free list", "buddy"}
  Tests = {t1, t2}
  MAX_BLOCKS = 2
  MaxMemory = 115
  MaxKills = 1
  Request = {1, 113}
INVARIANTS TypeOK HeapTiled Coalesced BuddiesTile PatternsSurvive
PROPERTIES KeepsPromise
CHECK_DEADLOCK FALSE
SYMMETRY Alike
