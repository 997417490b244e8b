SPECIFICATION Spec
CONSTANTS
  Start = 1024
  Total = 640
  Header = 24
  MIN_BLOCK_SIZE = 128
  Word = 8
  BuddyHeader = 16
  BuddyMin = 128
  MAX_EXP = 3
  Managers = {"free list"}
  Tests = {t1, t2}
  MAX_BLOCKS = 2
  MaxMemory = 227
  MaxKills = 1
  Request = {1, 113}
INVARIANTS AddressIsBlock
CHECK_DEADLOCK FALSE
SYMMETRY Alike
