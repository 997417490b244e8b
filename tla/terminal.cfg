SPECIFICATION FairSpec
CONSTANTS
  BUFF_SIZE = 2
  LINE = 3
  CHAIN = 1
  UsedSpan = 8
  Strokes <- Typewriter
INVARIANTS TypeOK PermitsMatch ReaderAsks LineShown
PROPERTIES TypeAheadKept KeysAreRead
