SPECIFICATION FairSpec
CONSTANTS
  NULL = NULL
  MaxProcesses = 7
  MaxChildren = 7
  QtyPriorities = 2
  Main <- Programs
  Calls <- MCCalls
  Aims <- MCAims
  Spawns <- Tests
  MaxSpawns <- OneCommand
  Keys = {"ctrl_c"}
  Windows = {}
INVARIANTS ParentAlive
PROPERTIES NoStarvation DeathIsReported
