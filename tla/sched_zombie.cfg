SPECIFICATION Spec
CONSTANTS
  NULL = NULL
  MaxProcesses = 6
  MaxChildren = 6
  QtyPriorities = 1
  Main <- Programs
  Calls <- MCCalls
  Aims <- MCAims
  Spawns <- BriefCommands
  MaxSpawns <- OneCommand
  Keys = {}
  Windows = {"exit"}
INVARIANTS NoZombie
CHECK_DEADLOCK FALSE
