SPECIFICATION Spec
CONSTANTS
  NULL = NULL
  MaxProcesses = 6
  MaxChildren = 6
  QtyPriorities = 1
  Main <- Programs
  Calls <- MCCalls
  Aims <- MCAims
  Spawns <- Commands
  MaxSpawns <- TwoCommands
  Keys = {"char", "ctrl_c"}
  Windows = {}
INVARIANTS TypeOK ReadyListOK ForegroundOK SingleRunning SlotsOK
PROPERTIES WaitsForDeath RunsRunnable
