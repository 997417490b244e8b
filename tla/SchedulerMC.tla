---------------------------- MODULE SchedulerMC ----------------------------
(***************************************************************************)
(* The scheduler with the programs of Userland/, for TLC.                  *)
(***************************************************************************)
EXTENDS Scheduler

User == INSTANCE UserPrograms WITH Top <- QtyPriorities - 1

Programs == {"trivial", "init", "sh", "command", "brief", "test_processes", "test_prio",
             "test_sync", "my_process_inc", "endless_loop"}

Role(main, started) ==
  CASE main = "trivial"        -> User!trivial
    [] main = "init"           -> User!init
    [] main = "sh"             -> User!sh(started)
    [] main = "command"        -> User!command
    [] main = "brief"          -> User!brief
    [] main = "test_processes" -> User!test_processes
    [] main = "test_prio"      -> User!test_prio
    [] main = "test_sync"      -> User!test_sync
    [] main = "my_process_inc" -> User!my_process_inc
    [] main = "endless_loop"   -> User!endless_loop

MCCalls == [m \in Programs |-> Role(m, {}).calls]
MCAims  == [m \in Programs |-> Role(m, {}).aims]

(* What the user types: commands, in the foreground or in the background,  *)
(* commands that only end, or one of the tests in the foreground.          *)
SpawnsOf(started) == [m \in Programs |-> Role(m, started).spawns]

Commands      == SpawnsOf({"command"})
BriefCommands == SpawnsOf({"brief"})
Tests         == SpawnsOf({"test_processes", "test_prio", "test_sync"})

(* How many commands the shell starts, and how many workers a test.        *)
MCMaxSpawns(commands) ==
  [m \in Programs |-> IF m = "sh" THEN commands
                      ELSE IF m \in {"test_processes", "test_sync"} THEN 2 ELSE 1]

OneCommand  == MCMaxSpawns(1)
TwoCommands == MCMaxSpawns(2)

(* What the theorems ask of the programs.                                  *)
ASSUME ProgramsAssumption == UserTree /\ UserCalls
=============================================================================
