---------------------------- MODULE UserPrograms ----------------------------
(***************************************************************************)
(* The programs of Userland/ as the scheduler sees them: the system calls  *)
(* each one makes, the processes it makes them on, and what it passes to   *)
(* createProcess().  What a program computes, and how often it calls, is   *)
(* left open.  Top stands for the priority 3 they ask for.                 *)
(***************************************************************************)
EXTENDS Integers

CONSTANT Top

Fg(main, prio) == [main |-> main, fg |-> TRUE, priority |-> prio]
Bg(main, prio) == [main |-> main, fg |-> FALSE, priority |-> prio]

Program(calls, aims, spawns) == [calls |-> calls, aims |-> aims, spawns |-> spawns]

(* trivial() creates init and halts for ever.                              *)
trivial == Program({}, "children", {Fg("init", 0)})

(* main() of the user module starts the shell and waits for ever.          *)
init == Program({"create", "wait_any"}, "children", {Fg("sh", Top)})

(* startCommand(): one command in the foreground or in the background, and *)
(* a wait for the one in the foreground; between commands the shell sleeps *)
(* on the keyboard.                                                        *)
sh(commands) ==
  Program({"create", "wait", "sleep"}, "children",
          {Fg(c, Top) : c \in commands} \cup {Bg(c, Top) : c \in commands \cap {"command", "brief"}})

(* kill and nice name any pid; cat, wc and filter sleep on the keyboard.   *)
(* The block command is left out: it may unblock the running process.      *)
command == Program({"exit", "kill", "nice", "sleep"}, "any", {})

(* A command that only runs and ends: time, mem, ps...                     *)
brief == Program({"exit"}, "any", {})

(* test_processes() creates endless loops, and kills, blocks and unblocks  *)
(* them at random for ever.                                                *)
test_processes == Program({"create", "kill", "block", "unblock"}, "children", {Bg("endless_loop", 0)})

(* test_prio() does the same once, and renices them.                       *)
test_prio ==
  Program({"create", "nice", "block", "unblock", "kill", "exit"}, "children", {Bg("endless_loop", 0)})

(* test_sync() starts incrementers and waits for any child, once for each. *)
test_sync == Program({"create", "wait_any", "exit"}, "children", {Bg("my_process_inc", Top)})

my_process_inc == Program({"exit", "yield"}, "children", {})

endless_loop == Program({}, "children", {})
=============================================================================
