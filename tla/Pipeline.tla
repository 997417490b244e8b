------------------------------ MODULE Pipeline ------------------------------
(***************************************************************************)
(* The shell at its prompt: startCommand() of Userland/Shell/shell.c, for  *)
(* a few lines one after the other, with the commands of CommandLine and   *)
(* the pipe of Pipe.  It waits for what it starts in the foreground, for a *)
(* pipe by two waits for any child.                                        *)
(***************************************************************************)
EXTENDS Pipe, CommandLine

CONSTANTS
  Lines,        \* what the user may type, as words
  MaxLines      \* bound: how many lines he types

ASSUME PipelineAssumption == Lines \subseteq Seq(STRING \ {NONE}) /\ MaxLines \in Nat

VARIABLES
  line,         \* the last one, and how many there were
  lines,
  arguments,
  commands,
  keyboard,     \* the reader_pid of stdin
  waits_left    \* how often the shell still calls wait_pid()

prompt == <<line, lines, arguments, commands>>
vars   == <<pipeVars, prompt, keyboard, waits_left>>

Init ==
  /\ PipeInit
  /\ line = <<>> /\ lines = 0
  /\ arguments = [k \in 1 .. MAX_ARGS |-> NONE]
  /\ commands = <<>>
  /\ keyboard = SHELL
  /\ waits_left = 0

Unpiped == UNCHANGED <<sems, ring, owners, waits, exits, closing, sent, received>>

-----------------------------------------------------------------------------
(* A line comes in.  While another process owns the keyboard a read of the *)
(* shell returns at once with nothing.                                     *)
Enter ==
  /\ lines < MaxLines /\ keyboard = SHELL
  /\ Go(SHELL, "prompt", "start")
  /\ \E typed \in Lines :
       /\ line' = typed
       /\ arguments' = parseArgs(arguments, typed)
       /\ commands' \in prepareCommands(arguments', Count(typed))
  /\ lines' = lines + 1
  /\ Unpiped /\ UNCHANGED <<keyboard, waits_left>>

(* One side that is empty or refused is enough to start nothing.           *)
Runnable == \A c \in 1 .. Len(commands) : commands[c].function # "none"

Refuse ==
  /\ ~Runnable
  /\ Go(SHELL, "start", "prompt")
  /\ Unpiped /\ UNCHANGED <<prompt, keyboard, waits_left>>

(* Who reads the keyboard is in the foreground, and is waited for: the     *)
(* variant waits for one side of a pipe.                                   *)
Foreground == commands[1].stdin = "STDIN"

WaitsOnce == IF Foreground THEN 1 ELSE 0

Waits == IF Foreground THEN Len(commands) ELSE 0

Started(p) ==
  /\ keyboard' = IF Foreground THEN p ELSE keyboard
  /\ UNCHANGED prompt

AfterStart == IF Waits > 0 THEN "wait" ELSE "prompt"

(* Bound: one job at a time.                                               *)
StartOne ==
  /\ Runnable /\ Len(commands) = 1 /\ p_state[JOB] = "TERMINATED"
  /\ Go(SHELL, "start", AfterStart)
  /\ setState(JOB, "READY")
  /\ Started(JOB) /\ waits_left' = Waits
  /\ UNCHANGED <<ring, owners, waits, exits, closing, sent, received>>

(* Bound: one pipe in a behaviour.                                         *)
OpenFd ==
  /\ Runnable /\ Len(commands) = 2
  /\ pc[WRITER] = "run" /\ p_state[WRITER] = "TERMINATED"
  /\ Go(SHELL, "start", "create_writer")
  /\ openFd
  /\ UNCHANGED <<prompt, keyboard, waits_left>>

StartWriter == CreateWriter /\ Started(WRITER) /\ UNCHANGED waits_left

StartReader ==
  /\ Go(SHELL, "create_reader", AfterStart)
  /\ createReader
  /\ waits_left' = Waits
  /\ UNCHANGED <<prompt, keyboard>>

(* wait_pid() of the one command, or twice of any child; the shell is back *)
(* from it when a death has made it ready.                                 *)
Awaited == IF Len(commands) = 1 THEN JOB ELSE ANY

WaitPid ==
  /\ Go(SHELL, "wait", "waiting")
  /\ waitPid(Awaited)
  /\ waits_left' = waits_left - 1
  /\ UNCHANGED <<prompt, keyboard>>

Waited ==
  /\ Go(SHELL, "waiting", IF waits_left > 0 THEN "wait" ELSE "prompt")
  /\ Unpiped /\ UNCHANGED <<prompt, keyboard, waits_left>>

-----------------------------------------------------------------------------
(* A command without a pipe ends, at any time or never.  kill() gives the  *)
(* keyboard of who dies to its parent.                                     *)
HandOver(p) ==
  /\ keyboard' = IF keyboard = p THEN SHELL ELSE keyboard
  /\ UNCHANGED <<prompt, waits_left>>

JobEnds ==
  /\ exiting = NOBODY /\ CanRun(JOB)
  /\ Tell(JOB)
  /\ kill(JOB, IF Notified(JOB) THEN {SHELL} ELSE {})
  /\ HandOver(JOB)
  /\ UNCHANGED <<ring, owners, pc, exits, closing, sent, received>>

Running == UNCHANGED <<prompt, keyboard, waits_left>>

ShellGoesOn == Refuse \/ StartOne \/ OpenFd \/ StartWriter \/ StartReader \/ WaitPid \/ Waited

WriterGoesOn ==
  \/ HandKeyboard(WRITER, "wait_write") /\ HandOver(WRITER)
  \/ (WriterDies \/ Writer) /\ Running

ReaderGoesOn ==
  \/ HandKeyboard(READER, "close") /\ HandOver(READER)
  \/ (ReaderDies \/ Reader) /\ Running

Interrupted == Tick /\ Running

OrphanEnds == GivesUp /\ Running

Next == Enter \/ ShellGoesOn \/ JobEnds \/ WriterGoesOn \/ ReaderGoesOn \/ OrphanEnds \/ Interrupted

Spec == Init /\ [][Next]_vars

(* Every process in the ready list gets the processor: NoStarvation of     *)
(* Scheduler; who exits has it.  No tick need come in an exit, a command   *)
(* may run for ever, and the user need not type.                           *)
FairSpec == Spec /\ WF_vars(ShellGoesOn) /\ WF_vars(WriterGoesOn) /\ WF_vars(ReaderGoesOn)

-----------------------------------------------------------------------------
(* Every variable has its type.                                            *)
TypeOK ==
  /\ PipeTypeOK
  /\ line \in Lines \cup {<<>>} /\ lines \in 0 .. MaxLines
  /\ DOMAIN arguments = 1 .. MAX_ARGS
  /\ Len(commands) \in 0 .. 2
  /\ keyboard \in {SHELL, WRITER, JOB}
  /\ waits_left \in 0 .. 2

(* What the shell starts for a line is what the line says by itself: the   *)
(* words of older lines stay in arguments, and behind a | they are copied  *)
(* along, but no command, pipe or & is ever made of them.                  *)
LineAlone == pc[SHELL] # "prompt" => commands \in Meaning(line)

(* The prompt is back after a pipe in the foreground only when both of its *)
(* sides have ended, unless the end of a job that still ran in the         *)
(* background has used up one of the two waits.                            *)
Ended(p) == IF p = WRITER THEN closing ELSE pc[p] \in {"hand", "close", "exit", "dead"}

PromptMeansDone ==
  pc[SHELL] = "prompt" /\ Len(commands) = 2 /\ Runnable /\ Foreground
    => JOB \in told \/ (Ended(WRITER) /\ Ended(READER))
=============================================================================
