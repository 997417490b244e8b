------------------------------ MODULE Scheduler ------------------------------
(***************************************************************************)
(* Processes and their scheduler: Kernel/scheduler.c and the life of a PCB *)
(* in Kernel/process.c, driven by the system calls of the programs, the    *)
(* timer and the keyboard.                                                 *)
(*                                                                         *)
(* The gates of the IDT are interrupt gates, so a system call and an       *)
(* interrupt handler run with interrupts off up to the point where they    *)
(* switch processes: each is one action.  Two pieces of the kernel run     *)
(* with interrupts on: trivial() while it boots, and the whole exit of a   *)
(* process, because runProcess() calls killCurrent() without a system      *)
(* call.  These are broken into steps, and the constant Windows says in    *)
(* which of the two an interrupt is allowed to arrive.                     *)
(*                                                                         *)
(* A process slot p stands for scheduler.processes[p], its node and its    *)
(* PCB; p_state[p] = "FREE" stands for a NULL entry.                       *)
(*                                                                         *)
(* Some operators come with a variant that has a mistake in it, just       *)
(* before them.  No action uses a variant: put in the place of its         *)
(* operator, it makes a property fail, which shows what the property is    *)
(* worth.                                                                  *)
(***************************************************************************)
EXTENDS LinkedList, Sequences, FiniteSets

CONSTANTS
  MaxProcesses,    \* MAX_PROCESSES, the length of scheduler.processes
  MaxChildren,     \* the length of PCB.children
  QtyPriorities,   \* QTY_PRIORITIES
  Main,            \* the programs: what a main_func can be
  Calls,           \* the system calls each program makes
  Aims,            \* whom it kills, blocks...: "children" or "any" process
  Spawns,          \* what each program passes to createProcess
  MaxSpawns,       \* bound: how many processes a process creates
  Keys,            \* the keys that are pressed: "char", "ctrl_c"
  Windows          \* where interrupts meet the kernel: "boot", "exit"

Pid     == 0 .. MaxProcesses - 1
TRIVIAL == 0
ANY     == -1      \* the argument of waitPid() that stands for every child

Call == {"create", "exit", "kill", "block", "unblock", "nice", "yield",
         "wait", "wait_any", "sleep", "wake"}
Request == [main : Main, fg : BOOLEAN, priority : 0 .. QtyPriorities - 1]

ASSUME SchedulerAssumption ==
  /\ MaxProcesses \in Nat \ {0, 1, 2, 3}
  /\ MaxChildren \in Nat
  /\ QtyPriorities \in Nat \ {0}
  /\ NULL \notin Nat
  /\ {"trivial", "init"} \subseteq Main
  /\ Calls \in [Main -> SUBSET Call]
  /\ Aims \in [Main -> {"children", "any"}]
  /\ Spawns \in [Main -> SUBSET Request]
  /\ MaxSpawns \in [Main -> Nat]
  /\ Keys \subseteq {"char", "ctrl_c"}
  /\ Windows \subseteq {"boot", "exit"}

VARIABLES
  ready_processes,   \* the ready list; the running process stays in it
  running_pid, next_pid, process_count, fg_pid, remaining_rounds,
  p_state, priority, parent_pid, waiting_pid, children, isFg,  \* the PCBs
  program,           \* the main function of each process
  stdin_reader,      \* reader_pid of the file descriptor 0
  pc,                \* where each process stands in the kernel
  fault              \* what stopped the machine

table    == <<running_pid, remaining_rounds, p_state, priority, ready_processes>>
family   == <<parent_pid, waiting_pid, children, program>>
terminal == <<fg_pid, isFg, stdin_reader>>
slots    == <<next_pid, process_count>>
vars     == <<table, family, terminal, slots, pc, fault>>

Live     == {p \in Pid : p_state[p] # "FREE"}
Runnable == {p \in Pid \ {TRIVIAL} : p_state[p] \in {"READY", "RUNNING"}}

ExitSteps == {"terminate", "notify", "hand_over", "reparent", "free"}

-----------------------------------------------------------------------------
(* The state main() leaves behind with its first callTimerTick(): trivial  *)
(* runs, holds the keyboard, and is about to create init.                  *)
Init ==
  /\ ready_processes = createLinkedList(Pid)
  /\ running_pid = TRIVIAL
  /\ next_pid = 1
  /\ process_count = 1
  /\ fg_pid = TRIVIAL
  /\ remaining_rounds = 1
  /\ p_state = [p \in Pid |-> IF p = TRIVIAL THEN "RUNNING" ELSE "FREE"]
  /\ priority = [p \in Pid |-> 0]
  /\ parent_pid = [p \in Pid |-> TRIVIAL]
  /\ waiting_pid = [p \in Pid |-> 0]
  /\ children = [p \in Pid |-> <<>>]
  /\ isFg = [p \in Pid |-> p = TRIVIAL]
  /\ program = [p \in Pid |-> "trivial"]
  /\ stdin_reader = TRIVIAL
  /\ pc = [p \in Pid |-> IF p = TRIVIAL THEN "boot" ELSE "user"]
  /\ fault = "none"

-----------------------------------------------------------------------------
(* Choosing the next process: schedule() once the rounds of the running    *)
(* process are used up, from the states st and the ready list l that the   *)
(* caller has made.  A running process goes to the tail one priority       *)
(* lower; one that blocked, or whose slot is empty, is simply left.  A     *)
(* freed node at the head of the list is the end: f is the fault so far.   *)
Preempted(st) == st[running_pid] = "RUNNING" /\ running_pid # TRIVIAL

LeftUnlessIdle(st) == IF Preempted(st) THEN [st EXCEPT ![running_pid] = "READY"] ELSE st

Left(st) ==
  IF Preempted(st) \/ running_pid = TRIVIAL THEN [st EXCEPT ![running_pid] = "READY"] ELSE st

AgedBelowZero(prio) == prio - 1

Aged(prio) == IF prio > 0 THEN prio - 1 ELSE prio

RequeuedOnTop(l, p) == queue(l, p)

RequeuedAtHead(l, p) == push(remove(l, p), p)

Requeued(l, p) == queue(remove(l, p), p)

getNextReadyProcess(l) == IF l.first = NULL THEN TRIVIAL ELSE l.first

schedule(st, l, f) ==
  LET p    == running_pid
      list == IF Preempted(st) THEN Requeued(l, p) ELSE l
      new  == getNextReadyProcess(list)
  IN  /\ ready_processes' = list
      /\ priority' = [priority EXCEPT ![p] = IF st[p] = "FREE" THEN 0
                                             ELSE IF Preempted(st) THEN Aged(@) ELSE @]
      /\ p_state' = [Left(st) EXCEPT ![new] = IF @ = "FREE" THEN @ ELSE "RUNNING"]
      /\ fault' = IF Left(st)[new] = "FREE" THEN "dangling" ELSE f
      /\ running_pid' = new
      /\ remaining_rounds' = priority'[new] + 1

(* setState(q, READY) and setState(q, BLOCKED), as they change the states  *)
(* and the ready list; waking does not look whether q is running.          *)
CanSet(st, q, new) == q # TRIVIAL /\ st[q] \notin {"FREE", new}

SetState(st, q, new) == IF CanSet(st, q, new) THEN [st EXCEPT ![q] = new] ELSE st

SetStateList(st, l, q, new) ==
  CASE ~CanSet(st, q, new) -> l
    [] CanSet(st, q, new) /\ new = "BLOCKED" -> remove(l, q)
    [] CanSet(st, q, new) /\ new = "READY"   -> push(l, q)

(* setNextPID(): the first empty slot from next_pid on, wrapping around.   *)
(* With no empty slot its loop never ends, and CreateFault says so.        *)
Free(st) == {p \in Pid : st[p] = "FREE"}

Least(S) == CHOOSE p \in S : \A q \in S : p <= q

setNextPIDTooEarly(st, from) == from

setNextPID(st, from) ==
  LET later == {p \in Free(st) : p >= from}
  IN  IF later # {} THEN Least(later)
      ELSE IF Free(st) # {} THEN Least(Free(st)) ELSE from

-----------------------------------------------------------------------------
(* Creation.                                                               *)

(* createProcess() up to the end of its critical section, for parent p.    *)
(* The requests it refuses change nothing and are no step.                 *)
CreateInSlot(p, r) ==
  LET c == next_pid
  IN  /\ process_count < MaxProcesses
      /\ r.fg => isFg[p]
      /\ Len(children[p]) < MaxSpawns[program[p]]
      /\ ready_processes' = queue(ready_processes, c)
      /\ p_state' = [p_state EXCEPT ![c] = "READY"]
      /\ priority' = [priority EXCEPT ![c] = r.priority]
      /\ parent_pid' = [parent_pid EXCEPT ![c] = p]
      /\ waiting_pid' = [waiting_pid EXCEPT ![c] = 0]
      /\ program' = [program EXCEPT ![c] = r.main]
      /\ children' = [[children EXCEPT ![p] = Append(@, c)] EXCEPT ![c] = <<>>]
      /\ isFg' = [isFg EXCEPT ![p] = @ /\ ~r.fg, ![c] = r.fg]
      /\ fg_pid' = IF r.fg THEN c ELSE fg_pid
      /\ stdin_reader' = IF r.fg THEN c ELSE stdin_reader
      /\ process_count' = process_count + 1
      /\ UNCHANGED <<running_pid, remaining_rounds>>

(* A slot in use gets a second PCB, a child is written behind the end of   *)
(* PCB.children, or no slot is left to look for: the model stops there.    *)
CreateFault(p, st) ==
  IF p_state[next_pid] # "FREE" THEN "overwritten"
  ELSE IF Len(children[p]) >= MaxChildren THEN "overflow"
  ELSE IF Free(st) = {} THEN "hang" ELSE fault

createProcess(p, r) ==
  /\ CreateInSlot(p, r)
  /\ next_pid' = setNextPID(p_state', next_pid)
  /\ fault' = CreateFault(p, p_state')
  /\ UNCHANGED pc

-----------------------------------------------------------------------------
(* Death.  kill() in the order of its statements, as operators on the      *)
(* states st and the ready list l reached so far.                          *)

UnlinkBlockedToo(l, q) == remove(l, q)

Unlink(l, q) == IF p_state[q] # "BLOCKED" THEN remove(l, q) ELSE l

IsParentThere(st, q) == st[parent_pid[q]] # "FREE"

IsWaitingForIt(st, q) == IsParentThere(st, q) /\ waiting_pid[parent_pid[q]] = q

IsWaitingFor(st, q) ==
  st[parent_pid[q]] # "FREE" /\ waiting_pid[parent_pid[q]] \in {q, ANY}

Notify(st, q) ==
  IF IsWaitingFor(st, q) THEN SetState(st, parent_pid[q], "READY") ELSE st

NotifyNoList(st, l, q) == l

NotifyList(st, l, q) ==
  IF IsWaitingFor(st, q) THEN SetStateList(st, l, parent_pid[q], "READY") ELSE l

(* The keyboard goes back to the parent of a foreground process.           *)
HandsOverIfAwaited(q) == isFg[q] /\ IsWaitingFor(p_state, q)

HandsOver(q) == isFg[q] /\ p_state[parent_pid[q]] # "FREE"

HandOver(q, fg) ==
  /\ isFg' = IF HandsOver(q) THEN [fg EXCEPT ![parent_pid[q]] = TRUE] ELSE fg
  /\ fg_pid' = IF HandsOver(q) THEN parent_pid[q] ELSE fg_pid
  /\ stdin_reader' = IF HandsOver(q) THEN parent_pid[q] ELSE stdin_reader

(* The processes named in children[] are given to the parent of q.         *)
ReparentedButLast(st, q) ==
  [c \in Pid |-> IF (\E i \in 1 .. Len(children[q]) - 1 : children[q][i] = c) /\ st[c] # "FREE"
                 THEN parent_pid[q] ELSE parent_pid[c]]

Reparented(st, q) ==
  [c \in Pid |-> IF (\E i \in 1 .. Len(children[q]) : children[q][i] = c) /\ st[c] # "FREE"
                 THEN parent_pid[q] ELSE parent_pid[c]]

(* The PCB and the node go back to the allocator.  What a freed slot holds *)
(* is of no meaning, and is written as in Init.                            *)
FreeProcess(q, parents) ==
  /\ parent_pid' = [parents EXCEPT ![q] = TRIVIAL]
  /\ waiting_pid' = [waiting_pid EXCEPT ![q] = 0]
  /\ children' = [children EXCEPT ![q] = <<>>]
  /\ program' = [program EXCEPT ![q] = "trivial"]
  /\ pc' = [pc EXCEPT ![q] = "user"]
  /\ process_count' = process_count - 1
  /\ UNCHANGED next_pid

(* A node freed while the ready list still leads to it is read later.      *)
FreeFault(l, q) == IF Unlinked(l, q) THEN fault ELSE "dangling"

Leave(st, l, q) ==
  IF q = running_pid
  THEN schedule(st, memFree(l, q), FreeFault(l, q))
  ELSE /\ ready_processes' = memFree(l, q)
       /\ fault' = FreeFault(l, q)
       /\ p_state' = st
       /\ priority' = [priority EXCEPT ![q] = 0]
       /\ UNCHANGED <<running_pid, remaining_rounds>>

(* kill() with interrupts off: by a system call or by ctrl-C.              *)
kill(q) ==
  LET dead  == [p_state EXCEPT ![q] = "TERMINATED"]
      woken == Notify(dead, q)
      list  == NotifyList(dead, Unlink(ready_processes, q), q)
  IN  /\ q > 2 /\ p_state[q] # "FREE"
      /\ Leave([woken EXCEPT ![q] = "FREE"], list, q)
      /\ HandOver(q, [isFg EXCEPT ![q] = FALSE])
      /\ FreeProcess(q, Reparented(woken, q))

-----------------------------------------------------------------------------
(* The steps of the running process p.                                     *)

Running(p, at) == p = running_pid /\ pc[p] = at

(* Does the program of p, in user code, make this call?                    *)
Doing(p, call) == Running(p, "user") /\ p # TRIVIAL /\ call \in Calls[program[p]]

(* Does it name process q, from its own createProcess() or at the user's   *)
(* command?                                                                *)
DoingTo(p, q, call) ==
  /\ Doing(p, call)
  /\ Aims[program[p]] = "any" \/ \E i \in 1 .. Len(children[p]) : children[p][i] = q

Create(p) == \E r \in Spawns[program[p]] : Doing(p, "create") /\ createProcess(p, r)

(* trivial() creates init with interrupts on; the slot of the next process *)
(* is looked for after the critical section of createProcess().            *)
BootCreate ==
  /\ Running(TRIVIAL, "boot")
  /\ \E r \in Spawns["trivial"] : CreateInSlot(TRIVIAL, r)
  /\ pc' = [pc EXCEPT ![TRIVIAL] = "set_next"]
  /\ UNCHANGED <<next_pid, fault>>

BootSetNext ==
  /\ Running(TRIVIAL, "set_next")
  /\ next_pid' = setNextPID(p_state, next_pid)
  /\ fault' = IF Free(p_state) = {} THEN "hang" ELSE fault
  /\ pc' = [pc EXCEPT ![TRIVIAL] = "user"]
  /\ UNCHANGED <<table, family, terminal, process_count>>

Yield(p) ==
  /\ Doing(p, "yield")
  /\ schedule(p_state, ready_processes, fault)
  /\ UNCHANGED <<family, terminal, slots, pc>>

(* setState() of some process, BLOCKED or READY.  Who blocks itself is     *)
(* switched out.                                                           *)
ChangeState(p, q, new) ==
  LET st   == SetState(p_state, q, new)
      list == SetStateList(p_state, ready_processes, q, new)
  IN  /\ CanSet(p_state, q, new)
      /\ IF new = "BLOCKED" /\ q = p
         THEN schedule(st, list, fault)
         ELSE /\ p_state' = st /\ ready_processes' = list
              /\ UNCHANGED <<running_pid, remaining_rounds, priority, fault>>
      /\ UNCHANGED <<family, terminal, slots>>

Block(p, q)   == DoingTo(p, q, "block") /\ ChangeState(p, q, "BLOCKED") /\ UNCHANGED pc
Unblock(p, q) == DoingTo(p, q, "unblock") /\ ChangeState(p, q, "READY") /\ UNCHANGED pc

(* A semaphore puts its caller to sleep, and wakes a sleeper.              *)
Sleep(p) ==
  /\ Doing(p, "sleep") /\ ChangeState(p, p, "BLOCKED")
  /\ pc' = [pc EXCEPT ![p] = "sleep"]

Sleeper(q) == pc[q] = "sleep" /\ p_state[q] = "BLOCKED"

Wake(p, q) ==
  Doing(p, "wake") /\ Sleeper(q) /\ ChangeState(p, q, "READY") /\ UNCHANGED pc

(* setPriority().                                                          *)
Nice(p, q, new) ==
  /\ DoingTo(p, q, "nice") /\ q # TRIVIAL /\ p_state[q] # "FREE"
  /\ priority' = [priority EXCEPT ![q] = new]
  /\ UNCHANGED <<running_pid, remaining_rounds, p_state, ready_processes,
                 family, terminal, slots, pc, fault>>

(* waitPid(): of the process created last, or of any child.  The state of  *)
(* the child is not looked at.                                             *)
waitPid(p, q) ==
  /\ schedule([p_state EXCEPT ![p] = "BLOCKED"], remove(ready_processes, p), fault)
  /\ waiting_pid' = [waiting_pid EXCEPT ![p] = q]
  /\ pc' = [pc EXCEPT ![p] = "wait"]
  /\ UNCHANGED <<parent_pid, children, program, terminal, slots>>

Wait(p) ==
  /\ children[p] # <<>>
  /\ \/ Doing(p, "wait") /\ waitPid(p, children[p][Len(children[p])])
     \/ Doing(p, "wait_any") /\ waitPid(p, ANY)

(* Back from the kernel once scheduled again.                              *)
Return(p) ==
  /\ p = running_pid /\ pc[p] \in {"wait", "sleep"}
  /\ pc' = [pc EXCEPT ![p] = "user"]
  /\ UNCHANGED <<table, family, terminal, slots, fault>>

Kill(p, q) == DoingTo(p, q, "kill") /\ kill(q)

-----------------------------------------------------------------------------
(* The end of main_func: runProcess() kills the running process from       *)
(* ordinary code, interrupts on, statement by statement.                   *)

ExitUnlink(p) ==
  /\ Doing(p, "exit") /\ p > 2
  /\ ready_processes' = Unlink(ready_processes, p)
  /\ pc' = [pc EXCEPT ![p] = "terminate"]
  /\ UNCHANGED <<running_pid, remaining_rounds, p_state, priority,
                 family, terminal, slots, fault>>

ExitTerminate(p) ==
  /\ Running(p, "terminate")
  /\ p_state' = [p_state EXCEPT ![p] = "TERMINATED"]
  /\ pc' = [pc EXCEPT ![p] = "notify"]
  /\ UNCHANGED <<running_pid, remaining_rounds, ready_processes, priority,
                 family, terminal, slots, fault>>

ExitNotify(p) ==
  /\ Running(p, "notify")
  /\ p_state' = Notify(p_state, p)
  /\ ready_processes' = NotifyList(p_state, ready_processes, p)
  /\ pc' = [pc EXCEPT ![p] = "hand_over"]
  /\ UNCHANGED <<running_pid, remaining_rounds, priority, family, terminal, slots, fault>>

ExitHandOver(p) ==
  /\ Running(p, "hand_over")
  /\ HandOver(p, isFg)
  /\ pc' = [pc EXCEPT ![p] = "reparent"]
  /\ UNCHANGED <<table, family, slots, fault>>

ExitReparent(p) ==
  /\ Running(p, "reparent")
  /\ parent_pid' = Reparented(p_state, p)
  /\ pc' = [pc EXCEPT ![p] = "free"]
  /\ UNCHANGED <<table, waiting_pid, children, program, terminal, slots, fault>>

ExitFree(p) ==
  /\ Running(p, "free")
  /\ Leave([p_state EXCEPT ![p] = "FREE"], ready_processes, p)
  /\ isFg' = [isFg EXCEPT ![p] = FALSE]
  /\ FreeProcess(p, parent_pid)
  /\ UNCHANGED <<fg_pid, stdin_reader>>

Exit(p) == \/ ExitUnlink(p) \/ ExitTerminate(p) \/ ExitNotify(p)
           \/ ExitHandOver(p) \/ ExitReparent(p) \/ ExitFree(p)

-----------------------------------------------------------------------------
(* The interrupts.                                                         *)

InterruptsOn ==
  \/ pc[running_pid] \in {"user", "boot"}
  \/ pc[running_pid] = "set_next" /\ "boot" \in Windows
  \/ pc[running_pid] \in ExitSteps /\ "exit" \in Windows

Tick ==
  /\ InterruptsOn
  /\ IF remaining_rounds > 0
     THEN /\ remaining_rounds' = remaining_rounds - 1
          /\ UNCHANGED <<running_pid, p_state, priority, ready_processes, fault>>
     ELSE schedule(p_state, ready_processes, fault)
  /\ UNCHANGED <<family, terminal, slots, pc>>

(* A key reaches the process that sleeps on the keyboard.                  *)
KeyWake(q) ==
  /\ InterruptsOn /\ "char" \in Keys /\ Sleeper(q)
  /\ ChangeState(running_pid, q, "READY")
  /\ UNCHANGED pc

(* ctrl-C: killFG().                                                       *)
CtrlC == InterruptsOn /\ "ctrl_c" \in Keys /\ kill(fg_pid)

-----------------------------------------------------------------------------
Kernel(p) == Return(p) \/ Exit(p)

Syscall(p) ==
  \/ Create(p) \/ Yield(p) \/ Sleep(p) \/ Wait(p)
  \/ \E q \in Pid : \/ Kill(p, q) \/ Block(p, q) \/ Unblock(p, q) \/ Wake(p, q)
                    \/ \E new \in 0 .. QtyPriorities - 1 : Nice(p, q, new)

Boot == BootCreate \/ BootSetNext

Interrupt == Tick \/ CtrlC \/ \E q \in Pid : KeyWake(q)

Next ==
  /\ fault = "none"
  /\ \/ Boot
     \/ Interrupt
     \/ \E p \in Pid : Syscall(p) \/ Kernel(p)

Spec == Init /\ [][Next]_vars

(* The timer keeps ticking and the processor keeps executing the kernel;   *)
(* no program has to make any call.                                        *)
Fairness ==
  /\ WF_vars(fault = "none" /\ Tick)
  /\ WF_vars(fault = "none" /\ (Boot \/ \E p \in Pid : Kernel(p)))

FairSpec == Spec /\ Fairness

-----------------------------------------------------------------------------
(* Every variable has its type.                                            *)
PState == {"FREE", "READY", "RUNNING", "BLOCKED", "TERMINATED"}
Place  == {"user", "boot", "set_next", "wait", "sleep"} \cup ExitSteps
Fault  == {"none", "overwritten", "overflow", "hang", "dangling"}

TableType ==
  /\ ready_processes \in ListOf(Pid)
  /\ running_pid \in Pid
  /\ remaining_rounds \in 0 .. QtyPriorities
  /\ p_state \in [Pid -> PState]
  /\ priority \in [Pid -> 0 .. QtyPriorities - 1]

FamilyType ==
  /\ parent_pid \in [Pid -> Pid]
  /\ waiting_pid \in [Pid -> Pid \cup {ANY}]
  /\ children \in [Pid -> Seq(Pid)]
  /\ program \in [Pid -> Main]

TerminalType == fg_pid \in Pid /\ isFg \in [Pid -> BOOLEAN] /\ stdin_reader \in Pid

SlotsType == next_pid \in Pid /\ process_count \in Int

TypeOK ==
  /\ TableType /\ FamilyType /\ TerminalType /\ SlotsType
  /\ pc \in [Pid -> Place] /\ fault \in Fault

(* One processor: no process but running_pid is ever marked RUNNING, and   *)
(* the running process is never one that is blocked.  schedule(), a waking *)
(* parent and a kill from an interrupt all write p_state.                  *)
SingleRunning ==
  /\ \A p \in Pid : p_state[p] = "RUNNING" => p = running_pid
  /\ p_state[running_pid] # "BLOCKED"

(* process_count counts the entries of the table, and next_pid names an    *)
(* empty one, which createProcess() relies on when it looks at the count   *)
(* alone.                                                                  *)
SlotsOK ==
  fault = "none" =>
    /\ process_count = Cardinality(Live)
    /\ pc[TRIVIAL] # "set_next" => p_state[next_pid] = "FREE"

(* The ready list holds exactly the processes that can run, each once, and *)
(* its links agree in both directions.  A process between the first two    *)
(* statements of its exit is out of the list and still marked RUNNING.     *)
Listed == {p \in Runnable : pc[p] # "terminate"}

ReadyListOK == fault = "none" => Links(ready_processes, Listed)

(* The keyboard belongs to one live process: the only one marked isFg is   *)
(* fg_pid, and it is the reader of stdin.  While a process hands the       *)
(* keyboard over and dies, both are marked.                                *)
ForegroundOK ==
  fault = "none" =>
    /\ p_state[fg_pid] # "FREE" /\ isFg[fg_pid] /\ stdin_reader = fg_pid
    /\ \A p \in Live : isFg[p] => p = fg_pid \/ pc[p] \in {"reparent", "free"}

(* The programs of the image: init creates one process, the shell, and     *)
(* what a command of the shell creates creates nothing.                    *)
UserTree ==
  /\ \A r1 \in Spawns["trivial"] : MaxSpawns[r1.main] <= 1
  /\ \A r1 \in Spawns["trivial"] : \A r2 \in Spawns[r1.main] : \A r3 \in Spawns[r2.main] :
       \A r4 \in Spawns[r3.main] : Spawns[r4.main] = {}

(* They block and unblock only their own children, but for the command     *)
(* block, which may name any process; and what kills does not wait.        *)
UserCalls ==
  \A m \in Main : /\ "unblock" \in Calls[m] => Aims[m] = "children"
                  /\ "kill" \in Calls[m] => {"wait", "wait_any"} \cap Calls[m] = {}

(* The parent that kill() will notify and hand the keyboard to exists.     *)
ParentAlive == fault = "none" => \A p \in Live : p_state[parent_pid[p]] # "FREE"

(* Every entry of the table is ready, running or blocked, as the comment   *)
(* of getProcessArray() says, unless it is dying on the processor.         *)
NoZombie == \A p \in Pid : p_state[p] = "TERMINATED" => p = running_pid

(* The scheduler implements the processor of module Cpu: it only runs what *)
(* can run, and idles only when nothing can.                               *)
Processor == INSTANCE Cpu
  WITH Process <- Pid \ {TRIVIAL}, Idle <- TRIVIAL, runnable <- Runnable, current <- running_pid

RunsRunnable == Processor!Spec

(* A process that waits for a child stays asleep until that child is dead, *)
(* or until it is killed itself.                                           *)
WaitsForDeath ==
  [][\A p \in Pid : (pc[p] = "wait" /\ waiting_pid[p] # ANY
                       /\ p_state[p] = "BLOCKED" /\ p_state'[p] \notin {"BLOCKED", "FREE"})
        => p_state'[waiting_pid[p]] \in {"TERMINATED", "FREE"}]_vars

(* A ready process eventually gets the processor or stops being ready.     *)
NoStarvation == \A p \in Pid \ {TRIVIAL} : p_state[p] = "READY" ~> p_state[p] # "READY"

(* The death of a child its parent sleeps on ends the sleep.               *)
DeathSeen(p) ==
  \E q \in Pid : /\ p_state[q] = "TERMINATED" /\ parent_pid[q] = p
                 /\ pc[p] = "wait" /\ waiting_pid[p] \in {q, ANY}

DeathIsReported == \A p \in Pid : DeathSeen(p) ~> pc[p] # "wait"
=============================================================================
