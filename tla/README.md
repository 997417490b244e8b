# SO_TP2: a verification project

SO_TP2 is a small 64-bit kernel (on the x64BareBones skeleton) with processes,
a preemptive priority scheduler, semaphores, pipes, two memory allocators, a
shell and a set of user programs that double as tests of the kernel.  This
directory holds TLA+ models of its core, translated from the C and assembly
code under `src/x64barebones/`, the TLC runs that check them and proofs of the
most important theorems.  Paths below are relative to `src/x64barebones/`.

Contents

1. The system: components, state, operations, what is hard
2. The modules and how they correspond to the code
3. The runs: questions, answers, bounds, fairness
4. The proofs
5. Disagreements found while modelling
6. What is left out and why
7. What comes next

## 1. The system

| component | state | operations | used by |
|---|---|---|---|
| linked list (`Kernel/linkedList.c`) | `first`, `last`, `prev`/`next` of each node | `queue`, `push`, `pop`, `remove` | scheduler (ready list), semaphores (queues of pids) |
| scheduler (`Kernel/scheduler.c`) | `processes[]`, ready list, `running_pid`, `next_pid`, `process_count`, `fg_pid`, `remaining_rounds` | `schedule`, `setState`, `setPriority`, `createProcess`, `kill`, `killCurrent`, `killFG`, `waitPid`, `yield` | timer, system calls, semaphores, keyboard |
| PCB (`Kernel/process.c`) | state, priority, parent, children, `waiting_pid`, foreground flag, stack, 3 descriptors | `initializeProcess`, `runProcess`, `freeProcess`, `isWaiting` | scheduler |
| interrupts (`Kernel/asm/interrupts.asm`, `idtLoader.c`, `irqDispatcher.c`, `time.c`) | the interrupt flag, the frame of the interrupted process | timer, keyboard, `int 80h` | everything |
| semaphores (`Kernel/semaphores.c`) | `sems[]`: name, value, lock, two queues | `newSemaphore`, `semWait`, `semPost`, `semDestroy` | user programs, file descriptors |
| file descriptors and pipes (`Kernel/fileDescriptor.c`) | ring buffer, `used`, readers and writers, three semaphores each | open, close, read, write, `clearSTDIN` | shell, keyboard, exit |
| memory manager (`Kernel/memoryManager/`) | `freeList.c`: a list of free blocks by address; `buddy.c`: a list of free blocks for each power of two (one of them is built in) | `memInit`, `memAlloc`, `memFree` | kernel and programs |
| keyboard (`Kernel/keyboardDriver.c`) | modifier keys | scan code to stdin, bytes of stdin to a character, ctrl-C, ctrl-D | stdin |
| system calls (`Kernel/sysCallDispatcher.c`) | none | dispatch | programs |
| console, video, audio | screen, speaker | output | |
| user programs (`Userland/`) | the shell's line and `arguments`, philosophers' table, test counters | shell, commands, `test_*`, `philosophers` | |

How they interact.  A program enters the kernel by `int 80h`, whose gate is an
interrupt gate: the call runs with interrupts off until it returns or switches
processes.  The timer calls `schedule()` every tick, the keyboard feeds stdin or
kills the foreground process.  Three things break this simple picture, and they
are where the hard behaviour is:

- *Sleeping in the middle of a call.*  `semWait()` and `waitPid()` mark their
  caller BLOCKED and switch; the rest of the call runs when somebody has made
  it READY again, with whatever has happened in between.
- *Kernel code with interrupts on.*  A process that returns from its main
  function kills itself from ordinary code (`runProcess()` calls `killCurrent()`
  directly on a frame with flags `0x202`), and the first process boots the
  system likewise.  A tick may fall between any two statements there.
- *Death at any moment.*  `kill` and ctrl-C end a process wherever it is: with a
  fork in its hand, in a semaphore's queue, awaited by its parent, owning the
  keyboard.

What makes each component correct:

- linked list: the links in both directions agree and lead through exactly the
  members;
- scheduler: one process on the processor; the ready list holds exactly what
  can run; nothing ready starves; slots and their count agree; a death is
  reported to the parent that waits for it; the keyboard has one live owner;
- semaphores: never more permits than were given; no wake-up lost; no use after
  `semDestroy()`;
- user programs: `test_sync` prints 0, its workers end; no fork is in two hands,
  the table does not jam, and closing it leaves nobody;
- shell: what it starts is what the line says, whatever was typed before; the
  prompt comes back when both sides of a pipe have ended; the line on the screen
  is the line that will be executed;
- descriptors: a pipe is a bounded FIFO, its end of file arrives, it is freed
  under nobody's call; stdin is a bounded type-ahead that forgets only the oldest
  key, and who waits for a key is who owns the keyboard;
- allocators: blocks tile the heap, no byte has two owners, free neighbours are
  joined, and what a program wrote into its block stays there.

`PROJECT.json` lists every hazard at its line with the properties that watch it.

## 2. The modules

| module | models | lines it follows |
|---|---|---|
| `LinkedList` | the list as a record `first`, `last`, `next`, `prev`; `Links(l, S)` says what a proper list of S is | `linkedList.c` |
| `Cpu` | abstract: one processor, a set of runnable processes, an idle process | (a promise, no code) |
| `Scheduler` | table, ready list, PCBs, timer, keyboard interrupts, exit | `scheduler.c`, `process.c`, the calls of `sysCallDispatcher.c` |
| `UserPrograms` | which calls each program makes, on whom, and what it starts | `Userland/` |
| `SchedulerMC` | instantiates `Scheduler` with those programs | |
| `Semaphores` | the operations of semaphores as actions for other modules | `semaphores.c` |
| `TestSync` | the program `test_sync`, statement by statement | `Testing/test_sync.c` |
| `Philosophers` | host and philosophers, statement by statement | `Philosophers/philosophers.c` |
| `Channel` | abstract: a bounded channel with an end | (a promise, no code) |
| `Pipe` | `p1 \| p2`: one descriptor with its ring buffer and three semaphores, the writer and the reader up to their exits, `createProcess()` and `waitPid()` of the shell for them | `fileDescriptor.c`, the closing in `kill()`, `Shell/userApps.c` |
| `CommandLine` | operators: from the words of a line to the commands of the shell | `parseArgs`, `hasPipe`, `prepareCommands`, `getCommand` of `Shell/shell.c` |
| `Pipeline`, `PipelineMC` | the shell: line after line, what it starts, the pipe, the waits; composes `Pipe` and `CommandLine`.  The MC module has the lines | `startCommand` of `Shell/shell.c` |
| `TypeAhead` | abstract: keys wait in order, the oldest may be forgotten | (a promise, no code) |
| `Terminal`, `TerminalMC` | stdin from the keyboard interrupt to the shell's line editor and to the commands that read it.  The MC module has the keys | `keyboardDriver.c`, stdin in `fileDescriptor.c`, the loop of `shell()`, `cat`, `filter`, `wc` |
| `Allocator` | abstract: blocks in the heap, each with one owner | (`include/memoryManager.h`) |
| `FreeList` | the allocator of `make all` | `memoryManager/freeList.c` |
| `Buddy` | the allocator of `make buddy` | `memoryManager/buddy.c` |
| `TestMM` | several `test_mm` at once on either allocator, with kills; composes `FreeList` and `Buddy` | `Testing/test_mm.c` |
| `SchedulerProofs`, `ProcessProofs` | theorems on the linked list and on the types, slots and switches of the scheduler; on the ready list, the tree of processes, the keyboard and the waits | |
| `TestSyncProofs`, `PhilosophersProofs`, `TerminalProofs`, `PipeProofs` | theorems on the module of that name | |
| `MemoryProofs` | theorems on `FreeList`, on `Buddy` and on `TestMM` | |
| `CommonProofs` | lemmas on semaphores and on ring buffers of any length, for four of these | |

**Scheduler.**  A slot p of `processes[]`, its list node and its PCB are the
value of the arrays at p; `p_state[p] = "FREE"` is a NULL entry.  A system call
or an interrupt handler is one action that makes all the changes up to the
return or the switch: `kill(q)` unlinks, marks, notifies the parent, hands the
keyboard over, re-parents the children, frees, and (for the running process)
schedules, in the order of the code, each step an operator on the states that
the one before has left.  The same operators make up the exit of a process, but
there each statement is an action (`ExitUnlink` ... `ExitFree`) because
interrupts are on.  The constant `Windows` says whether ticks and keys may fall
between them ("exit") and between the statements of the boot ("boot"): the code
allows both; with `Windows = {}` one sees what would hold if they were
protected, and that the rest of the scheduler is right.  `pc[p]` is where a
process stands in the kernel.  Programs are the constant `Calls`/`Aims`/`Spawns`:
a process in user code may make any call of its program at any moment, in any
order, or none.

**Semaphores.**  Because a call runs with interrupts off and opens the lock
before it sleeps, no call finds the lock taken: `newSemaphore`, `semPost`,
`semDestroy` and each turn of the loop of `semWait` are one step.  `inside[s]` is
who is in that loop; `queue[s]` are the pids, with the entries of dead processes
that `releaseFirstP()` skips.  `lost` holds processes that were inside of a
semaphore when it was freed: what they do next is undefined, the models let
them do nothing and have invariants that say there are none where the program
promises it.  `p_state` has READY for RUNNING as well: with a timer that may fall
between any two statements of user code, any ready process may take the next
step, and `Scheduler` is the module that shows that each of them will.

**Pipe, CommandLine, Pipeline.**  A write of one byte is four steps (`WaitToWrite`
for a place and for the mutex, `Put`, `Written`), a read likewise.  `closeFd` is
what the exit of either end does; the writer's writes one more byte, EOF, and may
sleep for it on a full buffer.  The bytes are numbered, so that their order is
visible, and the refinement mapping gives `Channel` the bytes between `readIdx`
and `writeIdx`.  The exit of an end runs with interrupts on and is one step a
statement: `Die` takes it out of the ready list and marks it TERMINATED, `TellParent`
wakes the shell, `HandKeyboard` gives the keyboard back, `closeFd` closes, `Exit` frees.
From `Die` on it is not in the list and runs only because it has the processor
(`exiting`), so a `Tick` leaves it where it is for ever.  If the writer sleeps in its
last write, `setState(BLOCKED)` takes its node out a second time with old links,
which may take the shell out that was just put in front (`dropped`), and
the post that wakes it puts it in the list (`relisted`), in which it must not be when it
is freed: there the model stops (`WRECK`).  A line is the sequence of its words, which is what
`parseArgs()` makes of it; the characters of a word are not modelled.  The array
`arguments` keeps the words of older lines behind those of the new one, and
`argAux` copies them along with the second side of a pipe, up to an entry that
was never used.  `getCommand` gives the *set* of what it may return: `test mm` and
`test processes` compare a number that `strToInt()` may have left unset.
`Meaning(line)` is the reference definition, of the line alone.  `Pipeline` runs a
few lines one after the other; its steps are the calls of `startCommand()`: open
the descriptor, create one side, create the other, wait once or twice, and the
two sides are on their way between any two of them.

**Terminal.**  The keyboard interrupt and each system call run with interrupts
off, so they are one step, up to the only place where they sleep:
`semWait(semReadName)`.  The mutexes of the descriptor and of `print` are taken
and given back inside of such a step and are left out.  A key is a name and a
bit for its release; of the decoding the model keeps whether a key has a
character, whether it takes two bytes, and the special keys.  `used` is an
`unsigned char`: it is counted modulo `UsedSpan`.  `buffer` is the line as it lies in
memory and `shown` what has been printed of it.  A command in the foreground is a
new process each time; one process stands for all of them.

**Allocator, FreeList, Buddy, TestMM.**  An address is a number of bytes, with the
real header, the minimal block and the rounding of the code; the free list is
the sequence of its blocks in the order of the list.  In `Buddy` a block is its
distance from `firstAddress`, `taken` its level from the header.  The two recursive
functions of `buddy.c` are written by the level where each ends, because the
recursion goes one level at a time and does the same thing at each: `memAllocRec()`
climbs to the first list that has a block (`Stocked`) and leaves one half at every
level on its way down; `memFreeRec()` climbs for as long as the buddy of what the block
has grown to (`Grown`) is in a list, and takes that buddy out of it.  `TestMM` has the
loops of `test_mm()` with one block a turn.  Of the contents of the memory it keeps
which blocks still have their pattern, and takes it from every block that a
write reaches: a pattern of another test, or a header of the allocator.  A
test that is killed leaves its blocks allocated for ever (`leaked`).

**TestSync, Philosophers.**  One action for each statement that reads or writes
something shared, and one for each system call.

**Variants.**  Some operators are preceded by a second version with a mistake
(`RequeuedOnTop`, `semPostSilent`, `VictimTooFar`, ...).  No action uses one.  Put in
the place of the operator after it, it makes a property of a run fail:
`PROJECT.json` lists them under "mutants", and they show that each property
depends on the code it is about.

## 3. The runs

Passing runs:

| run | instance | shows |
|---|---|---|
| `sched_shell` | 6 slots, trivial, init, shell and two commands, fore- or background; characters and ctrl-C; no windows | `TypeOK`; `ReadyListOK`: the ready list is exactly the runnable processes, its links sound; `SlotsOK`: the count and the slots agree; `ForegroundOK`: one live owner of the keyboard, who is also the reader of stdin; `SingleRunning`; `WaitsForDeath`: `waitPid(p)` is left only when p is dead, or by a kill of who waits; `RunsRunnable`: the scheduler implements `Cpu` under the refinement mapping `runnable <- Runnable, current <- running_pid` |
| `sched_test` | 7 slots, two priorities, one of `test_processes`, `test_prio`, `test_sync`; ctrl-C | `ParentAlive` with block, unblock and re-parenting, and under fairness `NoStarvation` and `DeathIsReported` |
| `test_sync` | two pairs, two rounds each | `TypeOK`, `Exclusion`, `NoLostWakeup`, `NobodyLeft`, `FinalValue`, and under fairness `WorkersEnd` |
| `philo_table` | five philosophers, no keys | `ForksExclusive`; no deadlock (checked by TLC); `SomebodyEats` |
| `philo_guests` | 2 to 3 seats, 3 guests, add, remove and close at any time | `TypeOK`; `TableGuarded`: a victim never takes the guard with it; `NobodyStays` after closing; `NeverJams` |
| `pipe` | a buffer of 3, 5 bytes, two lines out of 13 | `TypeOK`; `BoundedFifo`: the pipe implements `Channel`; `NobodyInFreed`; `LineAlone`: what is started is what the line means by itself; `PromptMeansDone`: the prompt is back after a pipe when both sides have ended, unless the end of a background job has used up a wait; under fairness `EndArrives`: both ends get through their exit, unless the writer was gone before the reader was created (then each read of the reader fails: `cat` and `filter` end after 4096 of them, `wc` never), or a tick has cut an exit short, or an exit has left a freed node in the ready list, because it slept on a full pipe or a tick put it back |
| `terminal` | stdin of 2 bytes, a line of 3, 7 keys with ctrl-C and ctrl-D | `TypeOK`; `PermitsMatch`: one permit for each byte; `ReaderAsks`: who waits for a key owns the keyboard and lives; `LineShown`; `TypeAheadKept`: stdin implements `TypeAhead`; under fairness `KeysAreRead` when the keys stop |
| `memory` | a heap of 640 bytes, two tests with two blocks each, either allocator, one kill, up to the first fill of a refusal that reaches the heap | `TypeOK`; `HeapTiled`, `Coalesced` of the free list; `BuddiesTile` of the buddies; `PatternsSurvive`: no test finds its block changed; `KeepsPromise`: both implement `Allocator` |

Violation runs, each for a line of the repository that the code does not keep
(section 5): `sched_zombie`, `memory_refused`, `keyboard_arrows`.

Bounds, all named:

- `MaxProcesses` 6 or 7 instead of 128: three slots are trivial, init and the
  shell, the rest are commands or a test with its children.  Slots are used
  again after a death, so `next_pid` wraps; the table never fills in these
  instances (`MaxSpawns` bounds what each process creates).
- `MaxSpawns`: one or two commands of the shell, two children of a test.  Two
  children are needed for one to die while the parent sleeps on the other, and
  for re-parenting more than one.  With four commands, so that the pid of a dead
  one is given to another, `ReadyListOK` fails in one order of events that
  section 5 tells; the theorems of section 4 say exactly when it holds.
- `QtyPriorities` 1 or 2 instead of 4: with 1, every process has priority 0 and a
  round after the switch; 2 makes processes age and `nice` matter.
- `Pairs`, `N` 2 in `test_sync`: four workers, so that a newcomer, a woken worker
  and two sleepers exist at once; the second round sends a worker through the
  semaphore after it has posted.
- `MIN_PHILO` is 5 and `MAX_PHILOS` larger in the code; `philo_table` has the five,
  the run with guests is smaller because what it is about (a killed
  neighbour, a fork not yet created, a full and a minimal table) happens with
  three.  `MaxGuests` bounds the processes the host ever creates.
- `pipe`: `BUFF_SIZE` 3 instead of 128 and `MaxBytes` 5, less than the 4096 bytes after
  which `cat` and `filter` stop reading: with the EOF both indices
  wrap twice, and the buffer is empty, full and anything between at every
  one of them.  `MAX_ARGS` 4, so that a line can be too long; `MaxLines` 2, since
  what a line leaves behind shows in the next one; the 13 lines have a command
  alone, in the background, refused, both sides, one side missing or refused, an
  `&` before the bar, and words of each kind for a shorter line to leave.  One
  pipe and one job at a time.
- `terminal`: `BUFF_SIZE` 2 (stdin), `LINE` 3, `CHAIN` 1, `UsedSpan` 8 instead of 256:
  stdin is empty, full and overwritten at each index, a line is full and
  erased, a command stops at its limit and at the end of file.  Keys are two
  letters, which mean something with ctrl, enter, backspace, ctrl down and up and a
  key without a character.  `keyboard_arrows` needs 4 places for an arrow and an
  older key.
- `memory`: the headers, the minimum and the rounding are those of the code; the
  heap of 640 bytes has room for four of the smallest blocks of the free list (128
  and 24 bytes each, and some left over); the
  buddies have a root of 512 bytes, two levels above the smallest.  Requests of 1 and 113 bytes are below and above what
  the smallest block holds; `MaxMemory` 115 is where a test that holds 1 byte may just
  ask for 113 more.  Four live blocks on two tests and one kill are enough
  for splitting, refusing, joining with either neighbour and both, and for a
  leaked block between two live ones.  The heap starts at 128, so that of the
  two refusals one reaches it and one does not; `memory_refused` has it further up,
  where neither does.  The two tests are symmetric.

Deadlock is checked where the system must go on (`sched_shell`, `sched_test`,
`philo_table`, `terminal`).  It is not in `sched_zombie`, where the
fault states stop the model; in `test_sync`, which ends, and whose parent may wait for ever
(`waitPid()` does not remember the deaths before it); in `philo_guests`, whose host
ends; in `pipe`, where the user stops typing; in `keyboard_arrows`, where the
interrupt handler may sleep for ever; in `memory` and `memory_refused`, whose tests stop at an error or a wreck.

Fairness.

- `Scheduler`: the timer keeps ticking, and the processor keeps executing kernel
  code it is in (the boot, the return from a call, the exit).  No program has
  to make a call, no key has to be pressed.
- `TestSync`, `Philosophers`: weak fairness of each process, which is what
  `NoStarvation` shows of the scheduler, and none for the user's keys.
- `Pipeline`: weak fairness of the shell where it goes on by itself, of the writer
  and of the reader, as long as they are in the ready list or have the processor in their
  exit; no tick need come in an exit.  None for the user's next line, none for a job, which
  may run for ever, and none for a reader of nothing.
- `Terminal`: weak fairness of the shell, of a command's call that reads and of the
  exit of a command that is at its end; none for the keys, and none for a
  command that does something else.
  Semaphores are *not* fair (a newcomer may take the permit of a process that
  was woken), so the liveness properties are of the kind "somebody eats" and
  "all workers end", not "each philosopher eats": that one is false.

Under the environment of `sched_test`, `NoStarvation` and `DeathIsReported` hold
because no two processes keep waking each other; see section 6.

## 4. The proofs

Checked by TLAPS for every value of the constants that satisfies the named
assumptions (`SchedulerAssumption`, `TestSyncAssumption`, `FreeListAssumption`,
`TestMMAssumption`, `PhilosophersAssumption`, `PipeAssumption`,
`CommandLineAssumption`, `PipelineAssumption`, `TerminalAssumption`), and for `ProcessProofs` and `TerminalProofs`
the hypotheses that are named with them.  TLC evaluates each assumption in some
run.

- `SchedulerProofs`, the list.  `Links(l, S)` says that there is an order of S whose
  neighbours are linked both ways.  `QueueLinks`, `PushLinks`, `RemoveLinks`: the
  operations preserve it and add or remove exactly the member, for sets of any
  size.  `LinksIntro`/`LinksElim` turn the order into a bijection and back, once.
- `SchedulerProofs`, the scheduler.  `TypeCorrect`: `TypeOK` is inductive by itself; the only
  facts needed are that `Least` of a nonempty set of pids is in it (by
  well-foundedness of <) and that the list operations keep `ListOf(Pid)`.
  `OneProcessor`: `SingleRunning` with `TypeOK` is inductive, for any programs and
  with interrupts in every window.  The second conjunct, that the running
  process is never BLOCKED, is what the notification of a parent needs.
  `SlotsCorrect`: `SlotsOK` is not inductive, because `ExitFree`
  lowers the count whatever the state of its process is.  The invariant adds
  that the running process has a slot, and that trivial lives (`SlotsInv`), for
  as long as no fault has stopped the machine.  It too holds for every set of
  `Windows`; the run checks the one without.
- `ProcessProofs`.  What the scheduler does to processes, for any table and any
  number of priorities.  Its hypotheses are named, and each is needed:

  | hypothesis | meaning | why |
  |---|---|---|
  | `[][~ExitCut]_vars` | no interrupt falls into an exit but ticks that find rounds left | without it `sched_zombie` refutes `NoZombie`; the code does *not* give it, so these theorems say that such interrupts are the only cause |
  | `UserTree` | the programs form a tree: one init, one shell, commands and their workers, whose workers start nothing | true of `Userland/` (`ProgramsAssumption`, which TLC evaluates); `kill()` does not look below the children |
  | `UserCalls` | only children are unblocked, and what kills does not wait | likewise; `block` is the command that is left out |
  | `NobodyUnblocks` | no program calls unblock | for `WaitsForDeath` only: unblock ends a wait, as it is meant to |
  | `[][~WokenAwake]_vars` | no step sets the RUNNING process READY | such a step pushes its node a second time |
  | `Undisturbed` | no ctrl-C, no interrupt in the boot, `UserCalls` | implies the one above |

  All but `ParentsLive` have the first of them.  `NoZombieUnlessCut`: only a process in its exit is TERMINATED, and it has the
  processor (`ExitOK`).
  `ReadyListSound`: the invariant `ReadyInv` says with it what the list is in the
  middle of an exit, when the process that exits is out of it and still has the
  processor.  `setState()` and each operator that `kill()` is made of have a lemma
  over the list lemmas, and `schedule()` one of its own.
  `ParentsLive`: `ParentAlive` is not inductive, because the kernel gives only the
  *children* of a dead process to its parent, from a list in which
  dead pids stay.  `TreeInv` says where each process stands in the tree of
  `UserTree`, so that who loses its parent has the shell above it.  It holds with
  interrupts in the exit too.
  `ImplementsCpu`: under the refinement mapping every step is a step of `Cpu` or
  leaves its variables alone (`DispatchStep`).  `NeverDangling`: a freed node is
  read only after a process that is out of the list has been put in it again.
  `ForegroundCorrect`: `FgInv` adds to the tree and the exit that who still has
  the foreground flag, but not the keyboard, is about to leave.
  `WaitEndsWithChild`: only a death makes a process READY that waits for one
  (`WaiterWoken`).
  `SoundWithoutCtrlC` discharges `WokenAwake`: `AwakeInv` says that who has ever waited
  has a program that waits, so that the running process, which exits or kills,
  does not notify itself, and that nobody is its own child.
- `CommonProofs`.  What `semPost` and a turn of `semWait` do to the queue, the
  sleepers and the permits, whoever calls them; and the arithmetic of a ring of
  N places: `Slice(N, b, r, n)` is the sequence of the n entries from place r
  on, and `SliceGrows`, `SliceShrinks`, `SliceTurns` say that a write behind it
  appends, a read takes the head, and a write on a full ring does both.  The wrap
  is a case distinction (`Behind`), so that the remainder is only reasoned
  about in two lemmas.
- `TestSyncProofs`.  For any number of workers and rounds: `TestSyncExclusion`,
  `TestSyncNoLostWakeup`, `TestSyncNobodyLeft`, and `TestSyncTypes`.  The
  inductive invariant `IInv` says that the permit is in the semaphore or in one
  worker's hand (`PermitOK`), that the queue holds exactly the sleepers, each once
  (`QueueOK`, which needs that no worker is killed in its sleep), that a free
  permit with a sleeper implies somebody woken (`WakeOK`), and that waits are
  matched by deaths (`WaitsOK`: at most one more than the dead workers, and only
  while the parent sleeps).  That last part gives `NobodyLeft`: the parent
  destroys the semaphore after 2 * Pairs waits, so as many workers are dead, so
  all.  `TestSyncPrintsZero`: the number is the increments less the decrements
  (`SumOK`).  A sum over workers would need an induction; instead each change is
  a pair of worker and round, `Changes(0)` and `Changes(1)` are the sets of those
  made, a write adds one pair, and at the end a bijection takes one set to the other.
- `PhilosophersProofs`.  For any number of seats and guests and any keys.  The
  inductive invariant `HouseInv` has three parts: `TypeInv`; `TableInv`, that the
  permit of `PHILOS_STATE` is in the semaphore or with the one process inside,
  and that the host kills only from inside, so no victim is; and `SeatInv`, that who
  lives has a place in `philos_pid` that the closing host still has to visit.
  They give `RestaurantTyped`, `TableIsGuarded` and `NobodyIsLeft`.  `ForksInOneHand` is
  about `Spec /\ [][~Key]_vars`, the table until the first key: `ForkInv` says that a
  philosopher who asks for a fork has created, or found, the two next to its place
  (`NextToIt`), and that a fork's permit is in the semaphore or in one hand
  (`OneHand`).  After a key it is false (section 5).
- `PipeProofs`.  For a buffer, an argument array and a set of lines of any size and
  up to 4095 bytes (`PipeAssumption`; `cat` and `filter` take no more).  The invariant `PInv` has nine parts.  `PermitsOK` carries
  the argument: the places of the ring are the permits to write, the bytes in
  it, and the one place promised to a writer between its wait and its `Put`;
  the bytes are the permits to read and the one promised to a reader.  So `Put`
  finds a place and `Get` a byte, although they only take a mutex.  `OwnersOK` and
  `NothingYet` say who owns the descriptor at each statement of the shell and
  of the two ends, and that before the writer exists it is empty; with it
  `FreedUnderNobody`: no call is inside of a freed descriptor.  `ExitOK` says that who has
  the processor without being READY is in its exit; all theorems hold whatever
  ticks and sleeps do to the exits.  `PipeIsChannel`: every
  step is a step of `Channel` or leaves its variables alone, with the lemmas on
  slices.  `LinesReadAlone` needs no other part than the counts: the second side
  of a pipe is read from a copy of the array, and its first `argc - pipe` words
  are those of the new line (`SamePart`).  `PromptIsLate` has a second invariant,
  `WInv`, on top of `PInv`: only the two ends are ever in a queue, so nobody else
  is woken by a post (`QueueOK`); whoever the shell was told of has ended
  (`DeathsOK`); and the shell has been told of as many ends as it has waits
  behind it, unless the job ended meanwhile (`WaitsOK`, `Enough`).  `PipelineTyped`
  adds the variables of the prompt to the two (`PromptOK`).
- `TerminalProofs`.  For buffers of any size and a keyboard whose keys send one
  byte each (`OneByteKeys`: with the arrows it is false, see `keyboard_arrows`):
  `ClearNeverSleeps` (`PermitsMatch`, hence ctrl-C in an interrupt finds a permit for
  each byte), `ReaderAlwaysAsks`, and `StdinIsTypeAhead`, that stdin implements
  `TypeAhead`.  `PermitsMatch` and `ReaderAsks` are inductive only together with the
  types of the semaphore, the ranges of the ring and the fact that the owner of
  the foreground is the reader (`OwnerOK`).  `LineIsShown` and `TerminalTyped` ask also
  that the tab is not pressed (`NoTab`): `shell.c:97` writes four blanks without a
  look at the end of the line.  Each byte is stored in the line before its
  meaning is known, so the invariant `LineOK` is about the line up to `idx`, with
  nothing but zeros behind it, and `ModeOK` about where the editor stands.
- `MemoryProofs`, the free list.  For heaps, headers and requests of any size:
  `HeapStaysTiled`: the free blocks in order and the allocated ones tile the heap,
  whatever is allocated and freed in whatever order; `HeapStaysCoalesced`: two free
  blocks never touch (the invariant says it of neighbours in the list, `Gaps`, and
  the order of the list gives it for all); `GivenAsAsked`: a request that fits gets
  a block that is long enough.  They are about `freeListSpec`, in which anybody
  allocates and frees; `HeapUnderTests` says the first two of the tests.
- `MemoryProofs`, the buddies.  For memories, headers, smallest blocks and numbers
  of levels of any size: `BuddiesStayTiled`.  The run states `BuddiesTile` by the ends of
  blocks: each block ends where another starts.  `BuddyInv` states it in bytes (`Halves`): each
  byte of the root is in a block, no two blocks meet, and each starts at a multiple
  of its size.  The ends follow from the bytes (`BuddyInvTiles`); the other way round
  would be an induction along the chain of blocks.  A half and its buddy are the two halves of
  the aligned block one level up (`HalfFacts`, `BuddyFacts`), so that both recursions
  are one exchange of blocks for others that cover the same bytes (`Recut`):
  `memAllocRec()` leaves the upper halves of what it cuts (`Upper`, `SplitDown`), and
  `memFreeRec()` takes the halves back.  That no two buddies are both free
  (`NoBuddies`) gives that a root without a given block is one block (`AloneIsRoot`,
  `RootList`).  Powers of two and the places where a block has grown to are
  recursive functions; that those exist is `RecursionExists`, proved once.
- `MemoryProofs`, the tests.  For any number of tests and blocks, any sizes, and kills
  at any statement: `PatternsAreKept`, `ManagersKeepPromise`, `MemoryTyped`.  The inductive
  invariant adds to the two above who holds what and where each test is.
  `Rooms` is what a caller may write into, with either allocator, and `RoomFacts` says
  that rooms are in the heap, apart from each other and from all headers.  `Holding`: a
  block that was given lies in a room, and nobody else, alive or killed, has a block
  at its address.  `Phase`: the blocks below the counter of the loop that fills them, and in the
  loop that checks them all, have their pattern, unless they are refusals.  What
  both allocators do is two lemmas: a request adds one room at the address that it
  answers or changes none (`MallocRooms`), a free takes away the one at its address
  (`FreeRooms`); the rest of the proof does not know which allocator there is.  That each
  request is between 1 and `MaxMemory` needs that a sum of sizes is a
  number (`TotalNat`).  `ManagersKeepPromise`: `Ask` is a `memAlloc` of `Allocator` or,
  refused, a stutter; `Free` is a `memFree`; a kill leaves what is owned as it is.

`TestMMAssumption` has one condition besides ranges: `BuddyMin <= Total` is the early
return of `memInit()`.  A refusal that is taken for a block is filled from address 24
on.  The theorems hold for any `MaxMemory`, but the model stops (`Wreck`) when such a
fill reaches the heap, in the code at 6 MB (`kernel.c:56`): it has gone over the
kernel by then, which no module has, and over the first header of the allocator.

Model-checked only: `AddressIsBlock`, `SpecialKeysErased` and `NoZombie`,
which do not hold of the code; and all liveness (`NoStarvation`, `DeathIsReported`,
`WorkersEnd`, `SomebodyEats`, `NeverJams`, `EndArrives`, `KeysAreRead`), which is out of the
prover's reach.  Every invariant and every safety property of the passing
runs has a theorem.

## 5. Disagreements found while modelling

- `sched_zombie` / `NoZombie`: a tick after the exit has marked its process
  TERMINATED leaves the entry for ever; `getProcessArray()` says its entries are
  ready, running or blocked (`scheduler.c:258`).
- `memory_refused` / `AddressIsBlock`: `memAlloc()` of the free list adds the size
  of a header to NULL, and `if (mm_rqs[rq].address)` (`test_mm.c:39`) takes the
  address 24 for a block and fills it.  `PatternsSurvive` and `KeepsPromise` of the
  run `memory` speak of those who have not taken a refusal for a block.
- `keyboard_arrows` / `SpecialKeysErased`: "borro las especiales que no nos
  importan aquí" (`shell.c:107`); an arrow that is read between its two bytes
  makes the count of bytes turn over, and the keyboard is dead.  An arrow that is
  read whole leaves its second permit behind, and the next read does the same.

Four more are seen in the models and have no run of their own.  With guests at
the table a fork need not be exclusive: the last philosopher may look for a fork
that a neighbour, announced but not yet run, has not created, and the wait on a name that does not exist returns -1
at once; and a philosopher that is killed keeps its fork taken, though "sem se
cierran con el kill" (`philosophers.c:91`).  That is why `ForksExclusive` is checked
in `philo_table` and not in `philo_guests`.  The reader of a pipe whose writer
has ended before it was created reads nothing, 4096 times if it is `cat` or `filter`, and
for ever if it is `wc`: `EndArrives` names it.  A writer that exits on a full pipe puts
itself back into the ready list and is freed there, without any tick (`WRECK`, also
an exception of `EndArrives`); its second `remove()` may take the shell out of the list.  The fourth came out of the proof of
`ReadyListSound`, whose hypothesis it is.  `waiting_pid` is never cleared
(`scheduler.c:212`): the shell waits for its child 3, which ends; when `next_pid` has
come round, another command in the foreground is given the pid 3; ctrl-C kills
it while the shell is still running, on its way to `waitPid()`.  `kill()` then takes
the shell for one that waits, sets the RUNNING process READY and pushes its node a
second time: the ready list is wrong from there on.  TLC finds it with the constants of
`sched_shell`, four commands instead of two and `BriefCommands`;
`SoundWithoutCtrlC` shows that no program reaches it without ctrl-C.

## 6. What is left out and why

In the modelled parts:

- *Memory of the kernel.*  A node is identified with its slot: a freed node that
  is still linked is the fault "dangling", and what another allocation writes into
  it is not followed.  The faults ("overwritten", "overflow", "hang", "dangling")
  stop the model, and the invariants speak of states without a fault.  A PCB
  leaked by a refused creation is not counted.
- *The last statements of the exit* (`ExitFree`) and the list operations are
  atomic.  `waitPid()` and `semWait()` are cut where they switch.
- *Return values*, stacks, names, the closing of a dying process's pipes (in
  `Scheduler`; `Pipe` has it).
- *Waking.*  In `Scheduler` a sleeper of a semaphore is any process in `Sleep`; a
  key wakes any such process, of which the reader of stdin is one.
- *Environments the runs leave out, because properties of section 3 fail in
  them*: the shell's `block` command, which may unblock any pid, its own too (a
  RUNNING process is put in the list a second time, and a parent may be woken
  from `waitPid()`); two processes that keep waking each other (a woken process
  goes to the head, so others starve); more than 128 children of one process; a
  full table (`setNextPID()` never ends).  All are hazards in `PROJECT.json`.
  `test_processes` and `test_prio`, which block and unblock their own children,
  are in.  With `Windows = {"exit"}` `ReadyListOK` and `NoZombie` fail, which
  `sched_zombie` shows for the second.
- *Semaphores*: the lock and its queue, which only matter for a process that
  exits with interrupts on; the 1024 limit; pids used again while an old entry
  is in a queue: every process of a module has a pid of its own.  In `Terminal`,
  where one stands for all commands, an entry that a killed command has left
  wakes its successor if that one sleeps, and is skipped if not.  In `TestSync` the exit of a worker is one step; its windows are the
  business of `sched_zombie`.
- *Pipe, Pipeline*: `stdout` and `stderr`; a kill of one end, which closes with the
  pid of the killer; commands that stop reading after 4096 bytes; a second pipe
  while the first one runs.  The ready list is not modelled as a list: of the links
  that the second `remove()` of an exit follows the model has both outcomes, the shell
  lost or not.  A tick is a step of its own in an exit only; that one comes while the
  exit holds the lock of a semaphore, and what the keyboard pushes in front of the list
  meanwhile, is left out.  The exit of a job is one step.
  `argAux` is dead when the new process copies the words it points to; the model
  takes them when they are made.  A refusal of `createProcess()` is left out.
- *Terminal*: shift and caps, which choose between two characters; the table of
  scan codes beyond the kinds of keys; the tab, which moves by several places
  and runs over the end of the line; the arrows in `terminal` (they are in
  `keyboard_arrows`).  Two commands in the foreground at once, which the shell
  cannot start.
- *Allocators*: what lies below the heap, and what happens after a refusal has been
  filled into it; `mem_info` and its counters, which are printed only; the
  allocations of the kernel itself next to those of the tests; a call that is
  interrupted by another one (only the exit of a process frees with interrupts
  on).
- *Philosophers*: `philo_state` (only printed), failures of `newSemaphore()` and
  `createProcess()`, and ctrl-C on the host, which would leave the guard taken.

Components without a module: console, video, audio and time drivers (device
output); string and number helpers (no state); boot loader and build tools
(vendored, run before the kernel).

## 7. What comes next

In the order of their weight:

1. A `kill` of one end of a pipe: `closeFd()` with the pid of whoever runs, which may
   take the end of another process for that of the victim.
2. The table of descriptors and of semaphores with its limit and its `next` index.
3. The lock of a semaphore at the level of `xchg`, for the exit that can be
   preempted.
