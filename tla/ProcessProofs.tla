---------------------------- MODULE ProcessProofs ----------------------------
(***************************************************************************)
(* What holds of the processes as long as no interrupt cuts an exit short: *)
(* the ready list, the tree of parents, the choice of the next process,    *)
(* the keyboard and the waits, for any number of processes and, unless it  *)
(* is said, any programs and any keys.                                     *)
(***************************************************************************)
EXTENDS SchedulerProofs, SequenceTheorems

-----------------------------------------------------------------------------
(* The exit of a process.                                                  *)

(* The exit runs with interrupts on.  A tick that finds rounds left is     *)
(* harmless; any other interrupt switches, kills or wakes in the middle.   *)
QuietTick == Tick /\ remaining_rounds > 0

ExitCut == pc[running_pid] \in ExitSteps /\ Interrupt /\ ~QuietTick

(* A process in its exit has the processor, and only such a one is marked  *)
(* TERMINATED.                                                             *)
InExit    == \A p \in Pid : pc[p] \in ExitSteps => p = running_pid /\ p > 2
DeadExits == \A p \in Pid : p_state[p] = "TERMINATED" => pc[p] \in ExitSteps

ExitOK == InExit /\ DeadExits

NobodyExits == \A p \in Pid : pc[p] \notin ExitSteps /\ p_state[p] # "TERMINATED"

LEMMA NobodyExitsThen ==
  ASSUME TypeOK, ExitOK, pc[running_pid] \notin ExitSteps
  PROVE  NobodyExits
  BY DEF NobodyExits, ExitOK, InExit, DeadExits, TypeOK, TableType

(* System calls, and interrupts that are not quiet, find nobody in an      *)
(* exit.                                                                   *)
LEMMA CallersDoNotExit ==
  ASSUME TypeOK,
         \/ \E p \in Pid, c \in Call : Doing(p, c)
         \/ pc[running_pid] \in {"boot", "set_next", "wait", "sleep"}
         \/ Interrupt /\ ~QuietTick /\ ~ExitCut
  PROVE  pc[running_pid] \notin ExitSteps
  BY DEF Doing, Running, ExitSteps, ExitCut

LEMMA QuietTickFacts ==
  ASSUME QuietTick
  PROVE  UNCHANGED <<running_pid, p_state, priority, ready_processes, family, terminal, slots, pc, fault>>
  BY DEF QuietTick, Tick

LEMMA ScheduleStates ==
  ASSUME TypeOK, NEW st \in [Pid -> PState], NEW l, NEW f, schedule(st, l, f)
  PROVE  \A p \in Pid : p_state'[p] \in {st[p], "READY", "RUNNING"}
<1> DEFINE new == getNextReadyProcess(IF Preempted(st) THEN Requeued(l, running_pid) ELSE l)
<1>1. p_state' = [Left(st) EXCEPT ![new] = IF @ = "FREE" THEN @ ELSE "RUNNING"]
  BY DEF schedule
<1>2. Left(st) \in [Pid -> PState] /\ \A p \in Pid : Left(st)[p] \in {st[p], "READY"}
  BY DEF Left, TypeOK, TableType, PState
<1> HIDE DEF new
<1>3. QED
  BY <1>1, <1>2

LEMMA NotifyStates ==
  ASSUME TypeOK, NEW st \in [Pid -> PState], NEW q \in Pid
  PROVE  /\ Notify(st, q) \in [Pid -> PState]
         /\ \A p \in Pid : Notify(st, q)[p] \in {st[p], "READY"}
<1>1. parent_pid[q] \in Pid
  BY DEF TypeOK, FamilyType
<1>2. QED
  BY <1>1 DEF Notify, SetState, PState

(* A step that leaves the exits alone marks nobody TERMINATED.             *)
LEMMA ExitKept ==
  ASSUME TypeOK, TypeOK', NobodyExits,
         \A p \in Pid : p_state'[p] # "TERMINATED",
         \A p \in Pid : pc'[p] \notin ExitSteps
  PROVE  ExitOK'
  BY DEF ExitOK, InExit, DeadExits

LEMMA KillExit ==
  ASSUME TypeOK, TypeOK', NobodyExits, NEW q \in Pid, kill(q)
  PROVE  ExitOK'
<1> DEFINE dead  == [p_state EXCEPT ![q] = "TERMINATED"]
           woken == Notify(dead, q)
           list  == NotifyList(dead, Unlink(ready_processes, q), q)
           st    == [woken EXCEPT ![q] = "FREE"]
<1>1. dead \in [Pid -> PState]
  BY DEF TypeOK, TableType, PState
<1>2. woken \in [Pid -> PState] /\ \A p \in Pid : woken[p] \in {dead[p], "READY"}
  BY <1>1, NotifyStates
<1>3. Leave(st, list, q) /\ pc' = [pc EXCEPT ![q] = "user"]
  BY DEF kill, FreeProcess
<1>4. st \in [Pid -> PState] /\ \A p \in Pid : st[p] # "TERMINATED"
  BY <1>1, <1>2 DEF NobodyExits, PState, TypeOK, TableType
<1> HIDE DEF dead, woken, list, st
<1>5. \A p \in Pid : p_state'[p] # "TERMINATED"
  <2>1. CASE q = running_pid
    <3>1. \A p \in Pid : p_state'[p] \in {st[p], "READY", "RUNNING"}
      BY <1>3, <1>4, <2>1, ScheduleStates DEF Leave
    <3>2. QED
      BY <1>4, <3>1
  <2>2. CASE q # running_pid
    BY <1>3, <1>4, <2>2 DEF Leave
  <2>3. QED
    BY <2>1, <2>2
<1>6. \A p \in Pid : pc'[p] \notin ExitSteps
  BY <1>3 DEF NobodyExits, TypeOK, ExitSteps
<1>7. QED
  BY <1>5, <1>6, ExitKept

LEMMA ChangeStateExit ==
  ASSUME TypeOK, TypeOK', NobodyExits, NEW p \in Pid, NEW q \in Pid, NEW new \in {"READY", "BLOCKED"},
         ChangeState(p, q, new), \A r \in Pid : pc'[r] \in {pc[r], "sleep"}
  PROVE  ExitOK'
<1> DEFINE st   == SetState(p_state, q, new)
           list == SetStateList(p_state, ready_processes, q, new)
<1>1. st \in [Pid -> PState] /\ \A r \in Pid : st[r] # "TERMINATED"
  BY DEF NobodyExits, SetState, PState, TypeOK, TableType
<1>2. schedule(st, list, fault) \/ p_state' = st
  BY DEF ChangeState
<1> HIDE DEF st, list
<1>3. \A r \in Pid : p_state'[r] # "TERMINATED"
  BY <1>1, <1>2, ScheduleStates
<1>4. \A r \in Pid : pc'[r] \notin ExitSteps
  BY DEF NobodyExits, ExitSteps
<1>5. QED
  BY <1>3, <1>4, ExitKept

LEMMA SyscallExit ==
  ASSUME TypeOK, TypeOK', ExitOK, NEW p \in Pid, Syscall(p)
  PROVE  ExitOK'
<1>1. \E c \in Call : Doing(p, c)
  BY DEF Syscall, Create, Yield, Sleep, Wait, Kill, Block, Unblock, Wake, Nice, DoingTo, Call
<1>2. NobodyExits
  BY <1>1, CallersDoNotExit, NobodyExitsThen
<1>3. CASE Create(p)
  <2>1. PICK r : CreateInSlot(p, r) /\ pc' = pc
    BY <1>3 DEF Create, createProcess
  <2>2. p_state' = [p_state EXCEPT ![next_pid] = "READY"]
    BY <2>1 DEF CreateInSlot
  <2>3. QED
    BY <1>2, <2>1, <2>2, ExitKept DEF NobodyExits, TypeOK, TableType
<1>4. CASE Yield(p)
  <2>1. \A r \in Pid : p_state'[r] \in {p_state[r], "READY", "RUNNING"}
    BY <1>4, ScheduleStates DEF Yield, TypeOK, TableType
  <2>2. pc' = pc
    BY <1>4 DEF Yield
  <2>3. QED
    BY <1>2, <2>1, <2>2, ExitKept DEF NobodyExits
<1>5. CASE Sleep(p)
  <2>1. ChangeState(p, p, "BLOCKED") /\ \A r \in Pid : pc'[r] \in {pc[r], "sleep"}
    BY <1>5 DEF Sleep, TypeOK
  <2>2. QED
    BY <1>2, <2>1, ChangeStateExit
<1>6. CASE Wait(p)
  <2> DEFINE st == [p_state EXCEPT ![p] = "BLOCKED"]
  <2>1. schedule(st, remove(ready_processes, p), fault) /\ pc' = [pc EXCEPT ![p] = "wait"]
    BY <1>6 DEF Wait, waitPid
  <2>2. st \in [Pid -> PState] /\ \A r \in Pid : st[r] # "TERMINATED"
    BY <1>2 DEF NobodyExits, PState, TypeOK, TableType
  <2>3. \A r \in Pid : p_state'[r] \in {st[r], "READY", "RUNNING"}
    BY <2>1, <2>2, ScheduleStates
  <2>4. \A r \in Pid : pc'[r] \notin ExitSteps
    BY <1>2, <2>1 DEF NobodyExits, ExitSteps, TypeOK
  <2> HIDE DEF st
  <2>5. QED
    BY <1>2, <2>2, <2>3, <2>4, ExitKept
<1>7. ASSUME NEW q \in Pid, Kill(p, q)
      PROVE  ExitOK'
  BY <1>2, <1>7, KillExit DEF Kill
<1>8. ASSUME NEW q \in Pid, Block(p, q) \/ Unblock(p, q) \/ Wake(p, q)
      PROVE  ExitOK'
  <2>1. /\ ChangeState(p, q, "READY") \/ ChangeState(p, q, "BLOCKED")
        /\ pc' = pc
    BY <1>8 DEF Block, Unblock, Wake
  <2>2. QED
    BY <1>2, <2>1, ChangeStateExit
<1>9. ASSUME NEW q \in Pid, NEW new \in 0 .. QtyPriorities - 1, Nice(p, q, new)
      PROVE  ExitOK'
  BY <1>9 DEF Nice, ExitOK, InExit, DeadExits
<1>10. QED
  BY <1>3, <1>4, <1>5, <1>6, <1>7, <1>8, <1>9 DEF Syscall

LEMMA ExitExit ==
  ASSUME TypeOK, TypeOK', ExitOK, NEW p \in Pid, Exit(p)
  PROVE  ExitOK'
<1>1. CASE ExitUnlink(p)
  <2>1. p = running_pid /\ p > 2 /\ p_state' = p_state /\ running_pid' = running_pid
        /\ pc' = [pc EXCEPT ![p] = "terminate"]
    BY <1>1 DEF ExitUnlink, Doing, Running
  <2>2. QED
    BY <2>1 DEF ExitOK, InExit, DeadExits, ExitSteps, TypeOK
<1>2. ASSUME NEW to \in ExitSteps, pc[p] \in ExitSteps, running_pid' = running_pid,
             pc' = [pc EXCEPT ![p] = to],
             \A q \in Pid : p_state'[q] = "TERMINATED" => p_state[q] = "TERMINATED" \/ q = p
      PROVE  ExitOK'
  BY <1>2 DEF ExitOK, InExit, DeadExits, TypeOK
<1>3. CASE ExitTerminate(p)
  <2>1. pc[p] \in ExitSteps /\ running_pid' = running_pid /\ pc' = [pc EXCEPT ![p] = "notify"]
        /\ p_state' = [p_state EXCEPT ![p] = "TERMINATED"] /\ "notify" \in ExitSteps
    BY <1>3 DEF ExitTerminate, Running, ExitSteps
  <2>2. \A q \in Pid : p_state'[q] = "TERMINATED" => p_state[q] = "TERMINATED" \/ q = p
    BY <2>1 DEF TypeOK, TableType
  <2>3. QED
    BY <1>2, <2>1, <2>2
<1>4. CASE ExitNotify(p)
  <2>1. pc[p] \in ExitSteps /\ running_pid' = running_pid /\ pc' = [pc EXCEPT ![p] = "hand_over"]
        /\ p_state' = Notify(p_state, p) /\ "hand_over" \in ExitSteps
    BY <1>4 DEF ExitNotify, Running, ExitSteps
  <2>2. \A q \in Pid : p_state'[q] \in {p_state[q], "READY"}
    BY <2>1, NotifyStates DEF TypeOK, TableType
  <2>3. QED
    BY <1>2, <2>1, <2>2
<1>5. CASE ExitHandOver(p)
  <2>1. pc[p] \in ExitSteps /\ running_pid' = running_pid /\ pc' = [pc EXCEPT ![p] = "reparent"]
        /\ p_state' = p_state /\ "reparent" \in ExitSteps
    BY <1>5 DEF ExitHandOver, Running, ExitSteps, table
  <2>2. QED
    BY <1>2, <2>1
<1>6. CASE ExitReparent(p)
  <2>1. pc[p] \in ExitSteps /\ running_pid' = running_pid /\ pc' = [pc EXCEPT ![p] = "free"]
        /\ p_state' = p_state /\ "free" \in ExitSteps
    BY <1>6 DEF ExitReparent, Running, ExitSteps, table
  <2>2. QED
    BY <1>2, <2>1
<1>7. CASE ExitFree(p)
  <2> DEFINE st == [p_state EXCEPT ![p] = "FREE"]
  <2>1. /\ p = running_pid /\ Leave(st, ready_processes, p) /\ pc' = [pc EXCEPT ![p] = "user"]
    BY <1>7 DEF ExitFree, Running, FreeProcess
  <2>2. st \in [Pid -> PState] /\ \A q \in Pid : st[q] = "TERMINATED" => p_state[q] = "TERMINATED" /\ q # p
    BY DEF TypeOK, TableType, PState
  <2> HIDE DEF st
  <2>3. \A q \in Pid : p_state'[q] \in {st[q], "READY", "RUNNING"}
    BY <2>1, <2>2, ScheduleStates DEF Leave
  <2>4. \A q \in Pid : q # p => pc[q] \notin ExitSteps
    BY <2>1 DEF ExitOK, InExit
  <2>5. (\A q \in Pid : pc'[q] \notin ExitSteps) /\ \A q \in Pid : p_state'[q] # "TERMINATED"
    BY <2>1, <2>2, <2>3, <2>4 DEF ExitOK, DeadExits, ExitSteps, TypeOK
  <2>6. QED
    BY <2>5 DEF ExitOK, InExit, DeadExits
<1>8. QED
  BY <1>1, <1>3, <1>4, <1>5, <1>6, <1>7 DEF Exit

LEMMA ExitStep ==
  ASSUME TypeOK, TypeOK', ExitOK, [Next]_vars, [~ExitCut]_vars
  PROVE  ExitOK'
<1>1. CASE UNCHANGED vars
  BY <1>1 DEF vars, table, ExitOK, InExit, DeadExits
<1>2. ASSUME NEW p \in Pid, Syscall(p)
      PROVE  ExitOK'
  BY <1>2, SyscallExit
<1>3. ASSUME NEW p \in Pid, Exit(p)
      PROVE  ExitOK'
  BY <1>3, ExitExit
<1>4. ASSUME NEW p \in Pid, Return(p)
      PROVE  ExitOK'
  <2>1. pc' = [pc EXCEPT ![p] = "user"] /\ p_state' = p_state /\ running_pid' = running_pid
        /\ pc[p] \notin ExitSteps
    BY <1>4 DEF Return, table, ExitSteps
  <2>2. QED
    BY <2>1 DEF ExitOK, InExit, DeadExits, ExitSteps, TypeOK
<1>9. CASE QuietTick
  BY <1>9, QuietTickFacts DEF ExitOK, InExit, DeadExits
<1>5. CASE Interrupt /\ ~QuietTick /\ ~ExitCut
  <2>2. NobodyExits
    BY <1>5, CallersDoNotExit, NobodyExitsThen
  <2>3. CASE Tick
    <3>1. \A r \in Pid : p_state'[r] \in {p_state[r], "READY", "RUNNING"}
      BY <2>3, ScheduleStates DEF Tick, TypeOK, TableType
    <3>2. pc' = pc
      BY <2>3 DEF Tick
    <3>3. QED
      BY <2>2, <3>1, <3>2, ExitKept DEF NobodyExits
  <2>4. CASE CtrlC
    BY <2>2, <2>4, KillExit DEF CtrlC, TypeOK, TerminalType
  <2>5. ASSUME NEW q \in Pid, KeyWake(q)
        PROVE  ExitOK'
    <3>1. ChangeState(running_pid, q, "READY") /\ pc' = pc /\ running_pid \in Pid
      BY <2>5 DEF KeyWake, TypeOK, TableType
    <3>2. QED
      BY <2>2, <3>1, ChangeStateExit
  <2>6. QED
    BY <1>5, <2>3, <2>4, <2>5 DEF Interrupt
<1>6. CASE Boot
  <2>1. running_pid = TRIVIAL /\ pc[running_pid] \in {"boot", "set_next"} /\ TRIVIAL \in Pid
    BY <1>6, PidFacts DEF Boot, BootCreate, BootSetNext, Running
  <2>2. NobodyExits
    BY <2>1, CallersDoNotExit, NobodyExitsThen
  <2>3. \A r \in Pid : p_state'[r] \in {p_state[r], "READY"}
    BY <1>6 DEF Boot, BootCreate, BootSetNext, CreateInSlot, table, TypeOK, TableType
  <2>4. \A r \in Pid : pc'[r] \in {pc[r], "set_next", "user"}
    BY <1>6 DEF Boot, BootCreate, BootSetNext, TypeOK
  <2>5. QED
    BY <2>2, <2>3, <2>4, ExitKept DEF NobodyExits, ExitSteps
<1>7. QED
  BY <1>1, <1>2, <1>3, <1>4, <1>5, <1>6, <1>9 DEF Next, Kernel

LEMMA ExitAlways == Spec /\ [][~ExitCut]_vars => []ExitOK
<1>1. Init => ExitOK
  BY DEF Init, ExitOK, InExit, DeadExits, ExitSteps
<1>2. TypeOK /\ TypeOK' /\ ExitOK /\ [Next]_vars /\ [~ExitCut]_vars => ExitOK'
  BY ExitStep
<1>3. QED
  BY <1>1, <1>2, TypeCorrect, PTL DEF Spec

(* As long as no interrupt cuts an exit short, no entry of the table is    *)
(* TERMINATED but that of the process that is exiting.                     *)
THEOREM NoZombieUnlessCut == Spec /\ [][~ExitCut]_vars => []NoZombie
<1>1. ExitOK => NoZombie
  BY DEF ExitOK, InExit, DeadExits, NoZombie
<1>2. QED
  BY <1>1, ExitAlways, PTL

-----------------------------------------------------------------------------
(* The ready list.                                                         *)

Able(st) == {p \in Pid \ {TRIVIAL} : st[p] \in {"READY", "RUNNING"}}

(* The state of the process on the processor.  One that is its own parent  *)
(* and waits for itself would be READY again at the end of its exit.       *)
RunningState ==
  LET p == running_pid
  IN  /\ pc[p] \notin ExitSteps \cup {"terminate"} => p_state[p] = "RUNNING"
      /\ pc[p] = "terminate" => p_state[p] = "RUNNING"
      /\ pc[p] = "notify" => p_state[p] = "TERMINATED"
      /\ pc[p] \in {"hand_over", "reparent", "free"} =>
           p_state[p] = "TERMINATED" \/ (p_state[p] = "READY" /\ parent_pid[p] = p)

TrivialReady == p_state[TRIVIAL] \in {"READY", "RUNNING"}

ReadyOK ==
  /\ TrivialReady
  /\ fault = "none" => RunningState /\ Links(ready_processes, Listed)

(* A list leads to each of the nodes it links.                             *)
LEMMA WalkMeets ==
  ASSUME NEW l \in ListOf(Pid), NEW S \in SUBSET Pid, Links(l, S), NEW n \in S
  PROVE  ~Unlinked(l, n)
<1>1. IsFiniteSet(S) /\ S \subseteq Nat /\ NULL \notin S
  BY PidFacts, FS_Subset
<1>2. PICK k \in Nat : \E s : Shows(l, S, s, k)
  BY <1>1, LinksElim
<1>3. PICK s : Shows(l, S, s, k)
  BY <1>2
<1>4. SUFFICES ASSUME NEW W, n \notin W, l.first \in W \cup {NULL}, \A m \in W : l.next[m] \in W \cup {NULL}
               PROVE  FALSE
  BY DEF Unlinked
<1> DEFINE out == {i \in 1 .. k : s[i] \notin W}
<1>5. out # {} /\ out \subseteq Nat
  BY <1>3, <1>4 DEF Shows
<1>6. PICK i \in out : \A j \in out : i <= j
  BY <1>5, LeastInSet
<1>7. CASE i = 1
  BY <1>1, <1>3, <1>4, <1>7 DEF Shows, Represents
<1>8. CASE i # 1
  <2>1. i - 1 \in 1 .. k /\ i \in 1 .. k /\ i - 1 # k /\ (i - 1) + 1 = i
    BY <1>8
  <2>2. s[i - 1] \in W
    BY <1>6, <2>1
  <2>3. l.next[s[i - 1]] = s[i] /\ s[i] \in S
    BY <1>3, <2>1 DEF Shows, Represents
  <2>4. QED
    BY <1>1, <1>4, <2>2, <2>3
<1>9. QED
  BY <1>7, <1>8

(* The operations of the ready list, whose nodes are the pids.             *)
LEMMA PidList ==
  ASSUME NEW l \in ListOf(Pid), NEW S, S \subseteq Pid, Links(l, S), NEW n \in Pid
  PROVE  /\ remove(l, n) \in ListOf(Pid) /\ push(l, n) \in ListOf(Pid) /\ queue(l, n) \in ListOf(Pid)
         /\ n \in S => Links(remove(l, n), S \ {n})
         /\ n \notin S => Links(push(l, n), S \cup {n}) /\ Links(queue(l, n), S \cup {n})
<1>1. NULL \notin Pid /\ IsFiniteSet(S)
  BY PidFacts, FS_Subset
<1>2. remove(l, n) \in ListOf(Pid) /\ push(l, n) \in ListOf(Pid) /\ queue(l, n) \in ListOf(Pid)
  BY <1>1, ListType
<1>3. n \in S => Links(remove(l, n), S \ {n})
  BY <1>1, RemoveLinks
<1>4. n \notin S => Links(push(l, n), S \cup {n}) /\ Links(queue(l, n), S \cup {n})
  BY <1>1, PushLinks, QueueLinks
<1>5. QED
  BY <1>2, <1>3, <1>4

(* schedule() from a list that links what can run.                         *)
LEMMA ScheduleReady ==
  ASSUME TypeOK, NEW st \in [Pid -> PState], NEW l \in ListOf(Pid), NEW f,
         schedule(st, l, f), Links(l, Able(st)), st[TRIVIAL] \in {"READY", "RUNNING"},
         NoOtherRuns(st)
  PROVE  /\ Links(ready_processes', Runnable') /\ Runnable' = Able(st)
         /\ running_pid' \in Runnable' \/ (Runnable' = {} /\ running_pid' = TRIVIAL)
         /\ p_state'[running_pid'] = "RUNNING" /\ TrivialReady'
         /\ fault' = f
<1> DEFINE p    == running_pid
           list == IF Preempted(st) THEN Requeued(l, p) ELSE l
           new  == getNextReadyProcess(list)
           S    == Able(st)
<1>1. /\ p \in Pid /\ NULL \notin Pid /\ IsFiniteSet(S) /\ S \subseteq Pid \ {TRIVIAL}
      /\ NULL \notin S /\ TRIVIAL \in Pid
  BY PidFacts, FS_Subset DEF TypeOK, TableType, Able
<1>2. list \in ListOf(Pid) /\ Links(list, S)
  <2>1. CASE Preempted(st)
    <3>1. p \in S
      BY <1>1, <2>1 DEF Preempted, Able
    <3>2. remove(l, p) \in ListOf(Pid) /\ Links(remove(l, p), S \ {p})
      BY <1>1, <3>1, ListType, RemoveLinks
    <3>3. IsFiniteSet(S \ {p}) /\ (S \ {p}) \cup {p} = S /\ p \in Pid \ (S \ {p})
      BY <1>1, <3>1, FS_Subset
    <3> HIDE DEF S
    <3>4. queue(remove(l, p), p) \in ListOf(Pid)
      BY <1>1, <3>2, ListType
    <3>5. Links(queue(remove(l, p), p), (S \ {p}) \cup {p})
      BY <1>1, <3>2, <3>3, QueueLinks
    <3>6. Requeued(l, p) \in ListOf(Pid) /\ Links(Requeued(l, p), S)
      BY <3>3, <3>4, <3>5 DEF Requeued
    <3>7. QED
      BY <2>1, <3>6
  <2>2. QED
    BY <2>1
<1>3. new \in S \/ (S = {} /\ new = TRIVIAL)
  <2>1. IF S = {} THEN list.first = NULL ELSE list.first \in S
    BY <1>1, <1>2, FirstOfLinks
  <2>2. QED
    BY <1>1, <2>1 DEF getNextReadyProcess
<1>4. /\ ready_processes' = list
      /\ p_state' = [Left(st) EXCEPT ![new] = IF @ = "FREE" THEN @ ELSE "RUNNING"]
      /\ fault' = IF Left(st)[new] = "FREE" THEN "dangling" ELSE f
      /\ running_pid' = new
  BY DEF schedule
<1>5. /\ Left(st) \in [Pid -> PState] /\ Left(st)[TRIVIAL] \in {"READY", "RUNNING"}
      /\ \A q \in Pid : Left(st)[q] \in {"READY", "RUNNING"} <=> st[q] \in {"READY", "RUNNING"}
  BY <1>1 DEF Left, Preempted, PState
<1> HIDE DEF list, new
<1>6. new \in Pid /\ Left(st)[new] \in {"READY", "RUNNING"}
  BY <1>1, <1>3, <1>5 DEF Able
<1>7. p_state' = [Left(st) EXCEPT ![new] = "RUNNING"] /\ fault' = f
  BY <1>4, <1>6
<1>8. Runnable' = S
  BY <1>1, <1>5, <1>6, <1>7 DEF Runnable, Able
<1>9. QED
  BY <1>1, <1>2, <1>3, <1>4, <1>5, <1>6, <1>7, <1>8 DEF TrivialReady

(* Waking a parent that is neither running nor ready puts it in the list.  *)
LEMMA NotifyReady ==
  ASSUME TypeOK, NEW st \in [Pid -> PState], NEW l \in ListOf(Pid), NEW q \in Pid,
         Links(l, Able(st)),
         IsWaitingFor(st, q) /\ CanSet(st, parent_pid[q], "READY") => st[parent_pid[q]] # "RUNNING"
  PROVE  /\ NotifyList(st, l, q) \in ListOf(Pid)
         /\ Links(NotifyList(st, l, q), Able(Notify(st, q)))
         /\ Notify(st, q)[TRIVIAL] = st[TRIVIAL]
         /\ \A p \in Pid : Notify(st, q)[p] = st[p] \/ (p = parent_pid[q] /\ st[p] \in {"BLOCKED", "TERMINATED"})
<1> DEFINE P == parent_pid[q]
<1>1. P \in Pid /\ NULL \notin Pid /\ TRIVIAL \in Pid /\ IsFiniteSet(Able(st)) /\ Able(st) \subseteq Pid
  BY PidFacts, FS_Subset DEF TypeOK, FamilyType, Able
<1>2. CASE IsWaitingFor(st, q) /\ CanSet(st, P, "READY")
  <2>1. P # TRIVIAL /\ st[P] \in {"BLOCKED", "TERMINATED"}
    BY <1>1, <1>2 DEF CanSet, PState
  <2>2. Notify(st, q) = [st EXCEPT ![P] = "READY"] /\ NotifyList(st, l, q) = push(l, P)
    BY <1>2 DEF Notify, NotifyList, SetState, SetStateList
  <2>3. P \in Pid \ Able(st)
    BY <1>1, <2>1 DEF Able
  <2>4. Able([st EXCEPT ![P] = "READY"]) = Able(st) \cup {P}
    BY <1>1, <2>1 DEF Able
  <2> HIDE DEF P
  <2>5. push(l, P) \in ListOf(Pid) /\ Links(push(l, P), Able(st) \cup {P})
    BY <1>1, <2>3, ListType, PushLinks
  <2>6. [st EXCEPT ![P] = "READY"][TRIVIAL] = st[TRIVIAL]
        /\ \A p \in Pid : p # P => [st EXCEPT ![P] = "READY"][p] = st[p]
    BY <1>1, <2>1
  <2>7. QED
    BY <2>1, <2>2, <2>4, <2>5, <2>6 DEF P
<1>3. CASE ~(IsWaitingFor(st, q) /\ CanSet(st, P, "READY"))
  BY <1>3 DEF Notify, NotifyList, SetState, SetStateList
<1>4. QED
  BY <1>2, <1>3

(* A node freed while it is linked is noticed.                             *)
LEMMA LeaveDangling ==
  ASSUME NEW st, NEW list \in ListOf(Pid), NEW S \in SUBSET Pid, Links(list, S), NEW q \in S,
         Leave(st, list, q)
  PROVE  fault' = "dangling"
<1>1. FreeFault(list, q) = "dangling"
  BY WalkMeets DEF FreeFault
<1>2. QED
  BY <1>1 DEF Leave, schedule

(* The end of a death, from the states and the list the notification left. *)
LEMMA LeaveReady ==
  ASSUME TypeOK, NEW woken \in [Pid -> PState], NEW list \in ListOf(Pid), NEW q \in Pid \ {TRIVIAL},
         Links(list, Able(woken)), Leave([woken EXCEPT ![q] = "FREE"], list, q),
         woken[TRIVIAL] \in {"READY", "RUNNING"}, NoOtherRuns(woken),
         q # running_pid => woken[running_pid] = "RUNNING",
         fault = "none", q \notin Able(woken)
  PROVE  /\ Links(ready_processes', Runnable') /\ Runnable' = Able(woken) /\ q \notin Runnable'
         /\ p_state'[running_pid'] = "RUNNING" /\ TrivialReady'
         /\ \/ q # running_pid /\ running_pid' = running_pid
            \/ running_pid' \in Runnable' \/ (Runnable' = {} /\ running_pid' = TRIVIAL)
         /\ fault' = "none"
<1> DEFINE st == [woken EXCEPT ![q] = "FREE"]
           l  == memFree(list, q)
<1>1. /\ st \in [Pid -> PState] /\ NoOtherRuns(st) /\ st[TRIVIAL] \in {"READY", "RUNNING"}
      /\ NULL \notin Pid /\ running_pid \in Pid
  BY PidFacts DEF PState, NoOtherRuns, TypeOK, TableType
<1>2. IsFiniteSet(Able(woken)) /\ Able(woken) \subseteq Pid
  BY PidFacts, FS_Subset DEF Able
<1>3. FreeFault(list, q) = "none"
  BY <1>1, <1>2, LinksUnlinked DEF FreeFault
<1>4. Able(st) = Able(woken)
  BY DEF Able
<1>5. l \in ListOf(Pid) /\ Links(l, Able(woken))
  BY <1>1, <1>2, ListType, MemFreeLinks
<1> HIDE DEF l
<1>6. CASE q = running_pid
  <2>1. schedule(st, l, FreeFault(list, q))
    BY <1>6 DEF Leave, l
  <2> HIDE DEF st
  <2>2. QED
    BY <1>1, <1>3, <1>4, <1>5, <2>1, ScheduleReady
<1>7. CASE q # running_pid
  <2>1. p_state' = st /\ running_pid' = running_pid /\ ready_processes' = l /\ fault' = "none"
    BY <1>3, <1>7 DEF Leave, l
  <2>2. Runnable' = Able(woken)
    BY <1>4, <2>1 DEF Runnable, Able
  <2>3. QED
    BY <1>1, <1>3, <1>5, <1>7, <2>1, <2>2 DEF TrivialReady
<1>8. QED
  BY <1>6, <1>7

-----------------------------------------------------------------------------
(* What is known of every state.                                           *)
ReadyInv == SlotsInv /\ SingleRunning /\ ExitOK /\ ReadyOK

LEMMA QuietReady ==
  ASSUME ReadyInv, fault = "none", NobodyExits
  PROVE  /\ TypeOK /\ running_pid \in Pid /\ p_state[running_pid] = "RUNNING"
         /\ Listed = Runnable /\ Runnable = Able(p_state) /\ Links(ready_processes, Able(p_state))
         /\ ready_processes \in ListOf(Pid) /\ p_state \in [Pid -> PState]
         /\ p_state[TRIVIAL] \in {"READY", "RUNNING"} /\ NoOtherRuns(p_state)
<1>1. TypeOK /\ running_pid \in Pid /\ ready_processes \in ListOf(Pid) /\ p_state \in [Pid -> PState]
  BY DEF ReadyInv, SlotsInv, TypeOK, TableType
<1>2. \A p \in Pid : pc[p] \notin ExitSteps \cup {"terminate"}
  BY DEF NobodyExits, ExitSteps
<1>3. Listed = Runnable
  BY <1>2 DEF Listed, Runnable
<1>4. QED
  BY <1>1, <1>2, <1>3 DEF ReadyInv, ReadyOK, RunningState, TrivialReady, Runnable, Able, SingleRunning, NoOtherRuns

(* A step after which nobody is in an exit.                                *)
LEMMA QuietReadyThen ==
  ASSUME TypeOK', \A p \in Pid : pc'[p] \notin ExitSteps, TrivialReady',
         fault' = "none" => p_state'[running_pid'] = "RUNNING" /\ Links(ready_processes', Runnable')
  PROVE  ReadyOK'
<1>1. Listed' = Runnable'
  BY DEF Listed, Runnable, ExitSteps
<1>2. fault' = "none" => RunningState'
  <2>1. running_pid' \in Pid
    BY DEF TypeOK, TableType
  <2>2. QED
    BY <2>1 DEF RunningState, ExitSteps
<1>3. QED
  BY <1>1, <1>2 DEF ReadyOK

(* The running process stays on the processor, but is marked READY and put *)
(* into the list a second time.                                            *)
WokenAwake ==
  /\ p_state[running_pid] = "RUNNING" /\ running_pid' = running_pid
  /\ p_state'[running_pid] = "READY"

LEMMA KillReady ==
  ASSUME ReadyInv, TypeOK', fault = "none", NobodyExits, ~WokenAwake,
         NEW q \in Pid, kill(q)
  PROVE  /\ ReadyOK'
         /\ fault' = "none" =>
              /\ \E P \in Pid : Runnable' = Runnable \ {q} \/ Runnable' = (Runnable \ {q}) \cup {P}
              /\ \/ q # running_pid /\ running_pid' = running_pid
                 \/ running_pid' \in Runnable' \/ (Runnable' = {} /\ running_pid' = TRIVIAL)
              /\ \A p \in Runnable' \ Runnable : p = parent_pid[q] /\ waiting_pid[p] \in {q, ANY}
         /\ parent_pid[q] # q => fault' = "none"
<1> DEFINE dead  == [p_state EXCEPT ![q] = "TERMINATED"]
           unlnk == Unlink(ready_processes, q)
           woken == Notify(dead, q)
           list  == NotifyList(dead, unlnk, q)
           P     == parent_pid[q]
<1>0. /\ TypeOK /\ running_pid \in Pid /\ p_state[running_pid] = "RUNNING"
      /\ Runnable = Able(p_state) /\ Links(ready_processes, Able(p_state))
      /\ ready_processes \in ListOf(Pid) /\ p_state \in [Pid -> PState]
      /\ p_state[TRIVIAL] \in {"READY", "RUNNING"} /\ NoOtherRuns(p_state)
  BY QuietReady
<1>1. q > 2 /\ q # TRIVIAL /\ p_state[q] # "FREE" /\ P \in Pid /\ TRIVIAL \in Pid /\ NULL \notin Pid
  BY <1>0, PidFacts DEF kill, TRIVIAL, TypeOK, FamilyType
<1>2. dead \in [Pid -> PState] /\ Able(dead) = Able(p_state) \ {q} /\ dead[TRIVIAL] = p_state[TRIVIAL]
  BY <1>0, <1>1 DEF PState, Able
<1>3. unlnk \in ListOf(Pid) /\ Links(unlnk, Able(dead))
  <2>1. CASE p_state[q] = "BLOCKED"
    BY <1>0, <1>2, <2>1 DEF Unlink, Able
  <2>2. CASE p_state[q] # "BLOCKED"
    <3>1. q \in Able(p_state)
      BY <1>0, <1>1, <2>2 DEF NobodyExits, PState, Able
    <3>2. Able(p_state) \subseteq Pid /\ IsFiniteSet(Able(p_state))
      BY PidFacts, FS_Subset DEF Able
    <3>3. unlnk = remove(ready_processes, q)
      BY <2>2 DEF Unlink
    <3> HIDE DEF dead, unlnk
    <3>4. /\ remove(ready_processes, q) \in ListOf(Pid)
          /\ Links(remove(ready_processes, q), Able(p_state) \ {q})
      BY <1>0, <1>1, <3>1, <3>2, PidList
    <3>5. QED
      BY <1>2, <3>3, <3>4
  <2>3. QED
    BY <2>1, <2>2
<1>4. Leave([woken EXCEPT ![q] = "FREE"], list, q) /\ pc' = [pc EXCEPT ![q] = "user"]
  BY DEF kill, FreeProcess
<1>5. ASSUME IsWaitingFor(dead, q), CanSet(dead, P, "READY"), dead[P] = "RUNNING"
      PROVE  FALSE
  <2>1. P # q /\ p_state[P] = "RUNNING"
    BY <1>0, <1>1, <1>5
  <2>2. P = running_pid
    BY <1>0, <1>1, <2>1 DEF NoOtherRuns
  <2>3. woken[P] = "READY"
    BY <1>1, <1>2, <1>5 DEF Notify, SetState
  <2>4. woken \in [Pid -> PState]
    BY <1>0, <1>2, NotifyStates
  <2> HIDE DEF woken, list
  <2>5. p_state' = [woken EXCEPT ![q] = "FREE"] /\ running_pid' = running_pid
    BY <1>4, <2>1, <2>2 DEF Leave
  <2>6. QED
    BY <1>0, <1>1, <2>1, <2>2, <2>3, <2>4, <2>5 DEF WokenAwake
<1>6. /\ list \in ListOf(Pid) /\ Links(list, Able(woken)) /\ woken[TRIVIAL] = dead[TRIVIAL]
      /\ \A p \in Pid : woken[p] = dead[p] \/ (p = P /\ dead[p] \in {"BLOCKED", "TERMINATED"})
  <2> HIDE DEF dead, unlnk
  <2>1. IsWaitingFor(dead, q) /\ CanSet(dead, parent_pid[q], "READY") => dead[parent_pid[q]] # "RUNNING"
    BY <1>5
  <2>2. /\ NotifyList(dead, unlnk, q) \in ListOf(Pid)
        /\ Links(NotifyList(dead, unlnk, q), Able(Notify(dead, q)))
        /\ Notify(dead, q)[TRIVIAL] = dead[TRIVIAL]
        /\ \A p \in Pid : Notify(dead, q)[p] = dead[p] \/ (p = parent_pid[q] /\ dead[p] \in {"BLOCKED", "TERMINATED"})
    <3>1. TypeOK /\ dead \in [Pid -> PState] /\ unlnk \in ListOf(Pid) /\ Links(unlnk, Able(dead))
      BY <1>0, <1>2, <1>3
    <3>2. QED
      BY <2>1, <3>1, NotifyReady, Zenon
  <2>3. list = NotifyList(dead, unlnk, q) /\ woken = Notify(dead, q) /\ P = parent_pid[q]
    OBVIOUS
  <2> HIDE DEF list, woken, P
  <2>4. QED
    BY <2>2, <2>3
<1>7. woken \in [Pid -> PState] /\ \A p \in Pid : woken[p] \in {dead[p], "READY"}
  BY <1>0, <1>2, NotifyStates
<1>8. NoOtherRuns(woken) /\ (q # running_pid => woken[running_pid] = "RUNNING")
  <2>1. NoOtherRuns(dead) /\ (q # running_pid => dead[running_pid] = "RUNNING")
    BY <1>0 DEF NoOtherRuns
  <2> HIDE DEF dead, woken
  <2>2. QED
    BY <1>0, <1>6, <1>7, <2>1 DEF NoOtherRuns
<1> HIDE DEF dead, woken, list, unlnk
<1>9. /\ fault' = "none" =>
            /\ Links(ready_processes', Runnable') /\ Runnable' = Able(woken) /\ q \notin Runnable'
            /\ p_state'[running_pid'] = "RUNNING" /\ TrivialReady'
            /\ \/ q # running_pid /\ running_pid' = running_pid
               \/ running_pid' \in Runnable' \/ (Runnable' = {} /\ running_pid' = TRIVIAL)
      /\ P # q => fault' = "none"
  <2>1. CASE q \notin Able(woken)
    BY <1>0, <1>1, <1>2, <1>4, <1>6, <1>7, <1>8, <2>1, LeaveReady
  <2>2. CASE q \in Able(woken)
    <3>1. fault' = "dangling"
      BY <1>4, <1>6, <2>2, LeaveDangling DEF Able
    <3>2. P = q
      BY <1>2, <1>6, <2>2 DEF Able
    <3>3. QED
      BY <3>1, <3>2
  <2>3. QED
    BY <2>1, <2>2
<1>10. TrivialReady'
  <2>1. \A p \in Pid : p_state'[p] \in {[woken EXCEPT ![q] = "FREE"][p], "READY", "RUNNING"}
    <3>1. [woken EXCEPT ![q] = "FREE"] \in [Pid -> PState]
      BY <1>7 DEF PState
    <3>2. QED
      BY <1>0, <1>4, <3>1, ScheduleStates DEF Leave
  <2>2. [woken EXCEPT ![q] = "FREE"][TRIVIAL] \in {"READY", "RUNNING"}
    BY <1>0, <1>1, <1>2, <1>6, <1>7
  <2>3. QED
    BY <1>1, <2>1, <2>2 DEF TrivialReady
<1>11. \A p \in Pid : pc'[p] \notin ExitSteps
  BY <1>0, <1>4 DEF NobodyExits, ExitSteps, TypeOK
<1>12. ReadyOK'
  BY <1>9, <1>10, <1>11, QuietReadyThen
<1>13. fault' = "none" => Runnable' = Runnable \ {q} \/ Runnable' = (Runnable \ {q}) \cup {P}
  <2>1. Able(woken) \ {P} = Able(dead) \ {P} /\ (P \in Able(dead) => P \in Able(woken))
    BY <1>1, <1>6, <1>7 DEF Able
  <2>2. Able(woken) = Able(dead) \/ Able(woken) = Able(dead) \cup {P}
    BY <2>1
  <2>3. QED
    BY <1>0, <1>2, <1>9, <2>2
<1>14. ASSUME fault' = "none", NEW p \in Runnable' \ Runnable
       PROVE  p = P /\ waiting_pid[p] \in {q, ANY}
  <2>1. p \in Able(woken) /\ p \notin Able(dead) /\ p \in Pid
    BY <1>0, <1>2, <1>9, <1>14 DEF Able
  <2>2. woken # dead /\ p = P
    BY <1>6, <2>1 DEF Able
  <2>3. IsWaitingFor(dead, q)
    BY <2>2 DEF woken, Notify
  <2>4. QED
    BY <2>2, <2>3 DEF IsWaitingFor
<1>15. QED
  BY <1>1, <1>9, <1>12, <1>13, <1>14

(* A process with itself as its parent would wake itself at its death.     *)
NoOwnParent == \A p \in Live \ {TRIVIAL} : parent_pid[p] # p

(* The two kinds of step of the processor of module Cpu.                   *)
LEMMA ChangeBy ==
  ASSUME NEW q \in Pid, NEW P \in Pid, running_pid' = running_pid,
         Runnable' \in {Runnable, Runnable \cup {P}, Runnable \ {q}, (Runnable \ {q}) \cup {P}}
  PROVE  Processor!Next
<1> DEFINE in  == IF Runnable' \in {Runnable, Runnable \ {q}} \/ P = TRIVIAL THEN {} ELSE {P}
           out == IF Runnable' \in {Runnable, Runnable \cup {P}} \/ q = TRIVIAL THEN {} ELSE {q}
<1>1. TRIVIAL \notin Runnable /\ TRIVIAL \notin Runnable'
  BY DEF Runnable
<1>2. Runnable' = (Runnable \ out) \cup in
  BY <1>1
<1>3. in \in Processor!AtMostOne /\ out \in Processor!AtMostOne
  BY DEF Processor!AtMostOne
<1>4. QED
  BY <1>2, <1>3 DEF Processor!Next, Processor!Change

LEMMA DispatchBy ==
  ASSUME NEW P \in Pid,
         Runnable' \in {Runnable, Runnable \ {running_pid}, (Runnable \ {running_pid}) \cup {P}},
         running_pid' \in Runnable' \/ (Runnable' = {} /\ running_pid' = TRIVIAL)
  PROVE  Processor!Next
<1>1. TRIVIAL \notin Runnable'
  BY DEF Runnable
<1>2. {} \in Processor!AtMostOne /\ (P # TRIVIAL => {P} \in Processor!AtMostOne)
  BY DEF Processor!AtMostOne
<1>3. \E in \in Processor!AtMostOne : Runnable' \in {Runnable \cup in, (Runnable \ {running_pid}) \cup in}
  <2>1. CASE Runnable' \in {Runnable, Runnable \ {running_pid}}
    BY <1>2, <2>1
  <2>2. CASE Runnable' = (Runnable \ {running_pid}) \cup {P}
    BY <1>1, <1>2, <2>2
  <2>3. QED
    BY <2>1, <2>2
<1>4. QED
  BY <1>3 DEF Processor!Next, Processor!Dispatch

LEMMA KillReadyStep ==
  ASSUME ReadyInv, TypeOK', fault = "none", NobodyExits, ~WokenAwake,
         NEW q \in Pid, kill(q)
  PROVE  ReadyOK' /\ (NoOwnParent => Processor!Next /\ fault' = "none")
<1>1. ReadyOK'
  BY KillReady
<1>3. q # running_pid => running_pid' = running_pid
  BY DEF kill, Leave
<1>4. running_pid \in Pid
  BY DEF ReadyInv, SlotsInv, TypeOK, TableType
<1>5. ASSUME fault' = "none"
      PROVE  Processor!Next
  <2>1. PICK P \in Pid : Runnable' = Runnable \ {q} \/ Runnable' = (Runnable \ {q}) \cup {P}
    BY <1>5, KillReady
  <2>2. \/ q # running_pid /\ running_pid' = running_pid
        \/ running_pid' \in Runnable' \/ (Runnable' = {} /\ running_pid' = TRIVIAL)
    BY <1>5, KillReady
  <2>3. CASE q = running_pid
    BY <2>1, <2>2, <2>3, DispatchBy
  <2>4. CASE q # running_pid
    BY <1>3, <1>4, <2>1, <2>4, ChangeBy
  <2>5. QED
    BY <2>3, <2>4
<1>6. NoOwnParent => fault' = "none"
  <2>1. q \in Live \ {TRIVIAL}
    BY DEF kill, Live, TRIVIAL
  <2>2. QED
    BY <2>1, KillReady DEF NoOwnParent
<1>7. QED
  BY <1>1, <1>5, <1>6

(* The running process blocks and leaves the list.                         *)
LEMMA BlockSelfReady ==
  ASSUME ReadyInv, TypeOK', fault = "none", NobodyExits, running_pid # TRIVIAL,
         schedule([p_state EXCEPT ![running_pid] = "BLOCKED"], remove(ready_processes, running_pid), fault),
         \A r \in Pid : pc'[r] \notin ExitSteps
  PROVE  ReadyOK' /\ Processor!Next /\ fault' # "dangling" /\ Runnable' \subseteq Runnable
<1> DEFINE p    == running_pid
           st   == [p_state EXCEPT ![p] = "BLOCKED"]
           list == remove(ready_processes, p)
           S    == Able(p_state)
<1>1. /\ TypeOK /\ p \in Pid /\ p_state[p] = "RUNNING"
      /\ Runnable = S /\ Links(ready_processes, S)
      /\ ready_processes \in ListOf(Pid) /\ p_state \in [Pid -> PState]
      /\ p_state[TRIVIAL] \in {"READY", "RUNNING"} /\ NoOtherRuns(p_state)
  BY QuietReady
<1>2. /\ NULL \notin Pid /\ TRIVIAL \in Pid /\ IsFiniteSet(S) /\ S \subseteq Pid
      /\ p \in S /\ Able(st) = S \ {p}
  BY <1>1, PidFacts, FS_Subset DEF Able
<1>3. list \in ListOf(Pid) /\ Links(list, Able(st))
  <2> HIDE DEF st, S
  <2>1. QED
    BY <1>1, <1>2, PidList
<1>4. st \in [Pid -> PState] /\ st[TRIVIAL] \in {"READY", "RUNNING"} /\ NoOtherRuns(st)
  BY <1>1, <1>2 DEF NoOtherRuns, PState
<1>5. schedule(st, list, fault)
  OBVIOUS
<1> HIDE DEF st, list, S
<1>6. /\ Links(ready_processes', Runnable') /\ Runnable' = Able(st)
      /\ running_pid' \in Runnable' \/ (Runnable' = {} /\ running_pid' = TRIVIAL)
      /\ p_state'[running_pid'] = "RUNNING" /\ TrivialReady' /\ fault' = fault
  BY <1>1, <1>3, <1>4, <1>5, ScheduleReady
<1>7. Runnable' = Runnable \ {running_pid}
  BY <1>1, <1>2, <1>6
<1>8. QED
  BY <1>1, <1>6, <1>7, QuietReadyThen, DispatchBy

LEMMA ChangeStateReady ==
  ASSUME ReadyInv, TypeOK', fault = "none", NobodyExits, ~WokenAwake,
         NEW q \in Pid, NEW new \in {"READY", "BLOCKED"}, ChangeState(running_pid, q, new),
         \A r \in Pid : pc'[r] \notin ExitSteps
  PROVE  /\ ReadyOK' /\ Processor!Next /\ fault' # "dangling"
         /\ Runnable' \subseteq (IF new = "BLOCKED" THEN Runnable ELSE Runnable \cup {q})
<1> DEFINE st   == SetState(p_state, q, new)
           list == SetStateList(p_state, ready_processes, q, new)
           S    == Able(p_state)
<1>0. /\ TypeOK /\ running_pid \in Pid /\ p_state[running_pid] = "RUNNING"
      /\ Runnable = S /\ Links(ready_processes, S)
      /\ ready_processes \in ListOf(Pid) /\ p_state \in [Pid -> PState]
      /\ p_state[TRIVIAL] \in {"READY", "RUNNING"} /\ NoOtherRuns(p_state)
  BY QuietReady
<1>1. /\ NULL \notin Pid /\ TRIVIAL \in Pid /\ IsFiniteSet(S) /\ S \subseteq Pid
      /\ q # TRIVIAL /\ p_state[q] \notin {"FREE", "TERMINATED", new}
      /\ st = [p_state EXCEPT ![q] = new] /\ st \in [Pid -> PState]
  BY <1>0, PidFacts, FS_Subset DEF Able, ChangeState, CanSet, SetState, NobodyExits, PState
<1>2. CASE new = "BLOCKED"
  <2>1. q \in S /\ list = remove(ready_processes, q) /\ Able(st) = S \ {q}
    BY <1>0, <1>1, <1>2 DEF Able, PState, ChangeState, SetStateList
  <2>2. list \in ListOf(Pid) /\ Links(list, Able(st))
    <3> HIDE DEF st, list, S
    <3>1. /\ remove(ready_processes, q) \in ListOf(Pid)
          /\ Links(remove(ready_processes, q), S \ {q})
      BY <1>0, <1>1, <2>1, PidList
    <3>2. QED
      BY <2>1, <3>1
  <2>3. st[TRIVIAL] \in {"READY", "RUNNING"} /\ NoOtherRuns(st)
    BY <1>0, <1>1, <1>2 DEF NoOtherRuns
  <2>4. CASE q = running_pid
    <3>1. schedule(st, list, fault)
      BY <1>2, <2>4 DEF ChangeState
    <3>2. schedule([p_state EXCEPT ![running_pid] = "BLOCKED"], remove(ready_processes, running_pid), fault)
      BY <1>1, <1>2, <2>1, <2>4, <3>1
    <3>3. QED
      BY <1>1, <2>4, <3>2, BlockSelfReady
  <2>5. CASE q # running_pid
    <3>1. p_state' = st /\ ready_processes' = list /\ running_pid' = running_pid /\ fault' = fault
      BY <2>5 DEF ChangeState
    <3>2. Runnable' = Able(st) /\ TrivialReady' /\ p_state'[running_pid'] = "RUNNING"
      BY <1>0, <1>1, <2>3, <2>5, <3>1 DEF Runnable, Able, TrivialReady
    <3>3. Runnable' = Runnable \ {q} /\ Links(ready_processes', Runnable')
      BY <1>0, <2>1, <2>2, <3>1, <3>2
    <3>4. QED
      BY <1>0, <3>1, <3>2, <3>3, QuietReadyThen, ChangeBy
  <2>6. QED
    BY <2>4, <2>5
<1>3. CASE new = "READY"
  <2>1. p_state' = st /\ ready_processes' = list /\ running_pid' = running_pid /\ fault' = fault
    BY <1>3 DEF ChangeState
  <2>2. p_state[q] = "BLOCKED"
    <3>1. q # running_pid
      BY <1>0, <1>1, <1>3, <2>1 DEF WokenAwake
    <3>2. QED
      BY <1>0, <1>1, <1>3, <3>1 DEF NoOtherRuns, PState
  <2>3. q \in Pid \ S /\ list = push(ready_processes, q) /\ Able(st) = S \cup {q}
    BY <1>0, <1>1, <1>3, <2>2 DEF Able, ChangeState, SetStateList
  <2>4. Links(list, Able(st))
    <3> HIDE DEF st, list, S
    <3>1. Links(push(ready_processes, q), S \cup {q})
      BY <1>0, <1>1, <2>3, PidList
    <3>2. QED
      BY <2>3, <3>1
  <2>5. Runnable' = Able(st) /\ TrivialReady' /\ p_state'[running_pid'] = "RUNNING"
    BY <1>0, <1>1, <2>1, <2>2 DEF Runnable, Able, TrivialReady
  <2>6. Runnable' = Runnable \cup {q} /\ Links(ready_processes', Runnable')
    BY <1>0, <2>1, <2>3, <2>4, <2>5
  <2>7. QED
    BY <1>0, <1>3, <2>1, <2>5, <2>6, QuietReadyThen, ChangeBy
<1>4. QED
  BY <1>2, <1>3

(* schedule() from the states and the list as they are.                    *)
LEMMA RescheduleReady ==
  ASSUME ReadyInv, TypeOK', fault = "none", NobodyExits, pc' = pc,
         schedule(p_state, ready_processes, fault)
  PROVE  ReadyOK' /\ Processor!Next /\ fault' # "dangling" /\ Runnable' = Runnable
<1>1. /\ TypeOK /\ running_pid \in Pid /\ p_state[running_pid] = "RUNNING"
      /\ Runnable = Able(p_state) /\ Links(ready_processes, Able(p_state))
      /\ ready_processes \in ListOf(Pid) /\ p_state \in [Pid -> PState]
      /\ p_state[TRIVIAL] \in {"READY", "RUNNING"} /\ NoOtherRuns(p_state)
  BY QuietReady
<1>2. /\ Links(ready_processes', Runnable') /\ Runnable' = Able(p_state)
      /\ running_pid' \in Runnable' \/ (Runnable' = {} /\ running_pid' = TRIVIAL)
      /\ p_state'[running_pid'] = "RUNNING" /\ TrivialReady' /\ fault' = fault
  BY <1>1, ScheduleReady
<1>3. \A r \in Pid : pc'[r] \notin ExitSteps
  BY DEF NobodyExits
<1>4. QED
  BY <1>1, <1>2, <1>3, QuietReadyThen, DispatchBy

LEMMA CreateReady ==
  ASSUME ReadyInv, TypeOK', fault = "none", NobodyExits,
         NEW p \in Pid, NEW r, CreateInSlot(p, r),
         fault' = "none" => p_state[next_pid] = "FREE", fault' # "dangling",
         \A c \in Pid : pc'[c] \notin ExitSteps
  PROVE  ReadyOK' /\ Processor!Next /\ fault' # "dangling"
<1> DEFINE c == next_pid
           S == Able(p_state)
<1>0. /\ TypeOK /\ running_pid \in Pid /\ p_state[running_pid] = "RUNNING"
      /\ Runnable = S /\ Links(ready_processes, S)
      /\ ready_processes \in ListOf(Pid) /\ p_state \in [Pid -> PState]
      /\ p_state[TRIVIAL] \in {"READY", "RUNNING"}
  BY QuietReady
<1>1. /\ NULL \notin Pid /\ TRIVIAL \in Pid /\ IsFiniteSet(S) /\ S \subseteq Pid /\ c \in Pid
  BY <1>0, PidFacts, FS_Subset DEF Able, TypeOK, SlotsType
<1>2. /\ p_state' = [p_state EXCEPT ![c] = "READY"] /\ running_pid' = running_pid
      /\ ready_processes' = queue(ready_processes, c)
  BY DEF CreateInSlot
<1>3. TrivialReady' /\ Runnable' \in {Runnable, Runnable \cup {c}}
  BY <1>0, <1>1, <1>2 DEF TrivialReady, Runnable, Able
<1>4. ASSUME fault' = "none"
      PROVE  p_state'[running_pid'] = "RUNNING" /\ Links(ready_processes', Runnable')
  <2>1. p_state[c] = "FREE" /\ c # TRIVIAL /\ c # running_pid
    BY <1>0, <1>4
  <2>2. Runnable' = S \cup {c} /\ c \in Pid \ S
    BY <1>0, <1>1, <1>2, <2>1 DEF Runnable, Able
  <2>3. p_state'[running_pid'] = "RUNNING"
    BY <1>0, <1>1, <1>2, <2>1
  <2> HIDE DEF S, c
  <2>4. QED
    BY <1>0, <1>1, <1>2, <2>2, <2>3, QueueLinks
<1>5. QED
  BY <1>0, <1>1, <1>2, <1>3, <1>4, QuietReadyThen, ChangeBy

(* A step that leaves the states and the list as they are.                 *)
LEMMA KeepReady ==
  ASSUME ReadyInv, TypeOK', fault = "none", NobodyExits,
         p_state' = p_state, ready_processes' = ready_processes, running_pid' = running_pid,
         fault' # "dangling",
         \A r \in Pid : pc'[r] \notin ExitSteps
  PROVE  ReadyOK' /\ Processor!Next /\ fault' # "dangling"
<1>1. /\ running_pid \in Pid /\ p_state[running_pid] = "RUNNING"
      /\ Runnable = Able(p_state) /\ Links(ready_processes, Able(p_state))
      /\ p_state[TRIVIAL] \in {"READY", "RUNNING"}
  BY QuietReady
<1>2. Runnable' = Runnable /\ TrivialReady'
  BY <1>1 DEF Runnable, TrivialReady
<1>3. p_state'[running_pid'] = "RUNNING" /\ Links(ready_processes', Runnable')
  BY <1>1, <1>2
<1>4. QED
  BY <1>1, <1>2, <1>3, QuietReadyThen, ChangeBy

LEMMA SyscallReady ==
  ASSUME ReadyInv, TypeOK', fault = "none", ~WokenAwake, NEW p \in Pid, Syscall(p)
  PROVE  ReadyOK' /\ (NoOwnParent => Processor!Next /\ fault' # "dangling")
<1>1. p = running_pid /\ TypeOK /\ \E c \in Call : Doing(p, c) /\ p # TRIVIAL
  BY DEF Syscall, Create, Yield, Sleep, Wait, Kill, Block, Unblock, Wake, Nice, DoingTo, Call,
         Doing, Running, ReadyInv, SlotsInv
<1>2. NobodyExits
  BY <1>1, CallersDoNotExit, NobodyExitsThen DEF ReadyInv
<1>3. \A r \in Pid : pc[r] \notin ExitSteps
  BY <1>2 DEF NobodyExits
<1>4. CASE Create(p)
  <2>1. PICK r : createProcess(p, r)
    BY <1>4 DEF Create
  <2>2. /\ CreateInSlot(p, r) /\ pc' = pc /\ (fault' = "none" => p_state[next_pid] = "FREE")
        /\ fault' # "dangling"
    BY <2>1 DEF createProcess, CreateFault
  <2>3. QED
    BY <1>2, <1>3, <2>2, CreateReady
<1>5. CASE Yield(p)
  BY <1>2, <1>5, RescheduleReady DEF Yield
<1>6. CASE Sleep(p)
  <2>1. ChangeState(p, p, "BLOCKED") /\ \A r \in Pid : pc'[r] \in {pc[r], "sleep"}
    BY <1>1, <1>6 DEF Sleep, TypeOK
  <2>2. \A r \in Pid : pc'[r] \notin ExitSteps
    BY <1>3, <2>1 DEF ExitSteps
  <2>3. QED
    BY <1>1, <1>2, <2>1, <2>2, ChangeStateReady
<1>7. CASE Wait(p)
  <2>1. /\ schedule([p_state EXCEPT ![p] = "BLOCKED"], remove(ready_processes, p), fault)
        /\ pc' = [pc EXCEPT ![p] = "wait"]
    BY <1>7 DEF Wait, waitPid
  <2>2. \A r \in Pid : pc'[r] \notin ExitSteps
    BY <1>1, <1>3, <2>1 DEF ExitSteps, TypeOK
  <2>3. QED
    BY <1>1, <1>2, <2>1, <2>2, BlockSelfReady
<1>8. ASSUME NEW q \in Pid, Kill(p, q)
      PROVE  ReadyOK' /\ (NoOwnParent => Processor!Next /\ fault' # "dangling")
  BY <1>2, <1>8, KillReadyStep DEF Kill
<1>9. ASSUME NEW q \in Pid, Block(p, q) \/ Unblock(p, q) \/ Wake(p, q)
      PROVE  ReadyOK' /\ Processor!Next /\ fault' # "dangling"
  <2>1. ChangeState(p, q, "READY") \/ ChangeState(p, q, "BLOCKED")
    BY <1>9 DEF Block, Unblock, Wake
  <2>2. \A r \in Pid : pc'[r] \notin ExitSteps
    BY <1>3, <1>9 DEF Block, Unblock, Wake
  <2>3. QED
    BY <1>1, <1>2, <2>1, <2>2, ChangeStateReady
<1>10. ASSUME NEW q \in Pid, NEW new \in 0 .. QtyPriorities - 1, Nice(p, q, new)
       PROVE  ReadyOK' /\ Processor!Next /\ fault' # "dangling"
  BY <1>2, <1>3, <1>10, KeepReady DEF Nice
<1>11. QED
  BY <1>4, <1>5, <1>6, <1>7, <1>8, <1>9, <1>10 DEF Syscall

LEMMA ExitReady ==
  ASSUME ReadyInv, TypeOK', fault = "none", NEW p \in Pid, Exit(p)
  PROVE  /\ ReadyOK'
         /\ NoOwnParent =>
              /\ Processor!Next /\ fault' # "dangling"
              /\ \A q \in Runnable' \ Runnable :
                   pc[p] = "notify" /\ q = parent_pid[p] /\ waiting_pid[q] \in {p, ANY}
<1>1. /\ TypeOK /\ p = running_pid /\ p > 2 /\ p # TRIVIAL
      /\ Links(ready_processes, Listed) /\ RunningState /\ TrivialReady
      /\ ready_processes \in ListOf(Pid) /\ p_state \in [Pid -> PState] /\ pc \in [Pid -> Place]
      /\ TRIVIAL \in Pid /\ NULL \notin Pid /\ IsFiniteSet(Listed) /\ Listed \subseteq Pid
  <2>1. p = running_pid /\ (p > 2 \/ pc[p] \in ExitSteps)
    BY DEF Exit, ExitUnlink, ExitTerminate, ExitNotify, ExitHandOver, ExitReparent,
           ExitFree, Running, Doing, ExitSteps
  <2>2. p > 2
    BY <2>1 DEF ReadyInv, ExitOK, InExit
  <2>3. IsFiniteSet(Listed) /\ Listed \subseteq Pid
    BY PidFacts, FS_Subset DEF Listed, Runnable
  <2>4. QED
    BY <2>1, <2>2, <2>3, PidFacts DEF ReadyInv, ReadyOK, SlotsInv, TypeOK, TableType, TRIVIAL
<1>2. \A q \in Pid : q # p => pc[q] \notin ExitSteps /\ p_state[q] \notin {"TERMINATED", "RUNNING"}
  BY <1>1 DEF ReadyInv, ExitOK, InExit, DeadExits, SingleRunning
<1>3. NoOtherRuns(p_state)
  BY <1>2, <1>1 DEF NoOtherRuns
<1>4. Runnable = Able(p_state)
  BY DEF Runnable, Able
<1>5. CASE ExitUnlink(p)
  <2>1. /\ pc[p] = "user" /\ p_state' = p_state /\ running_pid' = p /\ fault' = fault
        /\ pc' = [pc EXCEPT ![p] = "terminate"] /\ ready_processes' = Unlink(ready_processes, p)
    BY <1>1, <1>5 DEF ExitUnlink, Doing, Running
  <2>2. p_state[p] = "RUNNING"
    BY <1>1, <2>1 DEF RunningState, ExitSteps
  <2>3. p \in Listed /\ ready_processes' = remove(ready_processes, p)
    BY <1>1, <2>1, <2>2 DEF Listed, Runnable, Unlink
  <2>4. Links(ready_processes', Listed \ {p})
    BY <1>1, <2>3, RemoveLinks
  <2>5. Listed' = Listed \ {p} /\ Runnable' = Runnable
    BY <1>1, <1>2, <2>1 DEF Listed, Runnable, ExitSteps
  <2>6. RunningState' /\ TrivialReady'
    BY <1>1, <2>1, <2>2 DEF RunningState, TrivialReady, ExitSteps
  <2>7. QED
    BY <1>1, <2>1, <2>4, <2>5, <2>6, ChangeBy DEF ReadyOK
<1>6. CASE ExitTerminate(p)
  <2>1. /\ pc[p] = "terminate" /\ p_state' = [p_state EXCEPT ![p] = "TERMINATED"]
        /\ running_pid' = p /\ pc' = [pc EXCEPT ![p] = "notify"] /\ ready_processes' = ready_processes
        /\ fault' = fault
    BY <1>1, <1>6 DEF ExitTerminate, Running
  <2>2. Runnable' = Runnable \ {p} /\ Listed' = Listed
    BY <1>1, <1>2, <2>1 DEF Listed, Runnable, ExitSteps
  <2>3. RunningState' /\ TrivialReady'
    BY <1>1, <2>1 DEF RunningState, TrivialReady, ExitSteps
  <2>4. QED
    BY <1>1, <2>1, <2>2, <2>3, ChangeBy DEF ReadyOK
<1>7. CASE ExitNotify(p)
  <2> DEFINE P == parent_pid[p]
  <2>1. /\ pc[p] = "notify" /\ p_state' = Notify(p_state, p) /\ running_pid' = p
        /\ pc' = [pc EXCEPT ![p] = "hand_over"]
        /\ ready_processes' = NotifyList(p_state, ready_processes, p)
        /\ UNCHANGED <<parent_pid, fault>>
    BY <1>1, <1>7 DEF ExitNotify, Running, family
  <2>2. p_state[p] = "TERMINATED" /\ P \in Pid /\ p_state[P] # "RUNNING"
    BY <1>1, <1>2, <2>1 DEF RunningState, TypeOK, FamilyType
  <2>3. Listed = Able(p_state)
    <3>1. \A q \in Pid : pc[q] # "terminate"
      BY <1>1, <1>2, <2>1 DEF ExitSteps
    <3>2. QED
      BY <1>4, <3>1 DEF Listed, Runnable
  <2>4. /\ Links(ready_processes', Able(p_state')) /\ p_state'[TRIVIAL] = p_state[TRIVIAL]
        /\ \A q \in Pid : p_state'[q] = p_state[q] \/ (q = P /\ p_state[q] \in {"BLOCKED", "TERMINATED"})
    BY <1>1, <2>1, <2>2, <2>3, NotifyReady
  <2>5. \A q \in Pid : p_state'[q] \in {p_state[q], "READY"}
    BY <1>1, <2>1, NotifyStates
  <2>6. Runnable' = Able(p_state') /\ Listed' = Runnable'
    BY <1>1, <1>2, <2>1 DEF Listed, Runnable, Able, ExitSteps
  <2>7. Runnable' \in {Runnable, Runnable \cup {P}}
    <3>1. Runnable \subseteq Runnable' /\ Runnable' \subseteq Runnable \cup {P}
      BY <2>4, <2>5 DEF Runnable
    <3>2. QED
      BY <3>1
  <2>8. RunningState' /\ TrivialReady'
    BY <1>1, <2>1, <2>2, <2>4, <2>5 DEF RunningState, TrivialReady, ExitSteps
  <2>9. ASSUME NEW q \in Runnable' \ Runnable
        PROVE  q = P /\ waiting_pid[q] \in {p, ANY}
    <3>1. p_state' # p_state /\ q = P
      BY <2>7, <2>9 DEF Runnable
    <3>2. IsWaitingFor(p_state, p)
      BY <2>1, <3>1 DEF Notify
    <3>3. QED
      BY <3>1, <3>2 DEF IsWaitingFor
  <2>10. QED
    BY <1>1, <2>1, <2>2, <2>4, <2>6, <2>7, <2>8, <2>9, ChangeBy DEF ReadyOK
<1>8. ASSUME pc[p] \in {"hand_over", "reparent"}, UNCHANGED table, UNCHANGED fault,
             parent_pid'[p] = parent_pid[p],
             NEW to \in {"reparent", "free"}, pc' = [pc EXCEPT ![p] = to]
      PROVE  ReadyOK' /\ Processor!Next /\ fault' # "dangling" /\ Runnable' = Runnable
  <2>1. p_state' = p_state /\ running_pid' = running_pid /\ ready_processes' = ready_processes
    BY <1>8 DEF table
  <2>2. Runnable' = Runnable /\ Listed' = Listed
    BY <1>1, <1>2, <1>8, <2>1 DEF Listed, Runnable, ExitSteps
  <2>3. RunningState' /\ TrivialReady'
    BY <1>1, <1>8, <2>1 DEF RunningState, TrivialReady, ExitSteps
  <2>4. QED
    BY <1>1, <1>8, <2>1, <2>2, <2>3, ChangeBy DEF ReadyOK
<1>9. CASE ExitHandOver(p)
  BY <1>8, <1>9 DEF ExitHandOver, Running, family
<1>10. CASE ExitReparent(p)
  BY <1>8, <1>10 DEF ExitReparent, Running, Reparented
<1>11. CASE ExitFree(p)
  <2> DEFINE st == [p_state EXCEPT ![p] = "FREE"]
  <2>1. /\ pc[p] = "free" /\ Leave(st, ready_processes, p) /\ pc' = [pc EXCEPT ![p] = "user"]
    BY <1>11 DEF ExitFree, Running, FreeProcess
  <2>2. Listed = Able(p_state)
    <3>1. \A q \in Pid : pc[q] # "terminate"
      BY <1>1, <1>2, <2>1 DEF ExitSteps
    <3>2. QED
      BY <1>4, <3>1 DEF Listed, Runnable
  <2>3. \A q \in Pid : pc'[q] \notin ExitSteps
    BY <1>1, <1>2, <2>1 DEF ExitSteps
  <2>5. TrivialReady'
    <3>1. st \in [Pid -> PState] /\ st[TRIVIAL] \in {"READY", "RUNNING"}
      BY <1>1 DEF PState, TrivialReady
    <3> HIDE DEF st
    <3>2. \A q \in Pid : p_state'[q] \in {st[q], "READY", "RUNNING"}
      BY <1>1, <2>1, <3>1, ScheduleStates DEF Leave
    <3>3. QED
      BY <1>1, <3>1, <3>2 DEF TrivialReady
  <2>6. CASE p \notin Able(p_state)
    <3>1. p_state[TRIVIAL] \in {"READY", "RUNNING"}
      BY <1>1 DEF TrivialReady
    <3>2. /\ Links(ready_processes', Runnable') /\ Runnable' = Able(p_state) /\ p \notin Runnable'
          /\ p_state'[running_pid'] = "RUNNING" /\ fault' = "none"
          /\ \/ p # running_pid /\ running_pid' = running_pid
             \/ running_pid' \in Runnable' \/ (Runnable' = {} /\ running_pid' = TRIVIAL)
      <4>1. /\ TypeOK /\ p_state \in [Pid -> PState] /\ ready_processes \in ListOf(Pid)
            /\ p \in Pid \ {TRIVIAL} /\ Links(ready_processes, Able(p_state)) /\ p = running_pid
            /\ Leave([p_state EXCEPT ![p] = "FREE"], ready_processes, p)
        BY <1>1, <2>1, <2>2
      <4>2. QED
        BY <1>3, <2>6, <3>1, <4>1, LeaveReady
    <3>3. QED
      BY <1>1, <1>4, <2>3, <2>5, <3>2, QuietReadyThen, DispatchBy
  <2>7. CASE p \in Able(p_state)
    <3>1. fault' = "dangling"
      BY <1>1, <2>1, <2>2, <2>7, LeaveDangling
    <3>2. p_state[p] = "READY" /\ parent_pid[p] = p
      BY <1>1, <2>1, <2>7 DEF RunningState, Able
    <3>3. ~NoOwnParent
      BY <1>1, <3>2 DEF NoOwnParent, Live
    <3>4. QED
      BY <2>3, <2>5, <3>1, <3>3, QuietReadyThen
  <2>8. QED
    BY <2>6, <2>7
<1>12. QED
  BY <1>5, <1>6, <1>7, <1>9, <1>10, <1>11 DEF Exit

LEMMA ReadyStep ==
  ASSUME ReadyInv, TypeOK', [Next]_vars, [~ExitCut]_vars, [~WokenAwake]_vars
  PROVE  ReadyOK' /\ (NoOwnParent => [Processor!Next]_<<Runnable, running_pid>> /\ (fault # "dangling" => fault' # "dangling"))
<1>1. CASE UNCHANGED vars
  BY <1>1 DEF vars, table, family, ReadyInv, ReadyOK, TrivialReady, RunningState, Listed, Runnable
<1>2. CASE Next /\ ~ExitCut /\ ~WokenAwake
  <2>1. fault = "none" /\ TypeOK /\ running_pid \in Pid /\ p_state \in [Pid -> PState]
    BY <1>2 DEF Next, ReadyInv, SlotsInv, TypeOK, TableType
  <2>2. ASSUME NEW p \in Pid, Syscall(p)
        PROVE  ReadyOK' /\ (NoOwnParent => Processor!Next /\ fault' # "dangling")
    BY <1>2, <2>1, <2>2, SyscallReady
  <2>3. ASSUME NEW p \in Pid, Exit(p)
        PROVE  ReadyOK' /\ (NoOwnParent => Processor!Next /\ fault' # "dangling")
    BY <2>1, <2>3, ExitReady
  <2>4. ASSUME NEW p \in Pid, Return(p)
        PROVE  ReadyOK' /\ Processor!Next /\ fault' # "dangling"
    <3>1. /\ pc' = [pc EXCEPT ![p] = "user"] /\ pc[running_pid] \notin ExitSteps
          /\ p_state' = p_state /\ running_pid' = running_pid /\ ready_processes' = ready_processes
          /\ fault' = fault
      BY <2>4 DEF Return, table, ExitSteps
    <3>2. NobodyExits
      BY <2>1, <3>1, NobodyExitsThen DEF ReadyInv
    <3>3. \A r \in Pid : pc'[r] \notin ExitSteps
      BY <2>1, <3>1, <3>2 DEF NobodyExits, ExitSteps, TypeOK
    <3>4. QED
      BY <2>1, <3>1, <3>2, <3>3, KeepReady
  <2>8. CASE QuietTick
    <3>1. UNCHANGED <<running_pid, p_state, ready_processes, parent_pid, pc, fault>>
      BY <2>8, QuietTickFacts DEF family
    <3>2. UNCHANGED <<Runnable, Listed>>
      BY <3>1 DEF Runnable, Listed
    <3>3. QED
      BY <2>1, <3>1, <3>2 DEF ReadyInv, ReadyOK, TrivialReady, RunningState
  <2>5. CASE Interrupt /\ ~QuietTick
    <3>2. NobodyExits
      BY <1>2, <2>1, <2>5, CallersDoNotExit, NobodyExitsThen DEF ReadyInv
    <3>3. \A r \in Pid : pc[r] \notin ExitSteps
      BY <3>2 DEF NobodyExits
    <3>4. CASE Tick
      BY <2>1, <2>5, <3>2, <3>4, RescheduleReady DEF Tick, QuietTick
    <3>5. CASE CtrlC
      BY <1>2, <2>1, <3>2, <3>5, KillReadyStep DEF CtrlC, TypeOK, TerminalType
    <3>6. ASSUME NEW q \in Pid, KeyWake(q)
          PROVE  ReadyOK' /\ Processor!Next /\ fault' # "dangling"
      <4>1. ChangeState(running_pid, q, "READY") /\ pc' = pc
        BY <3>6 DEF KeyWake
      <4>2. QED
        BY <1>2, <2>1, <3>2, <3>3, <4>1, ChangeStateReady
    <3>7. QED
      BY <2>5, <3>4, <3>5, <3>6 DEF Interrupt
  <2>6. CASE Boot
    <3>1. /\ running_pid = TRIVIAL /\ pc[running_pid] \in {"boot", "set_next"} /\ TRIVIAL \in Pid
          /\ \A r \in Pid : pc'[r] \in {pc[r], "set_next", "user"}
      BY <2>1, <2>6, PidFacts DEF Boot, BootCreate, BootSetNext, Running, TypeOK
    <3>2. NobodyExits
      BY <2>1, <3>1, CallersDoNotExit, NobodyExitsThen DEF ReadyInv
    <3>3. \A r \in Pid : pc'[r] \notin ExitSteps
      BY <3>1, <3>2 DEF NobodyExits, ExitSteps
    <3>4. CASE BootCreate
      <4>1. PICK r : CreateInSlot(TRIVIAL, r)
        BY <3>4 DEF BootCreate
      <4>2. p_state[next_pid] = "FREE" /\ fault' # "dangling"
        BY <2>1, <3>4 DEF BootCreate, Running, ReadyInv, SlotsInv, SlotsOK
      <4>3. QED
        BY <2>1, <3>1, <3>2, <3>3, <4>1, <4>2, CreateReady
    <3>5. CASE BootSetNext
      BY <2>1, <3>2, <3>3, <3>5, KeepReady DEF BootSetNext, table
    <3>6. QED
      BY <2>6, <3>4, <3>5 DEF Boot
  <2>7. QED
    BY <1>2, <2>2, <2>3, <2>4, <2>5, <2>6, <2>8 DEF Next, Kernel
<1>3. QED
  BY <1>1, <1>2

LEMMA ReadyInit == Init => ReadyOK /\ Runnable = {}
<1> SUFFICES ASSUME Init
             PROVE  ReadyOK /\ Runnable = {}
  OBVIOUS
<1>1. Runnable = {} /\ Listed = {}
  BY DEF Init, Listed, Runnable
<1>2. Links(ready_processes, {})
  BY EmptyLinks DEF Init
<1>3. RunningState /\ TrivialReady
  BY PidFacts DEF Init, RunningState, TrivialReady, ExitSteps
<1>4. QED
  BY <1>1, <1>2, <1>3 DEF ReadyOK

LEMMA ReadyAlways == Spec /\ [][~ExitCut]_vars /\ [][~WokenAwake]_vars => []ReadyInv
<1>1. Init => ReadyOK
  BY ReadyInit
<1>2. ReadyInv /\ TypeOK' /\ [Next]_vars /\ [~ExitCut]_vars /\ [~WokenAwake]_vars => ReadyOK'
  BY ReadyStep
<1>3. QED
  BY <1>1, <1>2, TypeCorrect, SlotsAlways, OneProcessor, ExitAlways, PTL DEF Spec, ReadyInv

(* The ready list holds exactly the processes that can run, each once,     *)
(* linked alike in both directions, whatever the programs create, kill,    *)
(* block, wait for and wake up, as long as neither of two steps is taken:  *)
(* an interrupt that cuts an exit short, and setState(READY) on the        *)
(* process that is running, which is pushed a second time.  No other step  *)
(* of the kernel makes the list wrong.                                     *)
THEOREM ReadyListSound ==
  Spec /\ [][~ExitCut]_vars /\ [][~WokenAwake]_vars => []ReadyListOK
<1>1. ReadyInv => ReadyListOK
  BY DEF ReadyInv, ReadyOK, ReadyListOK
<1>2. QED
  BY <1>1, ReadyAlways, PTL

-----------------------------------------------------------------------------
(* The tree of processes.                                                  *)

HasChild(q, c) == \E i \in 1 .. Len(children[q]) : children[q][i] = c

MakesNone(p) == Spawns[program[p]] = {} /\ children[p] = <<>>

(* Where a process that may die stands: under the shell, or under a live   *)
(* command that will find it among its children.                           *)
Placed(p) ==
  /\ \/ parent_pid[p] = 2 /\ \E r \in Spawns[program[2]] : program[p] = r.main
     \/ MakesNone(p)
  /\ \/ parent_pid[p] = 2
     \/ /\ parent_pid[p] > 2 /\ p_state[parent_pid[p]] # "FREE"
        /\ pc[parent_pid[p]] # "free" /\ HasChild(parent_pid[p], p)
  /\ \A i \in 1 .. Len(children[p]) : children[p][i] > 2

(* How far trivial() and init have come.                                   *)
BootOK ==
  /\ parent_pid[0] = 0
  /\ pc[TRIVIAL] = "boot" => Live = {0} /\ next_pid = 1
  /\ pc[TRIVIAL] # "boot" =>
       1 \in Live /\ parent_pid[1] = 0 /\ \E r \in Spawns["trivial"] : program[1] = r.main
  /\ pc[TRIVIAL] = "set_next" => Live = {0, 1} /\ next_pid = 1 /\ children[1] = <<>>
  /\ pc[TRIVIAL] = "user" /\ children[1] = <<>> => Live = {0, 1} /\ next_pid = 2
  /\ pc[TRIVIAL] = "user" /\ children[1] # <<>> =>
       2 \in Live /\ parent_pid[2] = 1 /\ \E r \in Spawns[program[1]] : program[2] = r.main

TreeOK == fault = "none" => BootOK /\ \A p \in Live : p > 2 => Placed(p)

(* Neither trivial(), init nor the shell ends.                             *)
Immortal == \A p \in Pid : pc[p] \in ExitSteps => p > 2

TreeInv == SlotsInv /\ TreeOK /\ Immortal

LEMMA FirstPids == {0, 1, 2, 3} \subseteq Pid /\ Pid \subseteq Nat /\ TRIVIAL = 0 /\ Live \subseteq Pid
  BY SchedulerAssumption DEF SchedulerAssumption, Pid, TRIVIAL, Live

(* A process in the tree is not its own parent, and one with children is   *)
(* under the shell.                                                        *)
LEMMA PlacedParent ==
  ASSUME TreeInv, fault = "none", NEW p \in Live, p > 2
  PROVE  parent_pid[p] # p /\ (children[p] # <<>> => parent_pid[p] = 2)
<1>1. Placed(p) /\ p \in Pid /\ children \in [Pid -> Seq(Pid)]
  BY FirstPids DEF TreeInv, TreeOK, SlotsInv, TypeOK, FamilyType
<1>2. children[p] # <<>> => parent_pid[p] = 2
  BY <1>1 DEF Placed, MakesNone
<1>3. ASSUME parent_pid[p] = p
      PROVE  FALSE
  <2>1. HasChild(p, p)
    BY <1>1, <1>3 DEF Placed
  <2>2. children[p] # <<>>
    BY <2>1 DEF HasChild
  <2>3. QED
    BY <1>2, <1>3, <2>2
<1>4. QED
  BY <1>2, <1>3

LEMMA TreeKept ==
  ASSUME TreeInv, fault = "none", SameFree(p_state, p_state'),
         UNCHANGED <<parent_pid, children, program, next_pid>>,
         pc'[TRIVIAL] = pc[TRIVIAL],
         \A q \in Pid : pc'[q] = "free" => pc[q] = "free"
  PROVE  TreeOK'
<1>1. Live' = Live
  BY DEF Live, SameFree
<1>2. BootOK /\ BootOK'
  BY <1>1 DEF TreeInv, TreeOK, BootOK
<1>3. ASSUME NEW p \in Live, p > 2
      PROVE  Placed(p)'
  <2>1. Placed(p) /\ parent_pid[p] \in Pid
    BY <1>3, FirstPids DEF TreeInv, TreeOK, SlotsInv, TypeOK, FamilyType
  <2>2. QED
    BY <2>1 DEF Placed, SameFree, MakesNone, HasChild
<1>4. QED
  BY <1>1, <1>2, <1>3 DEF TreeOK

(* What a death does to the parents of the others.                         *)
Adopted(q, parents) ==
  \A p \in Live \ {q} :
     /\ p <= 2 => parents[p] = parent_pid[p]
     /\ p > 2 => parents[p] = 2 \/ (parents[p] = parent_pid[p] /\ parent_pid[p] # q)

LEMMA ReparentedAdopted ==
  ASSUME TreeInv, fault = "none", NEW q \in Live, q > 2, NEW st, SameFree(p_state, st)
  PROVE  Adopted(q, Reparented(st, q))
<1> SUFFICES ASSUME NEW p \in Live \ {q}
             PROVE  /\ p <= 2 => Reparented(st, q)[p] = parent_pid[p]
                    /\ p > 2 => \/ Reparented(st, q)[p] = 2
                                \/ Reparented(st, q)[p] = parent_pid[p] /\ parent_pid[p] # q
  BY DEF Adopted
<1>1. /\ Placed(q) /\ p \in Pid /\ st[p] # "FREE" /\ q \in Pid /\ p \in Nat
      /\ (p > 2 => Placed(p))
  BY FirstPids DEF TreeInv, TreeOK, Live, SameFree
<1>2. Reparented(st, q)[p] = IF HasChild(q, p) THEN parent_pid[q] ELSE parent_pid[p]
  BY <1>1 DEF Reparented, HasChild
<1>3. HasChild(q, p) => p > 2 /\ parent_pid[q] = 2
  <2>1. HasChild(q, p) => p > 2 /\ children[q] # <<>>
    BY <1>1 DEF Placed, HasChild
  <2>2. QED
    BY <2>1, PlacedParent
<1>4. p > 2 /\ parent_pid[p] = q => HasChild(q, p)
  BY <1>1 DEF Placed
<1>5. QED
  BY <1>1, <1>2, <1>3, <1>4

LEMMA GoneTree ==
  ASSUME TreeInv, fault = "none", NEW q \in Live, q > 2, NEW parents \in [Pid -> Pid],
         Adopted(q, parents), FreeProcess(q, parents), Live' = Live \ {q}
  PROVE  TreeOK'
<1>1. /\ parent_pid' = [parents EXCEPT ![q] = TRIVIAL] /\ children' = [children EXCEPT ![q] = <<>>]
      /\ program' = [program EXCEPT ![q] = "trivial"] /\ pc' = [pc EXCEPT ![q] = "user"]
      /\ next_pid' = next_pid
  BY DEF FreeProcess
<1>2. /\ q \in Pid /\ children \in [Pid -> Seq(Pid)] /\ program \in [Pid -> Main] /\ pc \in [Pid -> Place]
      /\ parent_pid \in [Pid -> Pid] /\ pc[TRIVIAL] # "free" /\ {0, 1, 2} \subseteq Pid /\ TRIVIAL = 0
      /\ Live \subseteq Pid /\ Pid \subseteq Nat /\ 0 \in Live
  BY FirstPids DEF TreeInv, SlotsInv, TypeOK, FamilyType, TrivialAlive, Live
<1>3. BootOK /\ q \notin {0, 1, 2}
  BY DEF TreeInv, TreeOK
<1>4. \A p \in {0, 1, 2} : /\ p \in Live => parent_pid'[p] = parent_pid[p]
                           /\ program'[p] = program[p] /\ children'[p] = children[p] /\ pc'[p] = pc[p]
  BY <1>1, <1>2, <1>3 DEF Adopted
<1>5. BootOK'
  BY <1>1, <1>2, <1>3, <1>4 DEF BootOK
<1>6. ASSUME NEW p \in Live', p > 2
      PROVE  Placed(p)'
  <2>1. Placed(p) /\ p \in Live \ {q} /\ p \in Pid /\ parent_pid[p] \in Pid /\ parents[p] \in Pid
    BY <1>2, <1>6 DEF TreeInv, TreeOK
  <2>2. /\ parent_pid'[p] = parents[p] /\ program'[p] = program[p] /\ children'[p] = children[p]
        /\ program'[2] = program[2]
    BY <1>1, <1>2, <1>4, <2>1
  <2>3. parents[p] = 2 \/ (parents[p] = parent_pid[p] /\ parent_pid[p] # q)
    BY <1>6, <2>1 DEF Adopted
  <2>4. CASE parents[p] = 2
    BY <2>1, <2>2, <2>4 DEF Placed, MakesNone
  <2>5. CASE parents[p] = parent_pid[p] /\ parent_pid[p] # q /\ parent_pid[p] # 2
    <3>1. LET r == parent_pid[p]
          IN  p_state'[r] # "FREE" /\ pc'[r] = pc[r] /\ children'[r] = children[r] /\ HasChild(r, p)'
      <4>1. parent_pid[p] \in Live'
        BY <2>1, <2>5 DEF Placed, Live
      <4>2. QED
        BY <1>1, <1>2, <2>1, <2>5, <4>1 DEF Live, Placed, HasChild
    <3>2. QED
      BY <2>1, <2>2, <2>5, <3>1 DEF Placed, MakesNone
  <2>6. QED
    BY <2>3, <2>4, <2>5
<1>7. QED
  BY <1>5, <1>6 DEF TreeOK

LEMMA AppendFacts ==
  ASSUME NEW s \in Seq(Pid), NEW c \in Pid
  PROVE  /\ Append(s, c) # <<>> /\ Len(Append(s, c)) = Len(s) + 1 /\ Len(s) \in Nat
         /\ \A i \in 1 .. Len(s) : Append(s, c)[i] = s[i]
         /\ Append(s, c)[Len(s) + 1] = c
<1>1. Len(s) \in Nat
  BY LenProperties
<1>2. QED
  BY <1>1, AppendProperties

LEMMA CreateTree ==
  ASSUME UserTree, TreeInv, fault = "none", NEW p \in Pid, Create(p)
  PROVE  TreeOK'
<1> SUFFICES ASSUME fault' = "none", NEW c, c = next_pid
             PROVE  BootOK' /\ \A x \in Live' : x > 2 => Placed(x)'
  BY DEF TreeOK
<1>1. PICK r \in Spawns[program[p]] : Doing(p, "create") /\ createProcess(p, r)
  BY DEF Create
<1>2. /\ p = running_pid /\ pc[p] = "user" /\ p # TRIVIAL /\ p \in Live /\ p_state[c] = "FREE"
      /\ Free(p_state') # {} /\ CreateInSlot(p, r) /\ next_pid' = setNextPID(p_state', c) /\ pc' = pc
  BY <1>1 DEF Doing, Running, createProcess, CreateFault, TreeInv, SlotsInv, RunningAlive, Live
<1>3. /\ c \in Pid \ Live /\ Live \subseteq Pid /\ Pid \subseteq Nat /\ {0, 1, 2} \subseteq Pid /\ TRIVIAL = 0
      /\ children \in [Pid -> Seq(Pid)] /\ program \in [Pid -> Main] /\ parent_pid \in [Pid -> Pid]
      /\ p_state \in [Pid -> PState] /\ MaxSpawns \in [Main -> Nat] /\ BootOK
  BY <1>2, FirstPids, SchedulerAssumption
     DEF TreeInv, TreeOK, SlotsInv, TypeOK, TableType, FamilyType, SlotsType, Live, SchedulerAssumption
<1>4. /\ p_state' = [p_state EXCEPT ![c] = "READY"] /\ parent_pid' = [parent_pid EXCEPT ![c] = p]
      /\ program' = [program EXCEPT ![c] = r.main]
      /\ children' = [[children EXCEPT ![p] = Append(@, c)] EXCEPT ![c] = <<>>]
      /\ Len(children[p]) < MaxSpawns[program[p]]
  BY <1>2 DEF CreateInSlot
<1>5. /\ Live' = Live \cup {c} /\ c # p
      /\ children'[c] = <<>> /\ children'[p] = Append(children[p], c) /\ children[p] \in Seq(Pid)
      /\ \A x \in Live : x # p => children'[x] = children[x]
      /\ \A x \in Live : parent_pid'[x] = parent_pid[x] /\ program'[x] = program[x]
      /\ parent_pid'[c] = p /\ program'[c] = r.main
  BY <1>2, <1>3, <1>4 DEF Live
<1>6. /\ Append(children[p], c) # <<>> /\ Len(Append(children[p], c)) = Len(children[p]) + 1
      /\ \A i \in 1 .. Len(children[p]) : Append(children[p], c)[i] = children[p][i]
      /\ Append(children[p], c)[Len(children[p]) + 1] = c /\ Len(children[p]) \in Nat
  <2>1. c \in Pid /\ children[p] \in Seq(Pid)
    BY <1>3, <1>5
  <2>2. QED
    BY <2>1, AppendFacts, Zenon
<1>7. pc[TRIVIAL] = "user" /\ 0 \in Live /\ 1 \in Live
  BY <1>2, <1>3 DEF BootOK, TreeInv, SlotsInv, TrivialAlive, Live
<1>8. CASE children[1] = <<>>
  <2>1. p = 1 /\ c = 2 /\ Live = {0, 1}
    BY <1>2, <1>3, <1>7, <1>8 DEF BootOK
  <2>2. BootOK'
    BY <1>2, <1>3, <1>5, <1>6, <1>7, <2>1 DEF BootOK
  <2>3. \A x \in Live' : ~ (x > 2)
    BY <1>5, <2>1
  <2>4. QED
    BY <2>2, <2>3
<1>9. CASE children[1] # <<>>
  <2>1. 2 \in Live /\ c > 2
    <3>1. 2 \in Live
      BY <1>3, <1>7, <1>9 DEF BootOK
    <3>2. c \in Nat /\ c # 0 /\ c # 1 /\ c # 2
      BY <1>3, <1>7, <3>1
    <3>3. QED
      BY <3>1, <3>2
  <2>2. p # 1
    <3>1. PICK r1 \in Spawns["trivial"] : program[1] = r1.main
      BY <1>3, <1>7 DEF BootOK
    <3>2. MaxSpawns[program[1]] <= 1 /\ MaxSpawns[program[1]] \in Nat
      BY <1>3, <3>1 DEF UserTree
    <3>3. Len(children[1]) >= 1
      BY <1>3, <1>9
    <3>4. QED
      BY <1>4, <3>2, <3>3
  <2>3. p >= 2 /\ p \in Nat
    BY <1>2, <1>3, <2>2
  <2>4. BootOK'
    BY <1>2, <1>3, <1>5, <1>7, <1>9, <2>1, <2>2 DEF BootOK
  <2>5. Placed(c)'
    <3>1. children'[c] = <<>> /\ parent_pid'[c] = p /\ program'[c] = r.main /\ program'[2] = program[2]
      BY <1>5, <2>1
    <3>2. \A i \in 1 .. Len(children'[c]) : children'[c][i] > 2
      BY <3>1
    <3>3. CASE p = 2
      BY <1>1, <3>1, <3>2, <3>3 DEF Placed
    <3>4. CASE p > 2
      <4>1. Placed(p)
        BY <1>2, <3>4 DEF TreeInv, TreeOK
      <4>2. PICK r3 \in Spawns[program[2]] : program[p] = r3.main
        BY <1>1, <4>1 DEF Placed, MakesNone
      <4>3. Spawns[r.main] = {}
        <5>1. PICK r1 \in Spawns["trivial"] : program[1] = r1.main
          BY <1>3, <1>7 DEF BootOK
        <5>2. PICK r2 \in Spawns[program[1]] : program[2] = r2.main
          BY <1>3, <1>7, <1>9 DEF BootOK
        <5>3. QED
          BY <1>1, <4>2, <5>1, <5>2 DEF UserTree
      <4>4. HasChild(p, c)'
        BY <1>5, <1>6 DEF HasChild
      <4>5. p_state'[p] # "FREE" /\ pc'[p] # "free"
        BY <1>2, <1>3, <1>4, <1>5 DEF Live
      <4>6. QED
        BY <3>1, <3>2, <3>4, <4>3, <4>4, <4>5 DEF Placed, MakesNone
    <3>5. QED
      BY <2>3, <3>3, <3>4
  <2>6. ASSUME NEW x \in Live, x > 2
        PROVE  Placed(x)'
    <3>1. Placed(x) /\ x \in Pid /\ parent_pid'[x] = parent_pid[x] /\ program'[x] = program[x]
          /\ program'[2] = program[2] /\ parent_pid[x] \in Pid
      BY <1>3, <1>5, <2>1, <2>6 DEF TreeInv, TreeOK
    <3>2. /\ parent_pid'[x] = 2 /\ (\E r3 \in Spawns[program'[2]] : program'[x] = r3.main)
          \/ MakesNone(x)'
      <4>1. CASE x = p
        BY <1>1, <3>1, <4>1 DEF Placed, MakesNone
      <4>2. CASE x # p
        BY <1>5, <3>1, <4>2 DEF Placed, MakesNone
      <4>3. QED
        BY <4>1, <4>2
    <3>3. ASSUME parent_pid[x] # 2
          PROVE  /\ parent_pid'[x] > 2 /\ p_state'[parent_pid'[x]] # "FREE"
                 /\ pc'[parent_pid'[x]] # "free" /\ HasChild(parent_pid[x], x)'
      <4>0. PICK q : q = parent_pid[x] /\ q = parent_pid'[x]
        BY <3>1
      <4>1. q > 2 /\ q \in Live /\ pc[q] # "free" /\ HasChild(q, x) /\ q \in Pid /\ children[q] \in Seq(Pid)
        BY <1>3, <3>1, <3>3, <4>0 DEF Placed, Live
      <4>2. p_state'[q] # "FREE"
        BY <1>3, <1>5, <4>1 DEF Live
      <4>3. HasChild(q, x)'
        <5>1. PICK i \in 1 .. Len(children[q]) : children[q][i] = x
          BY <4>1 DEF HasChild
        <5>2. CASE q = p
          BY <1>5, <1>6, <5>1, <5>2 DEF HasChild
        <5>3. CASE q # p
          BY <1>5, <4>1, <5>1, <5>3 DEF HasChild
        <5>4. QED
          BY <5>2, <5>3
      <4>4. QED
        BY <1>2, <4>0, <4>1, <4>2, <4>3 DEF HasChild
    <3>4. \A i \in 1 .. Len(children'[x]) : children'[x][i] > 2
      <4>1. CASE x = p
        <5>1. \A i \in 1 .. Len(children[p]) + 1 : i \in 1 .. Len(children[p]) \/ i = Len(children[p]) + 1
          BY <1>6
        <5>2. \A i \in 1 .. Len(children[p]) : children[p][i] > 2
          BY <3>1, <4>1 DEF Placed
        <5>3. \A i \in 1 .. Len(children[p]) + 1 : Append(children[p], c)[i] > 2
          BY <1>6, <2>1, <5>1, <5>2, Zenon
        <5>4. children'[x] = Append(children[p], c) /\ Len(children'[x]) = Len(children[p]) + 1
          BY <1>5, <1>6, <4>1, Zenon
        <5>5. QED
          BY <5>3, <5>4, Zenon
      <4>2. CASE x # p
        BY <1>5, <3>1, <4>2 DEF Placed
      <4>3. QED
        BY <4>1, <4>2
    <3>5. QED
      BY <3>1, <3>2, <3>3, <3>4 DEF Placed
  <2>7. QED
    BY <1>5, <2>4, <2>5, <2>6
<1>10. QED
  BY <1>8, <1>9

LEMMA BootTree ==
  ASSUME TreeInv, fault = "none", Boot
  PROVE  TreeOK'
<1>1. /\ Live \subseteq Pid /\ Pid \subseteq Nat /\ {0, 1, 2, 3} \subseteq Pid /\ TRIVIAL = 0
      /\ children \in [Pid -> Seq(Pid)] /\ program \in [Pid -> Main] /\ parent_pid \in [Pid -> Pid]
      /\ p_state \in [Pid -> PState] /\ pc \in [Pid -> Place] /\ BootOK /\ next_pid \in Pid
  BY FirstPids
     DEF TreeInv, TreeOK, SlotsInv, TypeOK, TableType, FamilyType, SlotsType
<1>2. CASE BootCreate
  <2>1. PICK r \in Spawns["trivial"] : CreateInSlot(TRIVIAL, r)
    BY <1>2 DEF BootCreate
  <2>2. Live = {0} /\ next_pid = 1 /\ next_pid' = 1 /\ pc' = [pc EXCEPT ![TRIVIAL] = "set_next"]
    BY <1>1, <1>2 DEF BootOK, BootCreate, Running
  <2>3. /\ p_state' = [p_state EXCEPT ![1] = "READY"] /\ parent_pid' = [parent_pid EXCEPT ![1] = 0]
        /\ program' = [program EXCEPT ![1] = r.main]
        /\ children' = [[children EXCEPT ![0] = Append(@, 1)] EXCEPT ![1] = <<>>]
    BY <1>1, <2>1, <2>2 DEF CreateInSlot
  <2>4. Live' = {0, 1} /\ children'[1] = <<>> /\ parent_pid'[1] = 0 /\ program'[1] = r.main
        /\ pc'[TRIVIAL] = "set_next" /\ parent_pid'[0] = parent_pid[0]
    BY <1>1, <2>2, <2>3 DEF Live
  <2>5. BootOK'
    BY <1>1, <2>2, <2>4 DEF BootOK
  <2>6. QED
    BY <2>4, <2>5 DEF TreeOK
<1>3. CASE BootSetNext
  <2>1. /\ Live = {0, 1} /\ next_pid = 1 /\ children[1] = <<>> /\ 1 \in Live /\ parent_pid[1] = 0
        /\ \E r \in Spawns["trivial"] : program[1] = r.main
        /\ UNCHANGED <<p_state, parent_pid, children, program>>
        /\ pc' = [pc EXCEPT ![TRIVIAL] = "user"] /\ next_pid' = setNextPID(p_state, next_pid)
    BY <1>1, <1>3 DEF BootOK, BootSetNext, Running, table, family
  <2> DEFINE later == {p \in Free(p_state) : p >= 1}
  <2>2. 2 \in later /\ 1 \notin later /\ later \subseteq Nat
    <3>1. p_state[1] # "FREE" /\ p_state[2] = "FREE"
      BY <1>1, <2>1 DEF Live
    <3>2. Free(p_state) \subseteq Nat /\ 2 \in Free(p_state) /\ 1 \notin Free(p_state)
      BY <1>1, <3>1 DEF Free
    <3>3. QED
      BY <3>2
  <2>3. Least(later) \in later /\ Least(later) <= 2
    BY <2>2, LeastInSet
  <2>4. Least(later) = 2
    BY <2>2, <2>3
  <2>5. next_pid' = 2
    BY <2>1, <2>2, <2>4 DEF setNextPID
  <2>6. Live' = {0, 1} /\ pc'[TRIVIAL] = "user"
    BY <1>1, <2>1 DEF Live
  <2>7. BootOK'
    BY <1>1, <2>1, <2>5, <2>6 DEF BootOK
  <2>8. QED
    BY <2>6, <2>7 DEF TreeOK
<1>4. QED
  BY <1>2, <1>3 DEF Boot

LEMMA KillTree ==
  ASSUME TreeInv, fault = "none", NEW q \in Pid, kill(q)
  PROVE  TreeOK' /\ Live' = Live \ {q}
<1> DEFINE dead  == [p_state EXCEPT ![q] = "TERMINATED"]
           woken == Notify(dead, q)
           list  == NotifyList(dead, Unlink(ready_processes, q), q)
<1>1. SlotsInv /\ TypeOK /\ p_state \in [Pid -> PState] /\ dead \in [Pid -> PState]
  BY DEF TreeInv, SlotsInv, TypeOK, TableType, PState
<1>2. Unlink(ready_processes, q) \in ListOf(Pid)
  BY <1>1, NotifyType DEF TypeOK, TableType
<1>3. woken \in [Pid -> PState] /\ list \in ListOf(Pid) /\ Reparented(woken, q) \in [Pid -> Pid]
  BY <1>1, <1>2, NotifyType
<1>4. q > 2 /\ q # TRIVIAL /\ p_state[q] # "FREE" /\ q \in Live
  BY DEF kill, TRIVIAL, Live
<1>5. SameFree(p_state, dead) /\ SameFree(dead, woken)
  BY <1>1, <1>4, NotifyFree DEF SameFree
<1>6. Leave([woken EXCEPT ![q] = "FREE"], list, q) /\ FreeProcess(q, Reparented(woken, q))
  BY DEF kill
<1> HIDE DEF woken, list, dead
<1>7. SameFree(p_state, woken)
  BY <1>5 DEF SameFree
<1>8. Live' = Live \ {q}
  BY <1>1, <1>3, <1>4, <1>6, <1>7, LeaveFree
<1>9. QED
  BY <1>3, <1>4, <1>6, <1>7, <1>8, ReparentedAdopted, GoneTree

LEMMA ExitTree ==
  ASSUME TreeInv, fault = "none", NEW p \in Pid, Exit(p)
  PROVE  TreeOK' /\ Live' = IF pc[p] = "free" THEN Live \ {p} ELSE Live
<1>1. /\ SlotsInv /\ TypeOK /\ p_state \in [Pid -> PState] /\ pc \in [Pid -> Place] /\ TRIVIAL = 0
      /\ parent_pid \in [Pid -> Pid] /\ children \in [Pid -> Seq(Pid)] /\ program \in [Pid -> Main]
      /\ ready_processes \in ListOf(Pid) /\ p = running_pid /\ p \in Live /\ p # TRIVIAL /\ TRIVIAL \in Pid
      /\ p > 2 => Placed(p)
  <2>1. p = running_pid /\ (p > 2 \/ pc[p] \in ExitSteps)
    BY DEF Exit, ExitUnlink, ExitTerminate, ExitNotify, ExitHandOver, ExitReparent,
           ExitFree, Running, Doing, ExitSteps
  <2>2. p # TRIVIAL
    BY <2>1 DEF TreeInv, SlotsInv, TrivialAlive, ExitSteps, TRIVIAL
  <2>3. QED
    BY <2>1, <2>2, FirstPids DEF TreeInv, TreeOK, SlotsInv, TypeOK, TableType, FamilyType, RunningAlive, Live
<1>2. CASE ExitUnlink(p) \/ ExitTerminate(p) \/ ExitNotify(p) \/ ExitHandOver(p)
  <2>1. UNCHANGED <<parent_pid, children, program, next_pid>> /\ pc[p] # "free"
    BY <1>2 DEF ExitUnlink, ExitTerminate, ExitNotify, ExitHandOver, family, slots, Running, Doing
  <2>2. SameFree(p_state, p_state')
    <3>1. p_state[p] # "FREE" /\ p \in Pid
      BY <1>1 DEF Live
    <3>2. SameFree(p_state, Notify(p_state, p))
      BY <1>1, NotifyFree
    <3>3. p_state' \in {p_state, [p_state EXCEPT ![p] = "TERMINATED"], Notify(p_state, p)}
      BY <1>2 DEF ExitUnlink, ExitTerminate, ExitNotify, ExitHandOver, table
    <3>4. QED
      BY <1>1, <3>1, <3>2, <3>3 DEF SameFree
  <2>3. \E to \in {"terminate", "notify", "hand_over", "reparent"} : pc' = [pc EXCEPT ![p] = to]
    BY <1>2 DEF ExitUnlink, ExitTerminate, ExitNotify, ExitHandOver
  <2>4. pc'[TRIVIAL] = pc[TRIVIAL] /\ \A q \in Pid : pc'[q] = "free" => pc[q] = "free"
    BY <1>1, <2>3
  <2>5. Live' = Live
    BY <2>2 DEF Live, SameFree
  <2>6. QED
    BY <2>1, <2>2, <2>4, <2>5, TreeKept
<1>3. CASE ExitReparent(p)
  <2>1. /\ p_state' = p_state /\ children' = children /\ program' = program /\ next_pid' = next_pid
        /\ parent_pid' = Reparented(p_state, p) /\ pc' = [pc EXCEPT ![p] = "free"] /\ pc[p] = "reparent"
        /\ Live' = Live
    BY <1>3 DEF ExitReparent, table, slots, Running, Live
  <2>2. p > 2 /\ p \notin {0, 1, 2}
    BY <2>1 DEF TreeInv, Immortal, ExitSteps
  <2>3. Adopted(p, parent_pid')
    <3>1. SameFree(p_state, p_state)
      BY DEF SameFree
    <3>2. QED
      BY <1>1, <2>1, <2>2, <3>1, ReparentedAdopted
  <2>4. parent_pid'[p] = parent_pid[p] /\ parent_pid[p] # p
    <3>1. parent_pid'[p] = parent_pid[p]
      BY <1>1, <2>1 DEF Reparented
    <3>2. QED
      BY <1>1, <2>2, <3>1, PlacedParent
  <2>5. Live \subseteq Pid /\ Pid \subseteq Nat /\ BootOK
    BY FirstPids DEF TreeInv, TreeOK
  <2>6. BootOK'
    <3>1. \A q \in {0, 1, 2} : q \in Live => parent_pid'[q] = parent_pid[q]
      BY <2>2, <2>3 DEF Adopted
    <3>2. 0 \in Live /\ pc'[TRIVIAL] = pc[TRIVIAL]
      BY <1>1, <2>1 DEF TreeInv, SlotsInv, TrivialAlive, Live
    <3>3. QED
      BY <1>1, <2>1, <2>5, <3>1, <3>2 DEF BootOK
  <2>7. ASSUME NEW x \in Live, x > 2
        PROVE  Placed(x)'
    <3>1. Placed(x) /\ parent_pid[x] \in Pid
      BY <1>1, <2>5, <2>7 DEF TreeInv, TreeOK
    <3>2. parent_pid'[x] = 2 \/ (parent_pid'[x] = parent_pid[x] /\ parent_pid[x] # p)
      BY <2>3, <2>4, <2>7 DEF Adopted
    <3>3. CASE parent_pid'[x] = 2
      BY <2>1, <3>1, <3>3 DEF Placed, MakesNone
    <3>4. CASE parent_pid'[x] = parent_pid[x] /\ parent_pid[x] # p
      BY <1>1, <2>1, <3>1, <3>4 DEF Placed, MakesNone, HasChild
    <3>5. QED
      BY <3>2, <3>3, <3>4
  <2>8. QED
    BY <2>1, <2>6, <2>7 DEF TreeOK
<1>4. CASE ExitFree(p)
  <2>1. /\ Leave([p_state EXCEPT ![p] = "FREE"], ready_processes, p) /\ FreeProcess(p, parent_pid)
        /\ pc[p] = "free"
    BY <1>4 DEF ExitFree, Running
  <2>2. p > 2
    BY <2>1 DEF TreeInv, Immortal, ExitSteps
  <2>3. SameFree(p_state, p_state) /\ p_state[p] # "FREE"
    BY <1>1 DEF SameFree, Live
  <2>4. Live' = Live \ {p}
    BY <1>1, <2>1, <2>3, LeaveFree
  <2>5. Adopted(p, parent_pid)
    <3>1. ASSUME NEW x \in Live \ {p}, x > 2
          PROVE  parent_pid[x] # p
      BY <2>1, <2>2, <3>1 DEF TreeInv, TreeOK, Placed
    <3>2. QED
      BY <3>1 DEF Adopted
  <2>6. QED
    BY <1>1, <2>1, <2>2, <2>4, <2>5, GoneTree
<1>5. QED
  BY <1>2, <1>3, <1>4 DEF Exit

LEMMA SyscallTree ==
  ASSUME UserTree, TreeInv, fault = "none", NEW p \in Pid, Syscall(p)
  PROVE  TreeOK'
<1>1. /\ SlotsInv /\ TypeOK /\ p_state \in [Pid -> PState] /\ TRIVIAL \in Pid /\ pc \in [Pid -> Place]
      /\ p_state[TRIVIAL] # "FREE" /\ ready_processes \in ListOf(Pid)
  BY PidFacts DEF TreeInv, SlotsInv, TypeOK, TableType, TrivialAlive
<1>2. CASE Create(p)
  BY <1>2, CreateTree
<1>3. CASE Yield(p)
  BY <1>1, <1>3, ScheduleFree, TreeKept DEF Yield, family, slots
<1>4. CASE Sleep(p)
  <2>1. ChangeState(p, p, "BLOCKED") /\ pc' = [pc EXCEPT ![p] = "sleep"] /\ p # TRIVIAL
    BY <1>4 DEF Sleep, Doing
  <2>2. /\ UNCHANGED <<parent_pid, children, program, next_pid>>
        /\ pc'[TRIVIAL] = pc[TRIVIAL] /\ \A q \in Pid : pc'[q] = "free" => pc[q] = "free"
    BY <1>1, <2>1 DEF ChangeState, family, slots
  <2>3. QED
    BY <1>1, <2>1, <2>2, ChangeStateFree, TreeKept
<1>5. CASE Wait(p)
  <2>1. /\ UNCHANGED <<parent_pid, children, program, next_pid>>
        /\ pc'[TRIVIAL] = pc[TRIVIAL] /\ \A q \in Pid : pc'[q] = "free" => pc[q] = "free"
    BY <1>1, <1>5 DEF Wait, waitPid, slots, Doing
  <2>2. QED
    BY <1>1, <1>5, <2>1, WaitFree, TreeKept
<1>6. ASSUME NEW q \in Pid, Kill(p, q)
      PROVE  TreeOK'
  BY <1>6, KillTree DEF Kill
<1>7. ASSUME NEW q \in Pid, Block(p, q) \/ Unblock(p, q) \/ Wake(p, q)
      PROVE  TreeOK'
  <2>1. (ChangeState(p, q, "READY") \/ ChangeState(p, q, "BLOCKED")) /\ pc' = pc
    BY <1>7 DEF Block, Unblock, Wake
  <2>2. UNCHANGED <<parent_pid, children, program, next_pid>>
    BY <2>1 DEF ChangeState, family, slots
  <2>3. SameFree(p_state, p_state')
    BY <1>1, <2>1, ChangeStateFree
  <2>4. QED
    BY <2>1, <2>2, <2>3, TreeKept
<1>8. ASSUME NEW q \in Pid, NEW new \in 0 .. QtyPriorities - 1, Nice(p, q, new)
      PROVE  TreeOK'
  BY <1>8, TreeKept DEF Nice, SameFree, family, slots
<1>9. QED
  BY <1>2, <1>3, <1>4, <1>5, <1>6, <1>7, <1>8 DEF Syscall

LEMMA TreeStep ==
  ASSUME UserTree, TreeInv, [Next]_vars
  PROVE  TreeOK'
<1>1. CASE UNCHANGED vars
  BY <1>1 DEF vars, table, family, slots, TreeInv, TreeOK, BootOK, Placed, MakesNone, HasChild, Live
<1>2. CASE Next
  <2>1. /\ fault = "none" /\ SlotsInv /\ TypeOK /\ p_state \in [Pid -> PState] /\ TRIVIAL \in Pid
        /\ p_state[TRIVIAL] # "FREE" /\ ready_processes \in ListOf(Pid) /\ pc \in [Pid -> Place]
        /\ running_pid \in Pid /\ fg_pid \in Pid /\ pc[TRIVIAL] \notin {"wait", "sleep"}
    BY <1>2, PidFacts DEF Next, TreeInv, SlotsInv, TypeOK, TableType, TerminalType, TrivialAlive
  <2>2. CASE Boot
    BY <2>1, <2>2, BootTree
  <2>3. CASE Tick
    <3>1. SameFree(p_state, p_state')
      <4>1. CASE remaining_rounds > 0
        BY <2>3, <4>1 DEF Tick, SameFree
      <4>2. CASE ~ (remaining_rounds > 0)
        BY <2>1, <2>3, <4>2, ScheduleFree DEF Tick
      <4>3. QED
        BY <4>1, <4>2
    <3>2. QED
      BY <2>1, <2>3, <3>1, TreeKept DEF Tick, family, slots
  <2>4. CASE CtrlC
    BY <2>1, <2>4, KillTree DEF CtrlC
  <2>5. ASSUME NEW q \in Pid, KeyWake(q)
        PROVE  TreeOK'
    <3>1. ChangeState(running_pid, q, "READY") /\ pc' = pc
      BY <2>5 DEF KeyWake
    <3>2. QED
      BY <2>1, <3>1, ChangeStateFree, TreeKept DEF ChangeState, family, slots
  <2>6. ASSUME NEW p \in Pid, Syscall(p)
        PROVE  TreeOK'
    BY <2>1, <2>6, SyscallTree
  <2>7. ASSUME NEW p \in Pid, Kernel(p)
        PROVE  TreeOK'
    <3>1. CASE Return(p)
      <4>1. /\ UNCHANGED <<parent_pid, children, program, next_pid, p_state>>
            /\ pc' = [pc EXCEPT ![p] = "user"] /\ pc[p] \in {"wait", "sleep"}
        BY <3>1 DEF Return, table, family, slots
      <4>2. QED
        BY <2>1, <4>1, TreeKept DEF SameFree
    <3>2. QED
      BY <2>1, <2>7, <3>1, ExitTree DEF Kernel
  <2>8. QED
    BY <1>2, <2>2, <2>3, <2>4, <2>5, <2>6, <2>7 DEF Next, Interrupt
<1>3. QED
  BY <1>1, <1>2

(* Only a process that may die enters an exit.                             *)
EntersOrStays == \A p \in Pid : pc'[p] \in ExitSteps => pc[p] \in ExitSteps \/ (p > 2 /\ pc[p] = "user")

LEMMA ExitEntry ==
  ASSUME TypeOK, [Next]_vars
  PROVE  EntersOrStays
<1>1. pc \in [Pid -> Place] /\ running_pid \in Pid
  BY DEF TypeOK, TableType
<1>2. CASE UNCHANGED vars
  BY <1>2 DEF vars, EntersOrStays
<1>3. ASSUME NEW p \in Pid, NEW to \in Place, pc' = [pc EXCEPT ![p] = to],
             to \notin ExitSteps \/ pc[p] \in ExitSteps \/ (p > 2 /\ pc[p] = "user")
      PROVE  EntersOrStays
  BY <1>1, <1>3 DEF EntersOrStays
<1>4. ASSUME NEW q \in Pid, kill(q)
      PROVE  EntersOrStays
  BY <1>3, <1>4 DEF kill, FreeProcess, Place, ExitSteps
<1>5. CASE pc' = pc
  BY <1>5 DEF EntersOrStays
<1>6. CASE Boot
  BY <1>3, <1>6, PidFacts DEF Boot, BootCreate, BootSetNext, Place, ExitSteps
<1>7. CASE Interrupt
  <2>1. fg_pid \in Pid
    BY DEF TypeOK, TerminalType
  <2>2. QED
    BY <1>4, <1>5, <1>7, <2>1 DEF Interrupt, Tick, CtrlC, KeyWake
<1>8. ASSUME NEW p \in Pid, Syscall(p)
      PROVE  EntersOrStays
  <2>1. CASE Sleep(p) \/ Wait(p)
    <3>1. \E to \in {"sleep", "wait"} : pc' = [pc EXCEPT ![p] = to]
      BY <2>1 DEF Sleep, Wait, waitPid
    <3>2. QED
      BY <1>3, <3>1 DEF Place, ExitSteps
  <2>2. CASE \E q \in Pid : Kill(p, q)
    BY <1>4, <2>2 DEF Kill
  <2>3. CASE ~ (Sleep(p) \/ Wait(p) \/ \E q \in Pid : Kill(p, q))
    <3>1. pc' = pc
      BY <1>8, <2>3 DEF Syscall, Create, createProcess, Yield, Block, Unblock, Wake, Nice
    <3>2. QED
      BY <1>5, <3>1
  <2>4. QED
    BY <2>1, <2>2, <2>3
<1>9. ASSUME NEW p \in Pid, Kernel(p)
      PROVE  EntersOrStays
  <2>1. CASE Return(p)
    BY <1>3, <2>1 DEF Return, Place, ExitSteps
  <2>2. CASE Exit(p)
    <3>1. pc[p] \in ExitSteps \/ (p > 2 /\ pc[p] = "user")
      BY <2>2 DEF Exit, ExitUnlink, ExitTerminate, ExitNotify, ExitHandOver, ExitReparent,
                  ExitFree, Running, Doing, ExitSteps
    <3>2. \E to \in Place : pc' = [pc EXCEPT ![p] = to]
      BY <2>2 DEF Exit, ExitUnlink, ExitTerminate, ExitNotify, ExitHandOver, ExitReparent,
                  ExitFree, FreeProcess, Place, ExitSteps
    <3>3. QED
      BY <1>3, <3>1, <3>2
  <2>3. QED
    BY <1>9, <2>1, <2>2 DEF Kernel
<1>10. QED
  BY <1>2, <1>6, <1>7, <1>8, <1>9 DEF Next

LEMMA TreeInit == Init => TreeOK /\ Immortal
<1> SUFFICES ASSUME Init
             PROVE  TreeOK /\ Immortal
  OBVIOUS
<1>1. Live = {0} /\ pc[TRIVIAL] = "boot" /\ next_pid = 1 /\ parent_pid[0] = 0
  BY FirstPids DEF Init, Live
<1>2. TreeOK
  BY <1>1 DEF TreeOK, BootOK
<1>3. Immortal
  BY DEF Init, Immortal, ExitSteps
<1>4. QED
  BY <1>2, <1>3

LEMMA TreeAlways == ASSUME UserTree PROVE Spec => []TreeInv
<1>1. Init => TreeOK /\ Immortal
  BY TreeInit
<1>2. TreeInv /\ [Next]_vars => TreeOK'
  BY TreeStep
<1>3. TypeOK /\ Immortal /\ [Next]_vars => Immortal'
  BY ExitEntry DEF EntersOrStays, Immortal
<1>4. QED
  BY <1>1, <1>2, <1>3, TypeCorrect, SlotsAlways, PTL DEF Spec, TreeInv

LEMMA TreeParents == TreeInv => ParentAlive
<1> SUFFICES ASSUME TreeInv, fault = "none", NEW p \in Live
             PROVE  p_state[parent_pid[p]] # "FREE"
  BY DEF ParentAlive
<1>1. BootOK /\ (p > 2 => Placed(p)) /\ 0 \in Live /\ p \in Nat /\ TRIVIAL = 0
      /\ pc[TRIVIAL] \in {"boot", "set_next", "user"}
  BY FirstPids DEF TreeInv, TreeOK, SlotsInv, TrivialAlive, Live
<1>2. p > 2 => 2 \in Live
  BY <1>1 DEF BootOK
<1>3. p \in {1, 2} => 1 \in Live /\ parent_pid[p] \in {0, 1}
  BY <1>1 DEF BootOK
<1>4. CASE p > 2
  BY <1>1, <1>2, <1>4 DEF Placed, Live
<1>5. CASE p <= 2
  BY <1>1, <1>3, <1>5 DEF BootOK, Live
<1>6. QED
  BY <1>1, <1>4, <1>5

(* The parent a death reports to is in the table, whoever died before, in  *)
(* whatever order, and with interrupts in the middle of an exit: a process *)
(* whose parent dies is given to the shell in time.                        *)
THEOREM ParentsLive == ASSUME UserTree PROVE Spec => []ParentAlive
  BY TreeParents, TreeAlways, PTL

-----------------------------------------------------------------------------
(* The processor of module Cpu.                                            *)

LEMMA TreeNoOwnParent ==
  ASSUME TreeInv, fault = "none"
  PROVE  NoOwnParent
<1> SUFFICES ASSUME NEW p \in Live \ {TRIVIAL}
             PROVE  parent_pid[p] # p
  BY DEF NoOwnParent
<1>1. /\ BootOK /\ p \in Nat /\ p # 0 /\ TRIVIAL = 0
      /\ pc[TRIVIAL] \in {"boot", "set_next", "user"}
  BY FirstPids DEF TreeInv, TreeOK, SlotsInv, TrivialAlive
<1>2. CASE p > 2
  BY <1>2, PlacedParent
<1>3. CASE p \in {1, 2}
  BY <1>1, <1>3 DEF BootOK
<1>4. QED
  BY <1>1, <1>2, <1>3

(* The kernel never follows a link into a node it has freed.               *)
NotDangling == fault # "dangling"

LEMMA DispatchStep ==
  ASSUME ReadyInv, TreeInv, TypeOK', [Next]_vars, [~ExitCut]_vars, [~WokenAwake]_vars
  PROVE  [Processor!Next]_<<Runnable, running_pid>> /\ (NotDangling => NotDangling')
<1>1. CASE fault = "none"
  <2>1. NoOwnParent
    BY <1>1, TreeNoOwnParent
  <2>2. QED
    BY <2>1, ReadyStep DEF NotDangling
<1>2. CASE fault # "none"
  <2>1. UNCHANGED vars
    BY <1>2 DEF Next
  <2>2. UNCHANGED <<Runnable, running_pid, fault>>
    BY <2>1 DEF vars, table, Runnable
  <2>3. QED
    BY <2>2 DEF NotDangling
<1>3. QED
  BY <1>1, <1>2

(* The scheduler implements module Cpu: it gives the processor to a        *)
(* process that can run, and to the idle one only when there is none, for  *)
(* users' programs that form a tree below one shell and under the two      *)
(* hypotheses of ReadyListSound.                                           *)
THEOREM ImplementsCpu ==
  ASSUME UserTree
  PROVE  Spec /\ [][~ExitCut]_vars /\ [][~WokenAwake]_vars => RunsRunnable
<1>1. Init => Processor!Init
  BY ReadyInit DEF Init, Processor!Init
<1>2. ReadyInv /\ TreeInv /\ TypeOK' /\ [Next]_vars /\ [~ExitCut]_vars /\ [~WokenAwake]_vars
        => [Processor!Next]_<<Runnable, running_pid>>
  BY DispatchStep
<1>3. QED
  BY <1>1, <1>2, ReadyAlways, TreeAlways, TypeCorrect, PTL DEF Spec, RunsRunnable, Processor!Spec

(* The kernel never reads a node of the ready list that it has freed,      *)
(* under the hypotheses of ImplementsCpu.                                  *)
THEOREM NeverDangling ==
  ASSUME UserTree
  PROVE  Spec /\ [][~ExitCut]_vars /\ [][~WokenAwake]_vars => []NotDangling
<1>1. Init => NotDangling
  BY DEF Init, NotDangling
<1>2. ReadyInv /\ TreeInv /\ TypeOK' /\ [Next]_vars /\ [~ExitCut]_vars /\ [~WokenAwake]_vars /\ NotDangling
        => NotDangling'
  BY DispatchStep
<1>3. QED
  BY <1>1, <1>2, ReadyAlways, TreeAlways, TypeCorrect, PTL DEF Spec

-----------------------------------------------------------------------------
(* The keyboard.                                                           *)

LeavingIt == {"reparent", "free"}

(* A process that has handed the keyboard over does not have it any more.  *)
FgOK == ForegroundOK /\ (fault = "none" => pc[fg_pid] \notin LeavingIt)

FgInv == TreeInv /\ ExitOK /\ FgOK

LEMMA FgFacts ==
  ASSUME FgInv, fault = "none"
  PROVE  /\ SlotsInv /\ TypeOK /\ fg_pid \in Live /\ isFg[fg_pid] /\ stdin_reader = fg_pid
         /\ \A p \in Live : isFg[p] => p = fg_pid \/ pc[p] \in LeavingIt
         /\ pc[fg_pid] \notin LeavingIt
         /\ p_state \in [Pid -> PState] /\ pc \in [Pid -> Place] /\ isFg \in [Pid -> BOOLEAN]
         /\ parent_pid \in [Pid -> Pid] /\ Live \subseteq Pid /\ TRIVIAL \in Pid
         /\ ready_processes \in ListOf(Pid) /\ running_pid \in Pid
         /\ \A p \in Live : parent_pid[p] \in Live
  BY PidFacts, TreeParents
     DEF FgInv, FgOK, TreeInv, SlotsInv, TypeOK, TableType, FamilyType, TerminalType, ForegroundOK,
         Live, LeavingIt, ParentAlive

LEMMA FgKept ==
  ASSUME FgInv, fault = "none", SameFree(p_state, p_state'), UNCHANGED terminal,
         \A q \in Pid : pc'[q] \in LeavingIt <=> pc[q] \in LeavingIt
  PROVE  FgOK'
<1>1. /\ Live' = Live /\ isFg' = isFg /\ fg_pid' = fg_pid /\ stdin_reader' = stdin_reader
      /\ Live \subseteq Pid
  BY FgFacts DEF Live, SameFree, terminal
<1>2. QED
  BY <1>1, FgFacts DEF FgOK, ForegroundOK, Live, LeavingIt

LEMMA CreateFg ==
  ASSUME FgInv, fault = "none", NobodyExits, NEW p \in Live, NEW r, CreateInSlot(p, r),
         r.fg \in BOOLEAN, p_state[next_pid] = "FREE",
         \A q \in Pid : pc'[q] \notin ExitSteps
  PROVE  FgOK'
<1> DEFINE c == next_pid
<1>1. /\ p_state' = [p_state EXCEPT ![c] = "READY"]
      /\ isFg' = [isFg EXCEPT ![p] = @ /\ ~r.fg, ![c] = r.fg]
      /\ fg_pid' = (IF r.fg THEN c ELSE fg_pid) /\ stdin_reader' = (IF r.fg THEN c ELSE stdin_reader)
      /\ r.fg => isFg[p]
  BY DEF CreateInSlot
<1>2. c \in Pid /\ c \notin Live /\ c # p /\ \A q \in Pid : pc[q] \notin LeavingIt /\ pc'[q] \notin LeavingIt
  BY FgFacts DEF TypeOK, SlotsType, Live, NobodyExits, LeavingIt, ExitSteps
<1> HIDE DEF c
<1>3. /\ Live' = Live \cup {c} /\ p_state'[c] # "FREE" /\ isFg'[c] = r.fg
      /\ isFg'[p] = (isFg[p] /\ ~r.fg) /\ \A q \in Live \ {p} : isFg'[q] = isFg[q]
  BY <1>1, <1>2, FgFacts DEF Live
<1>4. fg_pid \in Live /\ isFg[fg_pid] /\ stdin_reader = fg_pid /\ \A q \in Live : isFg[q] => q = fg_pid
  BY <1>2, FgFacts
<1>5. CASE r.fg
  BY <1>1, <1>2, <1>3, <1>4, <1>5 DEF FgOK, ForegroundOK
<1>6. CASE ~r.fg
  <2>1. isFg'[fg_pid] /\ fg_pid \in Live' /\ fg_pid' = fg_pid /\ stdin_reader' = fg_pid
    BY <1>1, <1>2, <1>3, <1>4, <1>6
  <2>2. \A q \in Live' : isFg'[q] => q = fg_pid
    BY <1>3, <1>4, <1>6
  <2>3. pc'[fg_pid] \notin LeavingIt
    BY <1>2, FgFacts
  <2>4. QED
    BY <2>1, <2>2, <2>3 DEF FgOK, ForegroundOK, Live
<1>7. QED
  BY <1>5, <1>6

LEMMA KillFg ==
  ASSUME FgInv, fault = "none", NobodyExits, NEW q \in Pid, kill(q)
  PROVE  FgOK'
<1>1. /\ q \in Live /\ q > 2 /\ Live' = Live \ {q} /\ parent_pid[q] # q /\ parent_pid[q] \in Live
      /\ HandOver(q, [isFg EXCEPT ![q] = FALSE]) /\ pc' = [pc EXCEPT ![q] = "user"]
  <2>1. q \in Live /\ q > 2
    BY DEF kill, Live
  <2>2. Live' = Live \ {q}
    BY KillTree DEF FgInv
  <2>3. parent_pid[q] # q
    BY <2>1, PlacedParent DEF FgInv
  <2>4. QED
    BY <2>1, <2>2, <2>3, FgFacts DEF kill, FreeProcess
<1>2. \A p \in Pid : pc[p] \notin LeavingIt /\ pc'[p] \notin LeavingIt
  BY <1>1, FgFacts DEF NobodyExits, LeavingIt, ExitSteps
<1>3. fg_pid \in Live /\ isFg[fg_pid] /\ stdin_reader = fg_pid /\ \A p \in Live : isFg[p] => p = fg_pid
  BY <1>2, FgFacts
<1>4. CASE isFg[q]
  <2>1. HandsOver(q) /\ q = fg_pid
    BY <1>1, <1>3, <1>4 DEF HandsOver, Live
  <2>2. fg_pid' = parent_pid[q] /\ stdin_reader' = parent_pid[q]
        /\ isFg' = [[isFg EXCEPT ![q] = FALSE] EXCEPT ![parent_pid[q]] = TRUE]
    BY <1>1, <2>1 DEF HandOver
  <2>3. isFg'[fg_pid'] /\ fg_pid' \in Live' /\ \A p \in Live' : isFg'[p] => p = fg_pid'
    BY <1>1, <1>3, <2>1, <2>2, FgFacts
  <2>4. pc'[fg_pid'] \notin LeavingIt
    BY <1>1, <1>2, <2>2, FgFacts
  <2>5. QED
    BY <2>2, <2>3, <2>4 DEF FgOK, ForegroundOK, Live
<1>5. CASE ~isFg[q]
  <2>1. fg_pid' = fg_pid /\ stdin_reader' = fg_pid /\ isFg' = [isFg EXCEPT ![q] = FALSE] /\ q # fg_pid
    BY <1>1, <1>3, <1>5 DEF HandOver, HandsOver
  <2>2. isFg'[fg_pid] /\ fg_pid \in Live' /\ \A p \in Live' : isFg'[p] => p = fg_pid
    BY <1>1, <1>3, <2>1, FgFacts
  <2>3. QED
    BY <1>2, <2>1, <2>2, FgFacts DEF FgOK, ForegroundOK, Live
<1>6. QED
  BY <1>4, <1>5

LEMMA ExitFg ==
  ASSUME FgInv, fault = "none", NEW p \in Pid, Exit(p)
  PROVE  FgOK'
<1>1. p = running_pid /\ p \in Live /\ \A q \in Pid \ {p} : pc[q] \notin ExitSteps
  BY FgFacts DEF Exit, ExitUnlink, ExitTerminate, ExitNotify, ExitHandOver, ExitReparent, ExitFree,
                 Running, Doing, FgInv, ExitOK, InExit, SlotsInv, RunningAlive, Live
<1>2. CASE ExitUnlink(p) \/ ExitTerminate(p) \/ ExitNotify(p) \/ ExitReparent(p)
  <2>1. UNCHANGED terminal
    BY <1>2 DEF ExitUnlink, ExitTerminate, ExitNotify, ExitReparent
  <2>2. Live' = Live
    BY <1>2, ExitTree DEF FgInv, Exit, ExitUnlink, ExitTerminate, ExitNotify, ExitReparent, Running, Doing
  <2>3. SameFree(p_state, p_state')
    BY <2>2 DEF SameFree, Live
  <2>4. \/ pc[p] \in {"user", "terminate", "notify"} /\ \E to \in {"terminate", "notify", "hand_over"} : pc' = [pc EXCEPT ![p] = to]
        \/ pc[p] = "reparent" /\ pc' = [pc EXCEPT ![p] = "free"]
    BY <1>2 DEF ExitUnlink, ExitTerminate, ExitNotify, ExitReparent, Running, Doing
  <2>5. \A q \in Pid : pc'[q] \in LeavingIt <=> pc[q] \in LeavingIt
    BY <2>4, FgFacts DEF LeavingIt
  <2>6. QED
    BY <2>1, <2>3, <2>5, FgKept
<1>3. CASE ExitHandOver(p)
  <2>1. HandOver(p, isFg) /\ pc[p] = "hand_over" /\ pc' = [pc EXCEPT ![p] = "reparent"] /\ Live' = Live
    BY <1>3 DEF ExitHandOver, Running, table, Live
  <2>2. p > 2
    BY <2>1, FgFacts DEF FgInv, TreeInv, Immortal, ExitSteps
  <2>3. parent_pid[p] # p /\ parent_pid[p] \in Live
    BY <1>1, <2>2, PlacedParent, FgFacts DEF FgInv
  <2>4. /\ fg_pid \in Live /\ isFg[fg_pid] /\ stdin_reader = fg_pid /\ \A q \in Live : isFg[q] => q = fg_pid
        /\ \A q \in Pid \ {p} : pc'[q] \notin LeavingIt
        /\ pc'[p] \in LeavingIt
    BY <1>1, <2>1, FgFacts DEF LeavingIt, ExitSteps
  <2>5. CASE isFg[p]
    <3>1. HandsOver(p) /\ p = fg_pid
      BY <1>1, <2>3, <2>4, <2>5 DEF HandsOver, Live
    <3>2. fg_pid' = parent_pid[p] /\ stdin_reader' = parent_pid[p]
          /\ isFg' = [isFg EXCEPT ![parent_pid[p]] = TRUE]
      BY <2>1, <3>1 DEF HandOver
    <3>3. isFg'[fg_pid'] /\ fg_pid' \in Live' /\ \A q \in Live' : isFg'[q] => q = fg_pid' \/ q = p
      BY <2>1, <2>3, <2>4, <3>1, <3>2, FgFacts
    <3>4. pc'[fg_pid'] \notin LeavingIt
      BY <2>3, <2>4, <3>2, FgFacts
    <3>5. QED
      BY <2>4, <3>2, <3>3, <3>4 DEF FgOK, ForegroundOK, Live, LeavingIt
  <2>6. CASE ~isFg[p]
    <3>1. UNCHANGED <<fg_pid, stdin_reader, isFg>> /\ p # fg_pid
      BY <2>1, <2>4, <2>6 DEF HandOver, HandsOver
    <3>2. QED
      BY <2>1, <2>4, <3>1, FgFacts DEF FgOK, ForegroundOK, Live
  <2>7. QED
    BY <2>5, <2>6
<1>4. CASE ExitFree(p)
  <2>1. /\ pc[p] = "free" /\ isFg' = [isFg EXCEPT ![p] = FALSE] /\ fg_pid' = fg_pid /\ stdin_reader' = stdin_reader
        /\ pc' = [pc EXCEPT ![p] = "user"]
    BY <1>4 DEF ExitFree, Running, FreeProcess
  <2>2. Live' = Live \ {p}
    BY <1>4, <2>1, ExitTree DEF FgInv, Exit
  <2>3. p # fg_pid
    BY <2>1, FgFacts DEF LeavingIt
  <2>4. /\ fg_pid \in Live' /\ isFg'[fg_pid] /\ stdin_reader' = fg_pid
        /\ \A q \in Live' : isFg'[q] => q = fg_pid
        /\ pc'[fg_pid] \notin LeavingIt
    BY <1>1, <2>1, <2>2, <2>3, FgFacts DEF LeavingIt, ExitSteps
  <2>5. QED
    BY <2>1, <2>4 DEF FgOK, ForegroundOK, Live
<1>5. QED
  BY <1>2, <1>3, <1>4 DEF Exit

LEMMA SyscallFg ==
  ASSUME FgInv, fault = "none", NEW p \in Pid, Syscall(p)
  PROVE  FgOK'
<1>1. p = running_pid /\ p # TRIVIAL /\ pc[p] = "user" /\ p \in Live
  BY FgFacts DEF Syscall, Create, Yield, Sleep, Wait, Kill, Block, Unblock, Wake, Nice, DoingTo, Doing,
                 Running, SlotsInv, RunningAlive, Live
<1>2. NobodyExits
  BY <1>1, FgFacts, NobodyExitsThen DEF FgInv, ExitSteps
<1>3. CASE Create(p)
  <2>1. PICK r \in Spawns[program[p]] : createProcess(p, r)
    BY <1>3 DEF Create
  <2>2. r.fg \in BOOLEAN
    BY FgFacts, SchedulerAssumption DEF SchedulerAssumption, Request, TypeOK, FamilyType
  <2>3. /\ CreateInSlot(p, r) /\ pc' = pc /\ (fault' = "none" => p_state[next_pid] = "FREE")
    BY <2>1 DEF createProcess, CreateFault
  <2>4. CASE fault' = "none"
    BY <1>1, <1>2, <2>2, <2>3, <2>4, CreateFg DEF NobodyExits
  <2>5. CASE fault' # "none"
    BY <2>5 DEF FgOK, ForegroundOK
  <2>6. QED
    BY <2>4, <2>5
<1>4. CASE Yield(p)
  <2>1. SameFree(p_state, p_state')
    BY <1>4, FgFacts, ScheduleFree DEF Yield, SlotsInv, TrivialAlive
  <2>2. QED
    BY <1>4, <2>1, FgKept DEF Yield
<1>5. CASE Sleep(p)
  <2>1. ChangeState(p, p, "BLOCKED") /\ pc' = [pc EXCEPT ![p] = "sleep"]
    BY <1>5 DEF Sleep
  <2>2. UNCHANGED terminal /\ \A q \in Pid : pc'[q] \in LeavingIt <=> pc[q] \in LeavingIt
    BY <1>1, <2>1, FgFacts DEF ChangeState, LeavingIt
  <2>3. QED
    BY <2>1, <2>2, FgFacts, ChangeStateFree, FgKept
<1>6. CASE Wait(p)
  <2>1. pc' = [pc EXCEPT ![p] = "wait"] /\ UNCHANGED terminal
    BY <1>6 DEF Wait, waitPid
  <2>2. \A q \in Pid : pc'[q] \in LeavingIt <=> pc[q] \in LeavingIt
    BY <1>1, <2>1, FgFacts DEF LeavingIt
  <2>3. QED
    BY <1>6, <2>1, <2>2, FgFacts, WaitFree, FgKept
<1>7. ASSUME NEW q \in Pid, Kill(p, q)
      PROVE  FgOK'
  BY <1>2, <1>7, KillFg DEF Kill
<1>8. ASSUME NEW q \in Pid, Block(p, q) \/ Unblock(p, q) \/ Wake(p, q)
      PROVE  FgOK'
  <2>1. (ChangeState(p, q, "READY") \/ ChangeState(p, q, "BLOCKED")) /\ pc' = pc
    BY <1>8 DEF Block, Unblock, Wake
  <2>2. UNCHANGED terminal
    BY <2>1 DEF ChangeState
  <2>3. SameFree(p_state, p_state')
    BY <2>1, FgFacts, ChangeStateFree
  <2>4. QED
    BY <2>1, <2>2, <2>3, FgKept
<1>9. ASSUME NEW q \in Pid, NEW new \in 0 .. QtyPriorities - 1, Nice(p, q, new)
      PROVE  FgOK'
  BY <1>9, FgKept DEF Nice, SameFree
<1>10. QED
  BY <1>3, <1>4, <1>5, <1>6, <1>7, <1>8, <1>9 DEF Syscall

LEMMA FgStep ==
  ASSUME FgInv, [Next]_vars, [~ExitCut]_vars
  PROVE  FgOK'
<1>1. CASE UNCHANGED vars
  BY <1>1 DEF vars, table, terminal, FgInv, FgOK, ForegroundOK, Live
<1>2. CASE Next /\ ~ExitCut
  <2>1. fault = "none"
    BY <1>2 DEF Next
  <2>2. ASSUME NEW p \in Pid, Syscall(p)
        PROVE  FgOK'
    BY <2>1, <2>2, SyscallFg
  <2>3. ASSUME NEW p \in Pid, Exit(p)
        PROVE  FgOK'
    BY <2>1, <2>3, ExitFg
  <2>4. ASSUME NEW p \in Pid, Return(p)
        PROVE  FgOK'
    <3>1. /\ UNCHANGED <<p_state, terminal>> /\ pc' = [pc EXCEPT ![p] = "user"] /\ pc[p] \in {"wait", "sleep"}
      BY <2>4 DEF Return, table
    <3>2. \A q \in Pid : pc'[q] \in LeavingIt <=> pc[q] \in LeavingIt
      BY <2>1, <3>1, FgFacts DEF LeavingIt
    <3>3. QED
      BY <2>1, <3>1, <3>2, FgKept DEF SameFree
  <2>8. CASE QuietTick
    <3>1. SameFree(p_state, p_state')
      BY <2>8, QuietTickFacts DEF SameFree
    <3>2. QED
      BY <2>1, <2>8, <3>1, QuietTickFacts, FgKept
  <2>5. CASE Interrupt /\ ~QuietTick
    <3>2. NobodyExits
      BY <1>2, <2>1, <2>5, FgFacts, CallersDoNotExit, NobodyExitsThen DEF FgInv
    <3>3. CASE Tick
      <4>1. SameFree(p_state, p_state')
        BY <2>1, <2>5, <3>3, FgFacts, ScheduleFree DEF Tick, QuietTick, SlotsInv, TrivialAlive
      <4>2. QED
        BY <2>1, <3>3, <4>1, FgKept DEF Tick
    <3>4. CASE CtrlC
      BY <2>1, <3>2, <3>4, FgFacts, KillFg DEF CtrlC
    <3>5. ASSUME NEW q \in Pid, KeyWake(q)
          PROVE  FgOK'
      <4>1. ChangeState(running_pid, q, "READY") /\ pc' = pc
        BY <3>5 DEF KeyWake
      <4>2. SameFree(p_state, p_state')
        BY <2>1, <4>1, FgFacts, ChangeStateFree
      <4>3. QED
        BY <2>1, <4>1, <4>2, FgKept DEF ChangeState
    <3>6. QED
      BY <2>5, <3>3, <3>4, <3>5 DEF Interrupt
  <2>6. CASE Boot
    <3>1. /\ running_pid = TRIVIAL /\ pc[running_pid] \in {"boot", "set_next"} /\ TRIVIAL \in Live
          /\ \A q \in Pid : pc'[q] \in {pc[q], "set_next", "user"}
      BY <2>1, <2>6, FgFacts DEF Boot, BootCreate, BootSetNext, Running, SlotsInv, TrivialAlive, Live
    <3>2. NobodyExits
      BY <2>1, <3>1, FgFacts, CallersDoNotExit, NobodyExitsThen DEF FgInv
    <3>3. \A q \in Pid : pc'[q] \notin ExitSteps /\ pc[q] \notin ExitSteps
      BY <3>1, <3>2 DEF NobodyExits, ExitSteps
    <3>4. CASE BootCreate
      <4>1. PICK r \in Spawns["trivial"] : CreateInSlot(TRIVIAL, r)
        BY <3>4 DEF BootCreate
      <4>2. r.fg \in BOOLEAN
        BY SchedulerAssumption DEF SchedulerAssumption, Request
      <4>3. p_state[next_pid] = "FREE"
        BY <2>1, <3>4, FgFacts DEF BootCreate, Running, SlotsInv, SlotsOK
      <4>4. QED
        BY <2>1, <3>1, <3>2, <3>3, <4>1, <4>2, <4>3, CreateFg
    <3>5. CASE BootSetNext
      <4>1. UNCHANGED <<p_state, terminal>>
        BY <3>5 DEF BootSetNext, table
      <4>2. \A q \in Pid : pc'[q] \in LeavingIt <=> pc[q] \in LeavingIt
        BY <3>3 DEF LeavingIt, ExitSteps
      <4>3. QED
        BY <2>1, <4>1, <4>2, FgKept DEF SameFree
    <3>6. QED
      BY <2>6, <3>4, <3>5 DEF Boot
  <2>7. QED
    BY <1>2, <2>2, <2>3, <2>4, <2>5, <2>6, <2>8 DEF Next, Kernel
<1>3. QED
  BY <1>1, <1>2

(* The keyboard always belongs to one live process, which stdin reads for: *)
(* it is handed on by every creation in the foreground, every exit and     *)
(* every kill, ctrl-C included, for users' programs that form a tree below *)
(* one shell and as long as no interrupt cuts an exit short.               *)
THEOREM ForegroundCorrect ==
  ASSUME UserTree
  PROVE  Spec /\ [][~ExitCut]_vars => []ForegroundOK
<1>1. Init => FgOK
  <2> SUFFICES ASSUME Init
               PROVE  FgOK
    OBVIOUS
  <2>1. Live = {0} /\ TRIVIAL = 0 /\ 0 \in Pid
    BY FirstPids DEF Init, Live
  <2>2. fg_pid = 0 /\ stdin_reader = 0 /\ isFg[0] /\ pc[0] = "boot"
    BY <2>1 DEF Init
  <2>3. QED
    BY <2>1, <2>2 DEF FgOK, ForegroundOK, LeavingIt, Live
<1>2. TreeInv /\ ExitOK /\ FgOK /\ [Next]_vars /\ [~ExitCut]_vars => FgOK'
  BY FgStep DEF FgInv
<1>3. FgOK => ForegroundOK
  BY DEF FgOK
<1>4. QED
  BY <1>1, <1>2, <1>3, TreeAlways, ExitAlways, PTL DEF Spec

-----------------------------------------------------------------------------
(* Waking from waitPid().                                                  *)

(* sys_unblock() wakes any process that sleeps, on whatever it sleeps.     *)
NobodyUnblocks == \A m \in Main : "unblock" \notin Calls[m]

(* The only step that wakes who waits for a child is its death.            *)
LEMMA WaiterWoken ==
  ASSUME NobodyUnblocks, ReadyInv, TreeInv, TypeOK', Next, ~ExitCut, ~WokenAwake,
         NEW p \in Pid, pc[p] = "wait", waiting_pid[p] # ANY, p_state[p] = "BLOCKED", p \in Runnable'
  PROVE  p_state'[waiting_pid[p]] \in {"TERMINATED", "FREE"}
<1>1. /\ fault = "none" /\ TypeOK /\ p_state \in [Pid -> PState] /\ running_pid \in Pid
      /\ p \notin Runnable /\ p # running_pid /\ NoOwnParent /\ program \in [Pid -> Main]
      /\ p_state[running_pid] # "FREE" /\ TRIVIAL \in Pid
  BY TreeNoOwnParent, PidFacts
     DEF Next, ReadyInv, SlotsInv, TypeOK, TableType, FamilyType, Runnable, SingleRunning, RunningAlive
<1>2. ASSUME Runnable' \subseteq Runnable
      PROVE  FALSE
  BY <1>1, <1>2
<1>3. ASSUME p_state' = p_state
      PROVE  FALSE
  BY <1>1, <1>3 DEF Runnable
<1>4. ASSUME NobodyExits, NEW q \in Pid, kill(q)
      PROVE  p_state'[waiting_pid[p]] \in {"TERMINATED", "FREE"}
  <2>1. q \in Live \ {TRIVIAL} /\ q > 2
    BY <1>4 DEF kill, Live, TRIVIAL
  <2>2. fault' = "none"
    BY <1>1, <1>4, <2>1, KillReady DEF NoOwnParent
  <2>3. waiting_pid[p] = q
    BY <1>1, <1>4, <2>2, KillReady
  <2>4. Live' = Live \ {q}
    BY <1>1, <1>4, KillTree
  <2>5. QED
    BY <2>1, <2>3, <2>4 DEF Live
<1>5. ASSUME NEW x \in Pid, NEW r, CreateInSlot(x, r), p # next_pid
      PROVE  FALSE
  <2>1. p_state'[p] = p_state[p]
    BY <1>1, <1>5 DEF CreateInSlot
  <2>2. QED
    BY <1>1, <2>1 DEF Runnable
<1>6. ASSUME NEW x \in Pid, Exit(x)
      PROVE  p_state'[waiting_pid[p]] \in {"TERMINATED", "FREE"}
  <2>1. x = running_pid /\ pc[x] = "notify" /\ p = parent_pid[x] /\ waiting_pid[p] = x
    <3>1. pc[x] = "notify" /\ p = parent_pid[x] /\ waiting_pid[p] \in {x, ANY}
      BY <1>1, <1>6, ExitReady
    <3>2. x = running_pid
      BY <1>6 DEF Exit, ExitUnlink, ExitTerminate, ExitNotify, ExitHandOver, ExitReparent,
                  ExitFree, Running, Doing
    <3>3. QED
      BY <3>1, <3>2
  <2>2. p_state' = Notify(p_state, x) /\ p_state[x] = "TERMINATED"
    BY <1>1, <1>6, <2>1 DEF Exit, ExitUnlink, ExitTerminate, ExitNotify, ExitHandOver, ExitReparent,
           ExitFree, Running, Doing, ReadyInv, ReadyOK, RunningState
  <2>3. Notify(p_state, x)[x] = p_state[x]
    BY <1>1, <2>1 DEF Notify, SetState
  <2>4. QED
    BY <2>1, <2>2, <2>3
<1>7. ASSUME NEW x \in Pid, Syscall(x)
      PROVE  p_state'[waiting_pid[p]] \in {"TERMINATED", "FREE"}
  <2>1. x = running_pid /\ x # TRIVIAL /\ pc[x] = "user" /\ x # p
    BY <1>1, <1>7 DEF Syscall, Create, Yield, Sleep, Wait, Kill, Block, Unblock, Wake, Nice, DoingTo, Doing,
                 Running
  <2>2. NobodyExits
    BY <1>1, <2>1, NobodyExitsThen DEF ReadyInv, ExitSteps
  <2>3. \A r \in Pid : pc[r] \notin ExitSteps
    BY <2>2 DEF NobodyExits
  <2>4. CASE Create(x)
    <3>1. PICK r : createProcess(x, r)
      BY <2>4 DEF Create
    <3>2. CreateInSlot(x, r)
      BY <3>1 DEF createProcess
    <3>3. p # next_pid
      <4>1. CASE p_state[next_pid] = "FREE"
        BY <1>1, <4>1
      <4>2. CASE p_state[next_pid] # "FREE"
        <5>1. pc[TRIVIAL] = "set_next"
          BY <1>1, <4>2 DEF TreeInv, SlotsInv, SlotsOK
        <5>2. Live = {0, 1} /\ next_pid = 1
          BY <1>1, <5>1 DEF TreeInv, TreeOK, BootOK
        <5>3. x = 1
          BY <1>1, <2>1, <5>2 DEF Live, TRIVIAL
        <5>4. QED
          BY <2>1, <5>2, <5>3
      <4>3. QED
        BY <4>1, <4>2
    <3>4. QED
      BY <1>5, <3>2, <3>3
  <2>5. CASE Yield(x)
    BY <1>1, <1>2, <2>2, <2>5, RescheduleReady DEF Yield
  <2>6. CASE Sleep(x)
    <3>1. ChangeState(running_pid, x, "BLOCKED") /\ pc' = [pc EXCEPT ![x] = "sleep"]
      BY <2>1, <2>6 DEF Sleep
    <3>2. \A r \in Pid : pc'[r] \notin ExitSteps
      BY <1>1, <2>3, <3>1 DEF ExitSteps, TypeOK
    <3>3. QED
      BY <1>1, <1>2, <2>2, <3>1, <3>2, ChangeStateReady
  <2>7. CASE Wait(x)
    <3>1. /\ schedule([p_state EXCEPT ![x] = "BLOCKED"], remove(ready_processes, x), fault)
          /\ pc' = [pc EXCEPT ![x] = "wait"]
      BY <2>7 DEF Wait, waitPid
    <3>2. \A r \in Pid : pc'[r] \notin ExitSteps
      BY <1>1, <2>3, <3>1 DEF ExitSteps, TypeOK
    <3>3. QED
      BY <1>1, <1>2, <2>1, <2>2, <3>1, <3>2, BlockSelfReady
  <2>8. ASSUME NEW q \in Pid, Kill(x, q)
        PROVE  p_state'[waiting_pid[p]] \in {"TERMINATED", "FREE"}
    BY <1>4, <2>2, <2>8 DEF Kill
  <2>9. ASSUME NEW q \in Pid, Block(x, q)
        PROVE  FALSE
    <3>1. ChangeState(running_pid, q, "BLOCKED") /\ pc' = pc
      BY <2>1, <2>9 DEF Block
    <3>2. QED
      BY <1>1, <1>2, <2>2, <2>3, <3>1, ChangeStateReady
  <2>10. ASSUME NEW q \in Pid, Unblock(x, q)
         PROVE  FALSE
    BY <1>1, <2>10 DEF Unblock, DoingTo, Doing, NobodyUnblocks
  <2>11. ASSUME NEW q \in Pid, Wake(x, q)
         PROVE  FALSE
    <3>1. ChangeState(running_pid, q, "READY") /\ pc' = pc /\ q # p
      BY <2>1, <2>11 DEF Wake, Sleeper
    <3>2. Runnable' \subseteq Runnable \cup {q}
      BY <1>1, <2>2, <2>3, <3>1, ChangeStateReady
    <3>3. QED
      BY <1>1, <3>1, <3>2
  <2>12. ASSUME NEW q \in Pid, NEW new \in 0 .. QtyPriorities - 1, Nice(x, q, new)
         PROVE  FALSE
    BY <1>3, <2>12 DEF Nice
  <2>13. QED
    BY <1>7, <2>4, <2>5, <2>6, <2>7, <2>8, <2>9, <2>10, <2>11, <2>12 DEF Syscall
<1>12. CASE QuietTick
  BY <1>3, <1>12, QuietTickFacts
<1>8. CASE Interrupt /\ ~QuietTick
  <2>2. NobodyExits
    BY <1>1, <1>8, CallersDoNotExit, NobodyExitsThen DEF ReadyInv
  <2>3. \A r \in Pid : pc[r] \notin ExitSteps
    BY <2>2 DEF NobodyExits
  <2>4. CASE Tick
    BY <1>1, <1>2, <1>8, <2>2, <2>4, RescheduleReady DEF Tick, QuietTick
  <2>5. CASE CtrlC
    BY <1>1, <1>4, <2>2, <2>5 DEF CtrlC, TypeOK, TerminalType
  <2>6. ASSUME NEW q \in Pid, KeyWake(q)
        PROVE  FALSE
    <3>1. ChangeState(running_pid, q, "READY") /\ pc' = pc /\ q # p
      BY <2>6 DEF KeyWake, Sleeper
    <3>2. Runnable' \subseteq Runnable \cup {q}
      BY <1>1, <2>2, <2>3, <3>1, ChangeStateReady
    <3>3. QED
      BY <1>1, <3>1, <3>2
  <2>7. QED
    BY <1>8, <2>4, <2>5, <2>6 DEF Interrupt
<1>9. CASE Boot
  <2>1. CASE BootCreate
    <3>1. PICK r : CreateInSlot(TRIVIAL, r)
      BY <2>1 DEF BootCreate
    <3>2. p_state[next_pid] = "FREE"
      BY <1>1, <2>1 DEF BootCreate, Running, ReadyInv, SlotsInv, SlotsOK
    <3>3. QED
      BY <1>1, <1>5, <3>1, <3>2
  <2>2. CASE BootSetNext
    BY <1>3, <2>2 DEF BootSetNext, table
  <2>3. QED
    BY <1>9, <2>1, <2>2 DEF Boot
<1>10. ASSUME NEW x \in Pid, Return(x)
       PROVE  FALSE
  BY <1>3, <1>10 DEF Return, table
<1>11. QED
  BY <1>6, <1>7, <1>8, <1>9, <1>10, <1>12 DEF Next, Kernel

LEMMA WaitStep ==
  ASSUME NobodyUnblocks, ReadyInv, TreeInv, TypeOK', ExitOK', [Next]_vars, [~ExitCut]_vars, [~WokenAwake]_vars,
         NEW p \in Pid, pc[p] = "wait", waiting_pid[p] # ANY, p_state[p] = "BLOCKED",
         p_state'[p] \notin {"BLOCKED", "FREE"}
  PROVE  p_state'[waiting_pid[p]] \in {"TERMINATED", "FREE"}
<1>1. Next /\ ~ExitCut /\ ~WokenAwake
  BY DEF vars, table
<1>2. pc'[p] \notin ExitSteps
  BY ExitEntry DEF EntersOrStays, ReadyInv, SlotsInv, ExitSteps
<1>3. p_state'[p] \in {"READY", "RUNNING"}
  BY <1>2 DEF ExitOK, DeadExits, TypeOK, TableType, PState
<1>4. p # TRIVIAL
  BY DEF ReadyInv, SlotsInv, TrivialAlive
<1>5. p \in Runnable'
  BY <1>3, <1>4 DEF Runnable
<1>6. QED
  BY <1>1, <1>5, WaiterWoken

(* waitPid() on a child is left when that child is dead and not before,    *)
(* whatever else happens meanwhile: keys, ctrl-C, other deaths, the reuse  *)
(* of slots.  A program that unblocks the sleeper is the exception, and so *)
(* are the two steps that make the ready list wrong.                       *)
THEOREM WaitEndsWithChild ==
  ASSUME UserTree, NobodyUnblocks
  PROVE  Spec /\ [][~ExitCut]_vars /\ [][~WokenAwake]_vars => WaitsForDeath
<1> DEFINE Reported ==
             \A p \in Pid : (pc[p] = "wait" /\ waiting_pid[p] # ANY
                              /\ p_state[p] = "BLOCKED" /\ p_state'[p] \notin {"BLOCKED", "FREE"})
               => p_state'[waiting_pid[p]] \in {"TERMINATED", "FREE"}
<1>1. ReadyInv /\ TreeInv /\ TypeOK' /\ ExitOK' /\ [Next]_vars /\ [~ExitCut]_vars /\ [~WokenAwake]_vars
        => [Reported]_vars
  BY WaitStep
<1>2. WaitsForDeath <=> [][Reported]_vars
  BY DEF WaitsForDeath
<1> HIDE DEF Reported
<1>3. QED
  BY <1>1, <1>2, ReadyAlways, TreeAlways, TypeCorrect, ExitAlways, PTL DEF Spec

-----------------------------------------------------------------------------
(* Who can set the running process READY.                                  *)

(* What may do it is left out: ctrl-C, which may kill a child of the       *)
(* running process, and a process that starts while trivial() is still in  *)
(* the middle of its createProcess().                                      *)
Undisturbed == "ctrl_c" \notin Keys /\ "boot" \notin Windows /\ UserCalls

(* waiting_pid is never cleared, but only who waits sets it.               *)
WaitersWait ==
  \A p \in Pid : waiting_pid[p] # 0 => "wait" \in Calls[program[p]] \/ "wait_any" \in Calls[program[p]]

(* Nobody runs while trivial() looks for the slot of the next process.     *)
SetNextAlone == pc[TRIVIAL] = "set_next" => running_pid = TRIVIAL

NotOwnChild == fault = "none" => \A p \in Pid : ~HasChild(p, p)

LEMMA WaitersStep ==
  ASSUME TypeOK, WaitersWait, [Next]_vars
  PROVE  WaitersWait'
<1>1. /\ waiting_pid \in [Pid -> Pid \cup {ANY}] /\ program \in [Pid -> Main] /\ running_pid \in Pid
      /\ next_pid \in Pid /\ fg_pid \in Pid
  BY DEF TypeOK, TableType, FamilyType, SlotsType, TerminalType
<1>2. CASE UNCHANGED vars
  BY <1>2 DEF vars, family, WaitersWait
<1>3. CASE UNCHANGED <<waiting_pid, program>>
  BY <1>3 DEF WaitersWait
<1>4. ASSUME NEW q \in Pid, NEW parents, FreeProcess(q, parents)
      PROVE  WaitersWait'
  BY <1>1, <1>4 DEF FreeProcess, WaitersWait
<1>5. ASSUME NEW p \in Pid, NEW r, CreateInSlot(p, r)
      PROVE  WaitersWait'
  BY <1>1, <1>5 DEF CreateInSlot, WaitersWait
<1>6. CASE Boot
  BY <1>3, <1>5, <1>6, PidFacts DEF Boot, BootCreate, BootSetNext, family
<1>7. CASE Interrupt
  BY <1>1, <1>3, <1>4, <1>7 DEF Interrupt, Tick, CtrlC, KeyWake, ChangeState, kill, family
<1>8. ASSUME NEW p \in Pid, Syscall(p)
      PROVE  WaitersWait'
  <2>1. CASE Wait(p)
    <3>1. PICK q : waiting_pid' = [waiting_pid EXCEPT ![p] = q]
      BY <2>1 DEF Wait, waitPid
    <3>2. program' = program /\ ("wait" \in Calls[program[p]] \/ "wait_any" \in Calls[program[p]])
      BY <2>1 DEF Wait, waitPid, Doing
    <3>3. QED
      BY <1>1, <3>1, <3>2 DEF WaitersWait
  <2>2. CASE Create(p)
    BY <1>5, <2>2 DEF Create, createProcess
  <2>3. CASE \E q \in Pid : Kill(p, q)
    BY <1>4, <2>3 DEF Kill, kill
  <2>4. CASE ~ (Wait(p) \/ Create(p) \/ \E q \in Pid : Kill(p, q))
    <3>1. UNCHANGED family
      BY <1>8, <2>4 DEF Syscall, Yield, Sleep, Block, Unblock, Wake, Nice, ChangeState
    <3>2. QED
      BY <1>3, <3>1 DEF family
  <2>5. QED
    BY <2>1, <2>2, <2>3, <2>4
<1>9. ASSUME NEW p \in Pid, Kernel(p)
      PROVE  WaitersWait'
  <2>1. CASE ExitFree(p)
    BY <1>4, <2>1 DEF ExitFree
  <2>2. CASE ~ExitFree(p)
    <3>1. UNCHANGED <<waiting_pid, program>>
      BY <1>9, <2>2 DEF Kernel, Return, Exit, ExitUnlink, ExitTerminate, ExitNotify, ExitHandOver,
                        ExitReparent, family
    <3>2. QED
      BY <1>3, <3>1
  <2>3. QED
    BY <2>1, <2>2
<1>10. QED
  BY <1>2, <1>6, <1>7, <1>8, <1>9 DEF Next

LEMMA SetNextStep ==
  ASSUME Undisturbed, TypeOK, SetNextAlone, [Next]_vars
  PROVE  SetNextAlone'
<1>1. pc \in [Pid -> Place] /\ running_pid \in Pid /\ TRIVIAL \in Pid /\ fg_pid \in Pid
  BY PidFacts DEF TypeOK, TableType, TerminalType
<1>2. CASE UNCHANGED vars
  BY <1>2 DEF vars, table, SetNextAlone
<1>3. CASE Next /\ pc[TRIVIAL] = "set_next"
  <2>1. running_pid = TRIVIAL /\ ~InterruptsOn
    BY <1>3 DEF SetNextAlone, InterruptsOn, Undisturbed, ExitSteps
  <2>2. \A p \in Pid : ~Syscall(p)
    BY <2>1 DEF Syscall, Create, Yield, Sleep, Wait, Kill, Block, Unblock, Wake, Nice, DoingTo, Doing, Running
  <2>3. \A p \in Pid : ~Kernel(p)
    BY <1>3, <2>1 DEF Kernel, Return, Exit, ExitUnlink, ExitTerminate, ExitNotify, ExitHandOver, ExitReparent,
                      ExitFree, Doing, Running
  <2>4. ~Interrupt
    BY <2>1 DEF Interrupt, Tick, CtrlC, KeyWake
  <2>5. BootSetNext
    BY <1>3, <2>2, <2>3, <2>4 DEF Next, Boot, BootCreate, Running
  <2>6. QED
    BY <1>1, <2>5 DEF BootSetNext, SetNextAlone
<1>4. CASE Next /\ pc[TRIVIAL] # "set_next"
  <2> SUFFICES ASSUME pc'[TRIVIAL] = "set_next"
               PROVE  running_pid' = TRIVIAL
    BY DEF SetNextAlone
  <2>1. ASSUME NEW p \in Pid, NEW to, to # "set_next", pc' = [pc EXCEPT ![p] = to]
        PROVE  FALSE
    BY <1>1, <1>4, <2>1
  <2>2. pc' # pc
    BY <1>4
  <2>3. CASE Boot
    BY <1>1, <2>1, <2>3 DEF Boot, BootCreate, BootSetNext, Running, CreateInSlot
  <2>4. CASE Interrupt
    BY <1>1, <2>1, <2>2, <2>4 DEF Interrupt, Tick, CtrlC, KeyWake, kill, FreeProcess
  <2>5. ASSUME NEW p \in Pid, Syscall(p)
        PROVE  FALSE
    BY <2>1, <2>2, <2>5 DEF Syscall, Create, createProcess, Yield, Sleep, Wait, waitPid, Kill, kill, FreeProcess,
                            Block, Unblock, Wake, Nice
  <2>6. ASSUME NEW p \in Pid, Kernel(p)
        PROVE  FALSE
    BY <2>1, <2>6 DEF Kernel, Return, Exit, ExitUnlink, ExitTerminate, ExitNotify, ExitHandOver, ExitReparent,
                      ExitFree, FreeProcess
  <2>7. QED
    BY <1>4, <2>3, <2>4, <2>5, <2>6 DEF Next
<1>5. QED
  BY <1>2, <1>3, <1>4

LEMMA OwnChildStep ==
  ASSUME SlotsInv, NotOwnChild, [Next]_vars
  PROVE  NotOwnChild'
<1>1. CASE UNCHANGED vars
  BY <1>1 DEF vars, family, NotOwnChild, HasChild
<1>2. CASE Next /\ fault' = "none"
  <2>1. /\ fault = "none" /\ TypeOK /\ children \in [Pid -> Seq(Pid)] /\ \A p \in Pid : ~HasChild(p, p)
        /\ fg_pid \in Pid /\ next_pid \in Pid
    BY <1>2 DEF Next, NotOwnChild, SlotsInv, TypeOK, FamilyType, TerminalType, SlotsType
  <2>2. CASE UNCHANGED children
    BY <2>1, <2>2 DEF NotOwnChild, HasChild
  <2>3. ASSUME NEW q \in Pid, NEW parents, FreeProcess(q, parents)
        PROVE  NotOwnChild'
    <3>1. children' = [children EXCEPT ![q] = <<>>]
      BY <2>3 DEF FreeProcess
    <3>2. QED
      BY <2>1, <3>1 DEF NotOwnChild, HasChild
  <2>4. ASSUME NEW p \in Pid, NEW r, CreateInSlot(p, r), p_state[p] # "FREE", p_state[next_pid] = "FREE"
        PROVE  NotOwnChild'
    <3>1. PICK c \in Pid : c = next_pid
      BY <2>1
    <3>2. c # p /\ children' = [[children EXCEPT ![p] = Append(@, c)] EXCEPT ![c] = <<>>]
      BY <2>4, <3>1 DEF CreateInSlot
    <3>3. children'[c] = <<>> /\ children'[p] = Append(children[p], c)
          /\ \A x \in Pid \ {c, p} : children'[x] = children[x]
      BY <2>1, <3>2
    <3>4. /\ Len(Append(children[p], c)) = Len(children[p]) + 1 /\ Len(children[p]) \in Nat
          /\ \A i \in 1 .. Len(children[p]) : Append(children[p], c)[i] = children[p][i]
          /\ Append(children[p], c)[Len(children[p]) + 1] = c
      <4>1. children[p] \in Seq(Pid)
        BY <2>1
      <4>2. QED
        BY <4>1, AppendFacts, Zenon
    <3>5. \A i \in 1 .. Len(children[p]) + 1 : i \in 1 .. Len(children[p]) \/ i = Len(children[p]) + 1
      BY <3>4
    <3>6. \A i \in 1 .. Len(children[p]) + 1 : Append(children[p], c)[i] # p
      BY <2>1, <3>2, <3>4, <3>5, Zenon DEF HasChild
    <3>7. ~HasChild(p, p)'
      BY <3>3, <3>4, <3>6 DEF HasChild
    <3>8. ASSUME NEW x \in Pid \ {p}
          PROVE  ~HasChild(x, x)'
      <4>1. CASE x = c
        BY <3>3, <4>1 DEF HasChild
      <4>2. CASE x # c
        BY <2>1, <3>3, <4>2 DEF HasChild
      <4>3. QED
        BY <4>1, <4>2
    <3>9. QED
      BY <3>7, <3>8 DEF NotOwnChild
  <2>5. CASE Boot
    BY <2>1, <2>2, <2>4, <2>5, PidFacts
       DEF Boot, BootCreate, BootSetNext, family, Running, SlotsInv, SlotsOK, TrivialAlive
  <2>6. CASE Interrupt
    BY <2>1, <2>2, <2>3, <2>6 DEF Interrupt, Tick, CtrlC, KeyWake, ChangeState, kill, family
  <2>7. ASSUME NEW p \in Pid, Syscall(p)
        PROVE  NotOwnChild'
    <3>1. CASE Create(p)
      <4>1. PICK r : createProcess(p, r)
        BY <3>1 DEF Create
      <4>2. CreateInSlot(p, r) /\ p_state[next_pid] = "FREE"
        BY <1>2, <4>1 DEF createProcess, CreateFault
      <4>3. p_state[p] # "FREE"
        BY <2>1, <3>1 DEF Create, Doing, Running, SlotsInv, RunningAlive
      <4>4. QED
        BY <2>4, <4>2, <4>3
    <3>2. CASE \E q \in Pid : Kill(p, q)
      BY <2>3, <3>2 DEF Kill, kill
    <3>3. CASE ~ (Create(p) \/ \E q \in Pid : Kill(p, q))
      BY <2>2, <2>7, <3>3
         DEF Syscall, Yield, Sleep, Wait, waitPid, Block, Unblock, Wake, Nice, ChangeState, family
    <3>4. QED
      BY <3>1, <3>2, <3>3
  <2>8. ASSUME NEW p \in Pid, Kernel(p)
        PROVE  NotOwnChild'
    <3>1. CASE ExitFree(p)
      BY <2>3, <3>1 DEF ExitFree
    <3>2. CASE ~ExitFree(p)
      BY <2>2, <2>8, <3>2 DEF Kernel, Return, Exit, ExitUnlink, ExitTerminate, ExitNotify, ExitHandOver,
                        ExitReparent, family
    <3>3. QED
      BY <3>1, <3>2
  <2>9. QED
    BY <1>2, <2>5, <2>6, <2>7, <2>8 DEF Next
<1>3. QED
  BY <1>1, <1>2 DEF NotOwnChild

(* schedule() marks whom it chooses RUNNING.                               *)
LEMMA ScheduleAwake ==
  ASSUME TypeOK, TypeOK', NEW st \in [Pid -> PState], NEW l, NEW f, schedule(st, l, f)
  PROVE  ~WokenAwake
<1>1. PICK new : running_pid' = new /\ p_state' = [Left(st) EXCEPT ![new] = IF @ = "FREE" THEN @ ELSE "RUNNING"]
  BY DEF schedule
<1>2. new \in Pid
  BY <1>1 DEF TypeOK, TableType
<1>3. Left(st) \in [Pid -> PState]
  BY DEF Left, PState, TypeOK, TableType
<1>4. p_state'[new] \in {"FREE", "RUNNING"}
  BY <1>1, <1>2, <1>3
<1>5. QED
  BY <1>1, <1>4 DEF WokenAwake

LEMMA ChangeStateAwake ==
  ASSUME TypeOK, TypeOK', NEW q \in Pid, NEW new \in {"READY", "BLOCKED"}, ChangeState(running_pid, q, new),
         new = "READY" => q # running_pid
  PROVE  ~WokenAwake
<1>1. running_pid \in Pid /\ p_state \in [Pid -> PState]
      /\ SetState(p_state, q, new) = [p_state EXCEPT ![q] = new]
  BY DEF TypeOK, TableType, ChangeState, SetState
<1>2. CASE new = "BLOCKED" /\ q = running_pid
  <2>1. [p_state EXCEPT ![q] = new] \in [Pid -> PState]
    BY <1>1, <1>2 DEF PState
  <2>2. schedule([p_state EXCEPT ![q] = new], SetStateList(p_state, ready_processes, q, new), fault)
    BY <1>1, <1>2 DEF ChangeState
  <2>3. QED
    BY <2>1, <2>2, ScheduleAwake
<1>3. CASE ~ (new = "BLOCKED" /\ q = running_pid)
  BY <1>1, <1>3 DEF ChangeState, WokenAwake
<1>4. QED
  BY <1>2, <1>3

(* Who kills does not wait, and so is not woken by the death.              *)
LEMMA KillAwake ==
  ASSUME Undisturbed, TypeOK, TypeOK', WaitersWait, NEW q \in Pid, Kill(running_pid, q)
  PROVE  ~WokenAwake
<1> DEFINE p     == running_pid
           dead  == [p_state EXCEPT ![q] = "TERMINATED"]
           woken == Notify(dead, q)
<1>1. /\ p \in Pid /\ p_state \in [Pid -> PState] /\ kill(q) /\ "kill" \in Calls[program[p]] /\ q > 2
      /\ program[p] \in Main /\ dead \in [Pid -> PState]
  BY DEF Kill, DoingTo, Doing, kill, TypeOK, TableType, FamilyType, PState
<1>2. waiting_pid[p] = 0
  BY <1>1 DEF Undisturbed, UserCalls, WaitersWait
<1>3. waiting_pid[p] \notin {q, ANY}
  BY <1>1, <1>2 DEF ANY
<1>4. woken \in [Pid -> PState]
  BY <1>1, NotifyStates
<1>5. woken[p] = dead[p]
  BY <1>1, <1>3 DEF Notify, IsWaitingFor, SetState
<1>6. PICK l : Leave([woken EXCEPT ![q] = "FREE"], l, q)
  BY <1>1 DEF kill
<1>7. CASE q = p
  <2>1. [woken EXCEPT ![q] = "FREE"] \in [Pid -> PState]
    BY <1>4 DEF PState
  <2>2. schedule([woken EXCEPT ![q] = "FREE"], memFree(l, q), FreeFault(l, q))
    BY <1>6, <1>7 DEF Leave
  <2> HIDE DEF woken
  <2>3. QED
    BY <2>1, <2>2, ScheduleAwake
<1>8. CASE q # p
  <2>1. p_state'[p] = p_state[p]
    BY <1>1, <1>4, <1>5, <1>6, <1>8 DEF Leave
  <2>2. QED
    BY <2>1 DEF WokenAwake
<1>9. QED
  BY <1>7, <1>8

LEMMA ExitAwake ==
  ASSUME ReadyInv, TypeOK', fault = "none", NEW p \in Pid, Exit(p)
  PROVE  ~WokenAwake
<1>1. p = running_pid /\ TypeOK /\ p_state \in [Pid -> PState] /\ RunningState
  BY DEF Exit, ExitUnlink, ExitTerminate, ExitNotify, ExitHandOver, ExitReparent, ExitFree, Running, Doing,
         ReadyInv, ReadyOK, SlotsInv, TypeOK, TableType
<1>2. CASE ExitUnlink(p) \/ ExitHandOver(p) \/ ExitReparent(p)
  BY <1>2 DEF ExitUnlink, ExitHandOver, ExitReparent, table, WokenAwake
<1>3. CASE ExitTerminate(p)
  BY <1>1, <1>3 DEF ExitTerminate, WokenAwake
<1>4. CASE ExitNotify(p)
  BY <1>1, <1>4 DEF ExitNotify, Running, RunningState, WokenAwake
<1>5. CASE ExitFree(p)
  <2>1. [p_state EXCEPT ![p] = "FREE"] \in [Pid -> PState]
    BY <1>1 DEF PState
  <2>2. schedule([p_state EXCEPT ![p] = "FREE"], memFree(ready_processes, p), FreeFault(ready_processes, p))
    BY <1>1, <1>5 DEF ExitFree, Leave
  <2>3. QED
    BY <1>1, <2>1, <2>2, ScheduleAwake
<1>6. QED
  BY <1>2, <1>3, <1>4, <1>5 DEF Exit

LEMMA SyscallAwake ==
  ASSUME Undisturbed, ReadyInv, WaitersWait, NotOwnChild, SetNextAlone, TypeOK',
         fault = "none", NEW p \in Pid, Syscall(p)
  PROVE  ~WokenAwake
<1>1. /\ p = running_pid /\ p # TRIVIAL /\ TypeOK /\ pc[p] = "user" /\ p_state \in [Pid -> PState]
      /\ program \in [Pid -> Main] /\ ~HasChild(p, p)
  BY DEF Syscall, Create, Yield, Sleep, Wait, Kill, Block, Unblock, Wake, Nice, DoingTo, Doing, Running,
         ReadyInv, SlotsInv, TypeOK, TableType, FamilyType, NotOwnChild
<1>2. CASE Create(p)
  <2>1. PICK r : CreateInSlot(p, r)
    BY <1>2 DEF Create, createProcess
  <2>2. p_state' = [p_state EXCEPT ![next_pid] = "READY"] /\ next_pid \in Pid
    BY <1>1, <2>1 DEF CreateInSlot, TypeOK, SlotsType
  <2>3. p_state[next_pid] = "FREE" /\ p_state[p] # "FREE"
    BY <1>1 DEF SetNextAlone, ReadyInv, SlotsInv, SlotsOK, RunningAlive
  <2>4. QED
    BY <1>1, <2>2, <2>3 DEF WokenAwake
<1>3. CASE Yield(p)
  BY <1>1, <1>3, ScheduleAwake DEF Yield
<1>4. CASE Sleep(p)
  BY <1>1, <1>4, ChangeStateAwake DEF Sleep
<1>5. CASE Wait(p)
  <2>1. [p_state EXCEPT ![p] = "BLOCKED"] \in [Pid -> PState]
    BY <1>1 DEF PState
  <2>2. schedule([p_state EXCEPT ![p] = "BLOCKED"], remove(ready_processes, p), fault)
    BY <1>5 DEF Wait, waitPid
  <2>3. QED
    BY <1>1, <2>1, <2>2, ScheduleAwake
<1>6. ASSUME NEW q \in Pid, Kill(p, q)
      PROVE  ~WokenAwake
  BY <1>1, <1>6, KillAwake
<1>7. ASSUME NEW q \in Pid, Block(p, q)
      PROVE  ~WokenAwake
  BY <1>1, <1>7, ChangeStateAwake DEF Block
<1>8. ASSUME NEW q \in Pid, Unblock(p, q)
      PROVE  ~WokenAwake
  <2>1. HasChild(p, q)
    BY <1>1, <1>8 DEF Unblock, DoingTo, Doing, Undisturbed, UserCalls, HasChild
  <2>2. q # p
    BY <1>1, <2>1
  <2>3. QED
    BY <1>1, <1>8, <2>2, ChangeStateAwake DEF Unblock
<1>9. ASSUME NEW q \in Pid, Wake(p, q)
      PROVE  ~WokenAwake
  BY <1>1, <1>9, ChangeStateAwake DEF Wake, Sleeper
<1>10. ASSUME NEW q \in Pid, NEW new \in 0 .. QtyPriorities - 1, Nice(p, q, new)
       PROVE  ~WokenAwake
  BY <1>10 DEF Nice, WokenAwake
<1>11. QED
  BY <1>2, <1>3, <1>4, <1>5, <1>6, <1>7, <1>8, <1>9, <1>10 DEF Syscall

AwakeInv == WaitersWait /\ NotOwnChild /\ SetNextAlone

LEMMA AwakeStep ==
  ASSUME Undisturbed, ReadyInv, AwakeInv, TypeOK', [Next]_vars
  PROVE  [~WokenAwake]_vars
<1> SUFFICES ASSUME Next
             PROVE  ~WokenAwake
  OBVIOUS
<1>1. fault = "none" /\ TypeOK /\ p_state \in [Pid -> PState] /\ running_pid \in Pid
  BY DEF Next, ReadyInv, SlotsInv, TypeOK, TableType
<1>2. CASE Boot
  <2>1. CASE BootCreate
    <3>1. PICK r : CreateInSlot(TRIVIAL, r)
      BY <2>1 DEF BootCreate
    <3>2. p_state' = [p_state EXCEPT ![next_pid] = "READY"] /\ next_pid \in Pid
      BY <1>1, <3>1 DEF CreateInSlot, TypeOK, SlotsType
    <3>3. p_state[next_pid] = "FREE" /\ p_state[running_pid] # "FREE"
      BY <1>1, <2>1 DEF BootCreate, Running, ReadyInv, SlotsInv, SlotsOK, RunningAlive
    <3>4. QED
      BY <1>1, <3>2, <3>3 DEF WokenAwake
  <2>2. CASE BootSetNext
    BY <2>2 DEF BootSetNext, table, WokenAwake
  <2>3. QED
    BY <1>2, <2>1, <2>2 DEF Boot
<1>3. CASE Interrupt
  <2>1. CASE Tick
    BY <1>1, <2>1, ScheduleAwake DEF Tick, WokenAwake
  <2>2. ASSUME NEW q \in Pid, KeyWake(q)
        PROVE  ~WokenAwake
    <3>1. q # running_pid
      BY <2>2 DEF KeyWake, Sleeper, ReadyInv, SingleRunning
    <3>2. QED
      BY <1>1, <2>2, <3>1, ChangeStateAwake DEF KeyWake
  <2>3. QED
    BY <1>3, <2>1, <2>2 DEF Interrupt, CtrlC, Undisturbed
<1>4. ASSUME NEW p \in Pid, Syscall(p)
      PROVE  ~WokenAwake
  BY <1>1, <1>4, SyscallAwake DEF AwakeInv
<1>5. ASSUME NEW p \in Pid, Kernel(p)
      PROVE  ~WokenAwake
  BY <1>1, <1>5, ExitAwake DEF Kernel, Return, table, WokenAwake
<1>6. QED
  BY <1>2, <1>3, <1>4, <1>5 DEF Next

LEMMA AwakeInit == Init => AwakeInv
<1> SUFFICES ASSUME Init
             PROVE  AwakeInv
  OBVIOUS
<1>1. \A p \in Pid : children[p] = <<>> /\ waiting_pid[p] = 0
  BY DEF Init
<1>2. running_pid = TRIVIAL
  BY DEF Init
<1>3. QED
  BY <1>1, <1>2 DEF AwakeInv, WaitersWait, NotOwnChild, SetNextAlone, HasChild

(* Without ctrl-C no program of the image can bring the scheduler to set   *)
(* the running process READY, so that one of the two hypotheses of the     *)
(* theorems above falls away: unless an interrupt cuts an exit short the   *)
(* ready list is right, the scheduler implements module Cpu, and no freed  *)
(* node is read.                                                           *)
THEOREM SoundWithoutCtrlC ==
  ASSUME UserTree, Undisturbed
  PROVE  Spec /\ [][~ExitCut]_vars => []ReadyListOK /\ RunsRunnable /\ []NotDangling
<1>1. Init => AwakeInv /\ ReadyOK
  BY AwakeInit, ReadyInit
<1>2. TypeOK /\ SlotsInv /\ AwakeInv /\ [Next]_vars => AwakeInv'
  BY WaitersStep, OwnChildStep, SetNextStep DEF AwakeInv
<1>3. ReadyInv /\ AwakeInv /\ TypeOK' /\ [Next]_vars => [~WokenAwake]_vars
  BY AwakeStep
<1>4. ReadyInv /\ TypeOK' /\ [Next]_vars /\ [~ExitCut]_vars /\ [~WokenAwake]_vars => ReadyOK'
  BY ReadyStep
<1>5. Spec /\ [][~ExitCut]_vars => [][~WokenAwake]_vars
  BY <1>1, <1>2, <1>3, <1>4, TypeCorrect, SlotsAlways, OneProcessor, ExitAlways, PTL DEF Spec, ReadyInv
<1>6. QED
  BY <1>5, ReadyListSound, ImplementsCpu, NeverDangling, PTL
=============================================================================
