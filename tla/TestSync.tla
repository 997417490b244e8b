------------------------------ MODULE TestSync ------------------------------
(***************************************************************************)
(* test_sync: Userland/Testing/test_sync.c, with semaphores.  Its process  *)
(* starts pairs of workers, one that decrements a shared number and one    *)
(* that increments it, waits once for each, and destroys the semaphore.    *)
(*                                                                         *)
(* Statements of user code and system calls are steps; the timer switches  *)
(* processes between any two of them, so every process that is ready may   *)
(* take the next step.                                                     *)
(***************************************************************************)
EXTENDS Semaphores

CONSTANTS
  Pairs,    \* TOTAL_PAIR_PROCESSES
  N         \* the first argument: how often each worker changes the number

ASSUME TestSyncAssumption == Pairs \in Nat \ {0} /\ N \in Nat \ {0}

SEM    == "sem"
Parent == 0
Worker == 1 .. 2 * Pairs

VARIABLES
  global,    \* the shared number
  aux,       \* slowInc(): the local copy of each worker
  done,      \* how many rounds each worker has finished
  pc,        \* the next statement of each worker
  main,      \* the next statement of test_sync()
  waits      \* how many sys_wait_pid() it has behind it

vars == <<sems, global, aux, done, pc, main, waits>>

Init ==
  /\ InitSems({SEM}, {Parent} \cup Worker, {Parent}, {})
  /\ global = 0
  /\ aux = [w \in Worker |-> 0]
  /\ done = [w \in Worker |-> 0]
  /\ pc = [w \in Worker |-> "sem_new"]
  /\ main = "create"
  /\ waits = 0

(* The odd workers are the decrementers, which are created first.          *)
inc(w) == IF w % 2 = 1 THEN -1 ELSE 1

-----------------------------------------------------------------------------
(* test_sync().                                                            *)
At(place) == main = place /\ CanRun(Parent)

Absent == {w \in Worker : p_state[w] = "TERMINATED" /\ pc[w] = "sem_new"}

Create ==
  /\ At("create")
  /\ IF Absent # {}
     THEN setState(First(Absent), "READY") /\ UNCHANGED main
     ELSE UNCHANGED sems /\ main' = "wait"
  /\ UNCHANGED <<global, aux, done, pc, waits>>

(* sys_wait_pid(-1), once for each worker: asleep until the next death of  *)
(* one.  The variant waits once for each pair.                             *)
NeededPerPair == Pairs

Needed == 2 * Pairs

Wait ==
  /\ At("wait") /\ waits < Needed
  /\ setState(Parent, "BLOCKED")
  /\ waits' = waits + 1
  /\ UNCHANGED <<global, aux, done, pc, main>>

Destroy ==
  /\ At("wait") /\ waits = Needed
  /\ semDestroy(SEM)
  /\ main' = "print"
  /\ UNCHANGED <<global, aux, done, pc, waits>>

-----------------------------------------------------------------------------
(* my_process_inc().                                                       *)
Go(w, from, to) ==
  /\ pc[w] = from /\ CanRun(w)
  /\ pc' = [pc EXCEPT ![w] = to]
  /\ UNCHANGED <<main, waits>>

New(w) ==
  /\ Go(w, "sem_new", "sem_wait")
  /\ newSemaphore(SEM, 1)
  /\ UNCHANGED <<global, aux, done>>

SemWait(w) ==
  /\ Go(w, "sem_wait", IF Returns(SEM, w) THEN "read" ELSE "sem_wait")
  /\ semWait(SEM, w)
  /\ UNCHANGED <<global, aux, done>>

(* slowInc() reads the number, yields, and writes it back.                 *)
Read(w) ==
  /\ Go(w, "read", "write")
  /\ aux' = [aux EXCEPT ![w] = global]
  /\ UNCHANGED <<sems, global, done>>

Write(w) ==
  /\ Go(w, "write", "sem_post")
  /\ global' = aux[w] + inc(w)
  /\ UNCHANGED <<sems, aux, done>>

SemPost(w) ==
  /\ Go(w, "sem_post", IF done[w] + 1 < N THEN "sem_wait" ELSE "exit")
  /\ semPost(SEM)
  /\ done' = [done EXCEPT ![w] = @ + 1]
  /\ UNCHANGED <<global, aux>>

(* The death of a worker wakes its parent if it waits: kill().             *)
WakesParent == IF p_state[Parent] = "BLOCKED" THEN {Parent} ELSE {}

Exit(w) ==
  /\ Go(w, "exit", "dead")
  /\ kill(w, WakesParent)
  /\ UNCHANGED <<global, aux, done>>

-----------------------------------------------------------------------------
Work(w) == New(w) \/ SemWait(w) \/ Read(w) \/ Write(w) \/ SemPost(w) \/ Exit(w)

Main == Create \/ Wait \/ Destroy

Next == Main \/ \E w \in Worker : Work(w)

Spec == Init /\ [][Next]_vars

(* Every ready process gets the processor: NoStarvation of Scheduler.      *)
FairSpec == Spec /\ WF_vars(Main) /\ \A w \in Worker : WF_vars(Work(w))

-----------------------------------------------------------------------------
(* Every variable has its type.                                            *)
Place == {"sem_new", "sem_wait", "read", "write", "sem_post", "exit", "dead"}

TypeOK ==
  /\ SemTypeOK({SEM}, {Parent} \cup Worker)
  /\ global \in Int /\ aux \in [Worker -> Int]
  /\ done \in [Worker -> 0 .. N]
  /\ pc \in [Worker -> Place]
  /\ main \in {"create", "wait", "print"}
  /\ waits \in 0 .. 2 * Pairs

(* Between semWait() and semPost() there is one worker, who took the only  *)
(* permit: every worker calls newSemaphore(), a sleeper competes with      *)
(* newcomers for the permit, and the copy it holds must not get old.       *)
Critical(w) == pc[w] \in {"read", "write", "sem_post"}

Exclusion ==
  /\ \A v, w \in Worker : Critical(v) /\ Critical(w) => v = w
  /\ \A w \in Worker : pc[w] = "write" => aux[w] = global

(* While a worker sleeps, a permit that is free is on its way to a worker  *)
(* that was woken: semPost() and the newcomer that takes the permit first  *)
(* never leave a sleeper behind with a free permit.                        *)
NoLostWakeup == NoneLost(SEM)

(* When test_sync() has waited often enough all workers are dead, so that  *)
(* it destroys a semaphore nobody is inside of: each sys_wait_pid(-1)      *)
(* returns for a different death.                                          *)
NobodyLeft == main = "print" => lost = {} /\ \A w \in Worker : pc[w] = "dead"

(* What it prints is 0: no increment and no decrement was overwritten.     *)
FinalValue == main = "print" => global = 0

(* Every worker ends its rounds, although the semaphore is not fair.       *)
WorkersEnd == <>(\A w \in Worker : pc[w] = "dead")
=============================================================================
