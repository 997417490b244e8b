---------------------------- MODULE Philosophers ----------------------------
(***************************************************************************)
(* Userland/Philosophers/philosophers.c on the semaphores of the kernel.   *)
(* The host, initPhilosopher(), seats the first philosophers and then adds *)
(* one for each 'a' the user types, kills the last one for each 'r', and   *)
(* closes at the end of the input.  A philosopher is a process: it creates *)
(* its forks, and eats with them for ever.                                 *)
(*                                                                         *)
(* As in TestSync every ready process may take the next step.  The number  *)
(* of philosophers is read without any protection, and a philosopher uses  *)
(* the value it read until it has put its forks down.  philo_state is only *)
(* shown on the screen and left out.                                       *)
(***************************************************************************)
EXTENDS Semaphores

CONSTANTS
  MAX_PHILOS, MIN_PHILO, INITIAL_PHILOS,
  PHILOS_STATE,      \* the name of the semaphore that guards the table
  MaxGuests,         \* bound: how many processes the host creates
  Keys               \* what the user types: "a", "r", "eof"

ASSUME PhilosophersAssumption ==
  /\ MIN_PHILO \in Nat \ {0, 1} /\ INITIAL_PHILOS \in Nat /\ MAX_PHILOS \in Nat
  /\ MIN_PHILO <= INITIAL_PHILOS /\ INITIAL_PHILOS <= MAX_PHILOS
  /\ MaxGuests \in Nat /\ INITIAL_PHILOS <= MaxGuests
  /\ PHILOS_STATE \notin Nat
  /\ Keys \subseteq {"a", "r", "eof"}

Fork  == 0 .. MAX_PHILOS - 1     \* palillos
Sem   == Fork \cup {PHILOS_STATE}
HOST  == 0
Guest == 1 .. MaxGuests          \* the pids, given out in this order
Proc  == {HOST} \cup Guest

VARIABLES
  philos_amount,
  philos_pid,
  next_pid,
  number,           \* philosopher_num of each guest
  right,            \* the fork it takes for its right one in this round
  pc,               \* the next statement of each process
  i                 \* the loop counter of the host when it closes

vars == <<sems, philos_amount, philos_pid, next_pid, number, right, pc, i>>

Init ==
  /\ InitSems(Sem, Proc, {HOST}, {PHILOS_STATE})
  /\ philos_amount = INITIAL_PHILOS
  /\ philos_pid = [n \in Fork |-> HOST]
  /\ next_pid = 1
  /\ number = [p \in Guest |-> 0]
  /\ right = [p \in Guest |-> 0]
  /\ pc = [p \in Proc |-> IF p = HOST THEN "open" ELSE "new_own"]
  /\ i = 0

Go(p, from, to) ==
  /\ pc[p] = from /\ CanRun(p)
  /\ pc' = [pc EXCEPT ![p] = to]

(* sys_sem_wait(s), and on to the next statement when it comes back.       *)
Wait(p, s, from, to) ==
  /\ Go(p, from, IF Returns(s, p) THEN to ELSE from)
  /\ semWait(s, p)

-----------------------------------------------------------------------------
(* The host.                                                               *)

Seat(n) ==
  /\ setState(next_pid, "READY")
  /\ philos_pid' = [philos_pid EXCEPT ![n] = next_pid]
  /\ number' = [number EXCEPT ![next_pid] = n]
  /\ next_pid' = next_pid + 1

Open ==
  /\ IF next_pid <= INITIAL_PHILOS
     THEN Go(HOST, "open", "open") /\ Seat(next_pid - 1)
     ELSE Go(HOST, "open", "read") /\ UNCHANGED <<sems, philos_pid, next_pid, number>>
  /\ UNCHANGED <<philos_amount, right, i>>

Full == philos_amount = MAX_PHILOS

Key ==
  /\ \/ /\ "a" \in Keys /\ (next_pid <= MaxGuests \/ Full)
        /\ Go(HOST, "read", "add")
     \/ "r" \in Keys /\ Go(HOST, "read", "remove")
     \/ "eof" \in Keys /\ Go(HOST, "read", "close")
  /\ UNCHANGED <<sems, philos_amount, philos_pid, next_pid, number, right, i>>

(* addPhilosopher(), removePhilosopher() and the end of initPhilosopher()  *)
(* start by taking PHILOS_STATE.                                           *)
Enter ==
  /\ \/ Wait(HOST, PHILOS_STATE, "add", "add_amount")
     \/ Wait(HOST, PHILOS_STATE, "remove", "remove_amount")
     \/ Wait(HOST, PHILOS_STATE, "close", "close_kill")
  /\ UNCHANGED <<philos_amount, philos_pid, next_pid, number, right, i>>

AddAmount ==
  /\ IF Full
     THEN Go(HOST, "add_amount", "leave") /\ UNCHANGED philos_amount
     ELSE /\ Go(HOST, "add_amount", "add_seat")
          /\ philos_amount' = philos_amount + 1
  /\ UNCHANGED <<sems, philos_pid, next_pid, number, right, i>>

AddSeat ==
  /\ Go(HOST, "add_seat", "leave")
  /\ Seat(philos_amount - 1)
  /\ UNCHANGED <<philos_amount, right, i>>

FewestTooLate == philos_amount < MIN_PHILO

Fewest == philos_amount = MIN_PHILO

RemoveAmount ==
  /\ IF Fewest
     THEN Go(HOST, "remove_amount", "leave") /\ UNCHANGED philos_amount
     ELSE /\ Go(HOST, "remove_amount", "remove_kill")
          /\ philos_amount' = philos_amount - 1
  /\ UNCHANGED <<sems, philos_pid, next_pid, number, right, i>>

(* The victim is the philosopher behind the last one that stays.           *)
VictimTooFar == philos_pid[philos_amount - 1]

Victim == philos_pid[philos_amount]

RemoveKill ==
  /\ Go(HOST, "remove_kill", "leave")
  /\ kill(Victim, {})
  /\ UNCHANGED <<philos_amount, philos_pid, next_pid, number, right, i>>

Leave ==
  /\ Go(HOST, "leave", "read")
  /\ semPost(PHILOS_STATE)
  /\ UNCHANGED <<philos_amount, philos_pid, next_pid, number, right, i>>

(* Closing time: philosopher i is killed and fork i destroyed, for all i.  *)
CloseKill ==
  /\ i < MAX_PHILOS
  /\ Go(HOST, "close_kill", "close_fork")
  /\ IF i < philos_amount THEN kill(philos_pid[i], {}) ELSE UNCHANGED sems
  /\ UNCHANGED <<philos_amount, philos_pid, next_pid, number, right, i>>

CloseFork ==
  /\ Go(HOST, "close_fork", "close_kill")
  /\ semDestroy(i)
  /\ i' = i + 1
  /\ UNCHANGED <<philos_amount, philos_pid, next_pid, number, right>>

CloseLeave ==
  /\ \/ i = MAX_PHILOS /\ Go(HOST, "close_kill", "close_state") /\ semPost(PHILOS_STATE)
     \/ Go(HOST, "close_state", "end") /\ semDestroy(PHILOS_STATE)
  /\ UNCHANGED <<philos_amount, philos_pid, next_pid, number, right, i>>

Host == \/ Open \/ Enter \/ AddAmount \/ AddSeat \/ RemoveAmount \/ RemoveKill
        \/ Leave \/ CloseKill \/ CloseFork \/ CloseLeave

-----------------------------------------------------------------------------
(* philosopher().                                                          *)
RightOf(n) == (n + 1) % philos_amount

(* The odd ones take their own fork first, the others the right one.       *)
FirstForkOwn(p) == number[p]

FirstFork(p) == IF number[p] % 2 = 1 THEN number[p] ELSE right[p]

SecondFork(p) == IF FirstFork(p) = number[p] THEN right[p] ELSE number[p]

NewOwn(p) ==
  /\ Go(p, "new_own", "new_right")
  /\ newSemaphore(number[p], 1)
  /\ UNCHANGED right

NewRight(p) ==
  /\ Go(p, "new_right", "look")
  /\ newSemaphore(RightOf(number[p]), 1)
  /\ UNCHANGED right

Look(p) ==
  /\ Go(p, "look", "first")
  /\ right' = [right EXCEPT ![p] = RightOf(number[p])]
  /\ UNCHANGED sems

Take(p) ==
  /\ \/ Wait(p, FirstFork(p), "first", "second")
     \/ Wait(p, SecondFork(p), "second", "eat")
  /\ UNCHANGED right

(* eat() prints the table while it holds PHILOS_STATE.                     *)
Eat(p) ==
  /\ \/ Wait(p, PHILOS_STATE, "eat", "show")
     \/ Go(p, "show", "put_own") /\ semPost(PHILOS_STATE)
  /\ UNCHANGED right

Put(p) ==
  /\ \/ Go(p, "put_own", "put_right") /\ semPost(number[p])
     \/ Go(p, "put_right", "look") /\ semPost(right[p])
  /\ UNCHANGED right

Philosopher(p) ==
  /\ NewOwn(p) \/ NewRight(p) \/ Look(p) \/ Take(p) \/ Eat(p) \/ Put(p)
  /\ UNCHANGED <<philos_amount, philos_pid, next_pid, number, i>>

-----------------------------------------------------------------------------
Next == Host \/ Key \/ \E p \in Guest : Philosopher(p)

Spec == Init /\ [][Next]_vars

(* Every ready process gets the processor; no key has to be pressed.       *)
FairSpec == Spec /\ WF_vars(Host) /\ \A p \in Guest : WF_vars(Philosopher(p))

-----------------------------------------------------------------------------
(* Every variable has its type.                                            *)
Place ==
  {"open", "read", "add", "add_amount", "add_seat", "remove", "remove_amount",
   "remove_kill", "leave", "close", "close_kill", "close_fork", "close_state", "end",
   "new_own", "new_right", "look", "first", "second", "eat", "show", "put_own", "put_right"}

TypeOK ==
  /\ SemTypeOK(Sem, Proc)
  /\ philos_amount \in MIN_PHILO .. MAX_PHILOS
  /\ philos_pid \in [Fork -> Proc]
  /\ next_pid \in 1 .. MaxGuests + 1
  /\ number \in [Guest -> Fork] /\ right \in [Guest -> Fork]
  /\ pc \in [Proc -> Place]
  /\ i \in 0 .. MAX_PHILOS

Seated == {p \in Guest : p_state[p] # "TERMINATED"}

(* The forks a philosopher eats with, or has taken already.                *)
Holds(p) ==
  CASE pc[p] = "second"                      -> {FirstFork(p)}
    [] pc[p] \in {"eat", "show", "put_own"}  -> {number[p], right[p]}
    [] pc[p] = "put_right"                   -> {right[p]}
    [] OTHER                                 -> {}

(* No fork is in two hands, although both neighbours create it.            *)
ForksExclusive == \A p, q \in Seated : p # q => Holds(p) \cap Holds(q) = {}

(* PHILOS_STATE guards the table: one process at a time is inside, the     *)
(* semaphore is free if and only if nobody is, and no philosopher is       *)
(* killed while it is inside, so that the permit is never lost.            *)
InTable(p) ==
  pc[p] \in {"show", "add_amount", "add_seat", "remove_amount", "remove_kill", "leave",
             "close_kill", "close_fork"}

TableGuarded ==
  pc[HOST] # "end" =>
    /\ \A p \in Proc : InTable(p) => p_state[p] = "READY" /\ value[PHILOS_STATE] = 0
    /\ \A p, q \in Proc : InTable(p) /\ InTable(q) => p = q
    /\ (\A p \in Proc : ~InTable(p)) => value[PHILOS_STATE] = 1

(* When the host has closed, no philosopher is left.                       *)
NobodyStays == pc[HOST] = "end" => Seated = {}

(* The table never jams, although philosophers are killed and may take     *)
(* forks with them: the host gets back to the keyboard or to the end, or   *)
(* philosophers keep showing the table.  More is not promised, because a   *)
(* semaphore is not fair.                                                  *)
NeverJams ==
  \/ []<>(pc[HOST] \in {"read", "end"})
  \/ []<>(\E p \in Seated : pc[p] = "show")

(* While the restaurant is open somebody eats, again and again.            *)
SomebodyEats == <>[](pc[HOST] = "read") => []<>(\E p \in Seated : pc[p] = "eat")
=============================================================================
