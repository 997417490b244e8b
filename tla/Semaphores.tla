----------------------------- MODULE Semaphores -----------------------------
(***************************************************************************)
(* The semaphores of Kernel/semaphores.c, as actions that the module of a  *)
(* program puts into its steps.                                            *)
(*                                                                         *)
(* A system call runs with interrupts off and gives the lock back before   *)
(* it sleeps, so no call finds the lock taken: each call is one step, and  *)
(* lock and lockQueue are left out.  What is not atomic is semWait(),      *)
(* whose caller sleeps in the middle.                                      *)
(***************************************************************************)
EXTENDS Integers, Sequences, FiniteSets

VARIABLES
  open,      \* the names that are in sems
  value,
  queue,     \* the pids in the waiting queue, dead ones too
  inside,    \* who is in the loop of semWait(), asleep or about to look again
  lost,      \* who is in the loop of a semaphore that was freed: undefined
  p_state    \* READY stands for RUNNING too, TERMINATED for a pid nobody has

sems == <<open, value, queue, inside, lost, p_state>>

SemTypeOK(Sem, Proc) ==
  /\ open \in SUBSET Sem
  /\ value \in [Sem -> Nat]
  /\ queue \in [Sem -> Seq(Proc)]
  /\ inside \in [Sem -> SUBSET Proc]
  /\ lost \in SUBSET Proc
  /\ p_state \in [Proc -> {"READY", "BLOCKED", "TERMINATED"}]

(* The processes of started are there, and the semaphores of opened, with  *)
(* one permit each.                                                        *)
InitSems(Sem, Proc, started, opened) ==
  /\ open = opened
  /\ value = [s \in Sem |-> IF s \in opened THEN 1 ELSE 0]
  /\ queue = [s \in Sem |-> <<>>]
  /\ inside = [s \in Sem |-> {}]
  /\ lost = {}
  /\ p_state = [p \in Proc |-> IF p \in started THEN "READY" ELSE "TERMINATED"]

CanRun(p) == p_state[p] = "READY" /\ p \notin lost

-----------------------------------------------------------------------------
(* newSemaphore(): nothing happens to one that exists.                     *)
newSemaphoreAgain(s, initial_value) ==
  /\ open' = open \cup {s}
  /\ value' = [value EXCEPT ![s] = initial_value]
  /\ UNCHANGED <<queue, inside, lost, p_state>>

newSemaphore(s, initial_value) ==
  /\ open' = open \cup {s}
  /\ value' = IF s \in open THEN value ELSE [value EXCEPT ![s] = initial_value]
  /\ UNCHANGED <<queue, inside, lost, p_state>>

(* semDestroy(): who is inside holds a pointer to freed memory.            *)
semDestroy(s) ==
  /\ open' = open \ {s}
  /\ value' = [value EXCEPT ![s] = 0]
  /\ queue' = [queue EXCEPT ![s] = <<>>]
  /\ inside' = [inside EXCEPT ![s] = {}]
  /\ lost' = lost \cup inside[s]
  /\ UNCHANGED p_state

(* releaseFirstP(): the entries of dead processes are thrown away, and the *)
(* first one of a live process ends the search, asleep or not.             *)
LiveEntries(s) == {i \in 1 .. Len(queue[s]) : p_state[queue[s][i]] # "TERMINATED"}

First(S) == CHOOSE i \in S : \A j \in S : i <= j

Released(s, i) ==
  /\ p_state' = [p_state EXCEPT ![queue[s][i]] = "READY"]
  /\ queue' = [queue EXCEPT ![s] = SubSeq(@, i + 1, Len(@))]

releaseHead(s) ==
  \/ queue[s] = <<>> /\ UNCHANGED <<queue, p_state>>
  \/ queue[s] # <<>> /\ 1 \in LiveEntries(s) /\ Released(s, 1)
  \/ queue[s] # <<>> /\ 1 \notin LiveEntries(s) /\ queue' = [queue EXCEPT ![s] = Tail(@)] /\ UNCHANGED p_state

releaseFirstP(s) ==
  \/ LiveEntries(s) = {} /\ queue' = [queue EXCEPT ![s] = <<>>] /\ UNCHANGED p_state
  \/ LiveEntries(s) # {} /\ Released(s, First(LiveEntries(s)))

(* semPost().  The variant wakes nobody.                                   *)
semPostSilent(s) ==
  /\ value' = IF s \in open THEN [value EXCEPT ![s] = @ + 1] ELSE value
  /\ UNCHANGED <<open, queue, inside, lost, p_state>>

semPost(s) ==
  \/ s \notin open /\ UNCHANGED sems
  \/ /\ s \in open
     /\ value' = [value EXCEPT ![s] = @ + 1]
     /\ releaseFirstP(s)
     /\ UNCHANGED <<open, inside, lost>>

(* semWait(), each time its caller p looks at the value: it comes back     *)
(* with a permit, it comes back with -1 because the name is not there, or  *)
(* it goes to sleep.  The variant does not look again after the sleep.     *)
ReturnsWoken(s, p) == s \notin open \/ value[s] > 0 \/ p \in inside[s]

Returns(s, p) == s \notin open \/ value[s] > 0

semWait(s, p) ==
  \/ s \notin open /\ UNCHANGED sems
  \/ /\ s \in open /\ Returns(s, p)
     /\ value' = [value EXCEPT ![s] = @ - 1]
     /\ inside' = [inside EXCEPT ![s] = @ \ {p}]
     /\ UNCHANGED <<open, queue, lost, p_state>>
  \/ /\ ~Returns(s, p)
     /\ queue' = [queue EXCEPT ![s] = Append(@, p)]
     /\ inside' = [inside EXCEPT ![s] = @ \cup {p}]
     /\ p_state' = [p_state EXCEPT ![p] = "BLOCKED"]
     /\ UNCHANGED <<open, value, lost>>

-----------------------------------------------------------------------------
(* The rest of the kernel, as far as it meets the semaphores: createProcess *)
(* and waitPid(), and kill(), which leaves the values and the queues alone *)
(* and may wake the parent of the victim.                                  *)
setState(p, state) ==
  /\ p_state' = [p_state EXCEPT ![p] = state]
  /\ UNCHANGED <<open, value, queue, inside, lost>>

kill(p, woken) ==
  /\ p_state' = [q \in DOMAIN p_state |-> IF q = p THEN "TERMINATED"
                                          ELSE IF q \in woken THEN "READY" ELSE p_state[q]]
  /\ inside' = [s \in DOMAIN inside |-> inside[s] \ {p}]
  /\ lost' = lost \ {p}
  /\ UNCHANGED <<open, value, queue>>

-----------------------------------------------------------------------------
(* No wake-up of s is lost: while someone sleeps, every permit is matched  *)
(* by a process that was woken and has still to look.                      *)
Asleep(s) == {p \in inside[s] : p_state[p] = "BLOCKED"}
Woken(s)  == {p \in inside[s] : p_state[p] = "READY"}

NoneLost(s) == Asleep(s) # {} => value[s] <= Cardinality(Woken(s))
=============================================================================
