--------------------------- MODULE TestSyncProofs ---------------------------
(***************************************************************************)
(* What holds of test_sync for any number of pairs and of rounds.          *)
(***************************************************************************)
EXTENDS TestSync, CommonProofs, FiniteSetTheorems, FunctionTheorems

-----------------------------------------------------------------------------
(* The inductive invariant, in parts.                                      *)

Queue == queue[SEM]
Dead  == {w \in Worker : pc[w] = "dead"}

(* The queue holds the sleepers, each of them once.                        *)
QueueOK ==
  /\ Queue \in Seq(Worker)
  /\ \A j \in 1 .. Len(Queue) : Queue[j] \in Asleep(SEM)
  /\ \A j, k \in 1 .. Len(Queue) : Queue[j] = Queue[k] => j = k
  /\ \A w \in Asleep(SEM) : \E j \in 1 .. Len(Queue) : Queue[j] = w

(* Nobody has a pointer to freed memory, and a worker sleeps in semWait()  *)
(* only, is absent before it is created and after it is dead only, and has *)
(* rounds left until it exits.                                             *)
WorkersOK ==
  /\ lost = {}
  /\ inside[SEM] \subseteq {w \in Worker : pc[w] = "sem_wait"}
  /\ \A w \in Worker : p_state[w] = "TERMINATED" => pc[w] \in {"sem_new", "dead"}
  /\ \A w \in Worker : pc[w] \notin {"exit", "dead"} => done[w] < N
  /\ main = "print" => Dead = Worker

(* The permit is in the semaphore or in the hand of one worker.            *)
PermitOK ==
  /\ value[SEM] \in 0 .. 1
  /\ \A w \in Worker : Critical(w) => SEM \in open /\ value[SEM] = 0
  /\ SEM \notin open /\ main # "print" => \A w \in Worker : pc[w] = "sem_new"

(* A permit that is free is on its way when somebody sleeps.               *)
WakeOK == Asleep(SEM) # {} /\ value[SEM] = 1 => Woken(SEM) # {}

(* Every wait but the one that is not over yet has had its own death.      *)
WaitsOK ==
  /\ p_state[Parent] \in {"READY", "BLOCKED"}
  /\ waits <= Cardinality(Dead) + (IF p_state[Parent] = "BLOCKED" THEN 1 ELSE 0)

IInv == TypeOK /\ Exclusion /\ QueueOK /\ WorkersOK /\ PermitOK /\ WakeOK /\ WaitsOK

-----------------------------------------------------------------------------
(* What the proof needs to know of the operators.                          *)

LEMMA WorkerFacts ==
  /\ Worker \subseteq Nat /\ Parent \notin Worker
  /\ IsFiniteSet(Worker) /\ Cardinality(Worker) = 2 * Pairs
<1>1. 2 * Pairs \in Nat /\ 1 <= 2 * Pairs
  BY TestSyncAssumption DEF TestSyncAssumption
<1>2. IsFiniteSet(Worker) /\ Cardinality(Worker) = 2 * Pairs
  BY <1>1, FS_Interval DEF Worker
<1>3. QED
  BY <1>1, <1>2 DEF Worker, Parent

(* While the queue holds the sleepers only, releaseFirstP() wakes the one  *)
(* at its head.                                                            *)
LEMMA ReleaseWakesHead ==
  ASSUME TypeOK, QueueOK, releaseFirstP(SEM)
  PROVE  \/ Queue = <<>> /\ queue' = queue /\ p_state' = p_state
         \/ /\ Queue # <<>>
            /\ p_state' = [p_state EXCEPT ![Queue[1]] = "READY"]
            /\ queue' = [queue EXCEPT ![SEM] = Tail(@)]
<1>1. LiveEntries(SEM) = 1 .. Len(Queue)
  BY DEF LiveEntries, QueueOK, Asleep, Queue
<1>2. CASE Queue = <<>>
  BY <1>1, <1>2 DEF releaseFirstP, TypeOK, SemTypeOK, Queue
<1>3. CASE Queue # <<>>
  <2>1. Len(Queue) \in Nat /\ Len(Queue) >= 1
    BY <1>3 DEF QueueOK
  <2>2. First(1 .. Len(Queue)) = 1
    BY <2>1 DEF First
  <2>3. SubSeq(Queue, 1 + 1, Len(Queue)) = Tail(Queue)
    BY <1>3, TailIsSubSeq DEF QueueOK
  <2>4. Released(SEM, 1)
    BY <1>1, <2>1, <2>2 DEF releaseFirstP
  <2>5. QED
    BY <1>3, <2>3, <2>4 DEF Released, Queue
<1>4. QED
  BY <1>2, <1>3

-----------------------------------------------------------------------------
(* Each step keeps the invariant.                                          *)

LEMMA CreateKeeps == IInv /\ Create => IInv'
<1> SUFFICES ASSUME IInv, Create PROVE IInv'
  OBVIOUS
<1> USE WorkerFacts
<1>1. CASE Absent = {}
  BY <1>1 DEF IInv, Create, sems, TypeOK, SemTypeOK, Exclusion, Critical, QueueOK, Queue, Asleep,
              WorkersOK, Dead, PermitOK, WakeOK, Woken, WaitsOK, At
<1>2. CASE Absent # {}
  <2> DEFINE w == First(Absent)
  <2>1. w \in Worker /\ pc[w] = "sem_new" /\ w # Parent
    BY <1>2, FirstInSet DEF Absent
  <2>2. setState(w, "READY") /\ UNCHANGED <<global, aux, done, pc, main, waits>>
    BY <1>2 DEF Create
  <2> HIDE DEF w
  <2>3. w \notin inside[SEM]
    BY <2>1 DEF IInv, WorkersOK
  <2>4. TypeOK'
    BY <2>1, <2>2 DEF IInv, TypeOK, SemTypeOK, setState
  <2>5. Asleep(SEM)' = Asleep(SEM) /\ Woken(SEM)' = Woken(SEM)
    BY <2>2, <2>3 DEF IInv, TypeOK, SemTypeOK, setState, Asleep, Woken
  <2>6. QueueOK' /\ WakeOK'
    BY <2>2, <2>5 DEF IInv, QueueOK, Queue, WakeOK, setState
  <2>7. Exclusion' /\ WorkersOK' /\ PermitOK' /\ WaitsOK'
    BY <2>1, <2>2 DEF IInv, TypeOK, SemTypeOK, setState, Exclusion, Critical, WorkersOK, Dead,
                      PermitOK, WaitsOK
  <2>8. QED
    BY <2>4, <2>6, <2>7 DEF IInv
<1>3. QED
  BY <1>1, <1>2

LEMMA WaitKeeps == IInv /\ Wait => IInv'
<1> SUFFICES ASSUME IInv, Wait PROVE IInv'
  OBVIOUS
<1> USE WorkerFacts
<1>1. /\ setState(Parent, "BLOCKED") /\ waits' = waits + 1
      /\ UNCHANGED <<global, aux, done, pc, main>> /\ waits < 2 * Pairs
      /\ p_state[Parent] = "READY"
  BY DEF Wait, Needed, At, CanRun
<1>2. Parent \notin inside[SEM]
  BY DEF IInv, WorkersOK
<1>3. TypeOK'
  BY <1>1, TestSyncAssumption DEF TestSyncAssumption, IInv, TypeOK, SemTypeOK, setState
<1>4. Asleep(SEM)' = Asleep(SEM) /\ Woken(SEM)' = Woken(SEM)
  BY <1>1, <1>2 DEF IInv, TypeOK, SemTypeOK, setState, Asleep, Woken
<1>5. QueueOK' /\ WakeOK'
  BY <1>1, <1>4 DEF IInv, QueueOK, Queue, WakeOK, setState
<1>6. Exclusion' /\ WorkersOK' /\ PermitOK'
  BY <1>1 DEF IInv, TypeOK, SemTypeOK, setState, Exclusion, Critical, WorkersOK, Dead, PermitOK
<1>7. Dead' = Dead
  BY <1>1 DEF Dead
<1>8. IsFiniteSet(Dead) /\ Cardinality(Dead) \in Nat
  BY FS_Subset, FS_CardinalityType DEF Dead
<1>9. WaitsOK'
  BY <1>1, <1>7, <1>8 DEF IInv, TypeOK, SemTypeOK, setState, WaitsOK
<1>10. QED
  BY <1>3, <1>5, <1>6, <1>9 DEF IInv

(* The last wait is over: all workers are dead, and nobody is inside.      *)
LEMMA DestroyKeeps == IInv /\ Destroy => IInv'
<1> SUFFICES ASSUME IInv, Destroy PROVE IInv'
  OBVIOUS
<1> USE WorkerFacts
<1>1. /\ semDestroy(SEM) /\ main' = "print" /\ UNCHANGED <<global, aux, done, pc, waits>>
      /\ waits = 2 * Pairs /\ p_state[Parent] = "READY"
  BY DEF Destroy, Needed, At, CanRun
<1>2. Dead \in SUBSET Worker
  BY DEF Dead
<1>3. Cardinality(Dead) \in Nat /\ Cardinality(Dead) <= Cardinality(Worker)
  BY <1>2, FS_Subset, FS_CardinalityType
<1>4. Cardinality(Dead) = Cardinality(Worker)
  BY <1>1, <1>3, TestSyncAssumption DEF TestSyncAssumption, IInv, WaitsOK
<1>5. Dead = Worker
  BY <1>2, <1>4, FS_Subset
<1>6. inside[SEM] = {} /\ \A w \in Worker : pc[w] = "dead"
  BY <1>5 DEF IInv, WorkersOK, Dead
<1>7. TypeOK'
  BY <1>1 DEF IInv, TypeOK, SemTypeOK, semDestroy
<1>8. Asleep(SEM)' = {}
  BY <1>1, <1>6 DEF Asleep, semDestroy, IInv, TypeOK, SemTypeOK
<1>9. QueueOK' /\ WakeOK'
  BY <1>1, <1>8 DEF IInv, TypeOK, SemTypeOK, QueueOK, Queue, WakeOK, semDestroy
<1>10. Exclusion' /\ WorkersOK' /\ PermitOK' /\ WaitsOK'
  BY <1>1, <1>5, <1>6 DEF IInv, TypeOK, SemTypeOK, semDestroy, Exclusion, Critical, WorkersOK,
                          Dead, PermitOK, WaitsOK
<1>11. QED
  BY <1>7, <1>9, <1>10 DEF IInv

LEMMA NewKeeps == ASSUME NEW w \in Worker PROVE IInv /\ New(w) => IInv'
<1> SUFFICES ASSUME IInv, New(w) PROVE IInv'
  OBVIOUS
<1> USE WorkerFacts
<1>1. /\ newSemaphore(SEM, 1) /\ UNCHANGED <<global, aux, done, main, waits>>
      /\ pc[w] = "sem_new" /\ pc' = [pc EXCEPT ![w] = "sem_wait"] /\ p_state[w] = "READY"
  BY DEF New, Go, CanRun
<1>2. TypeOK'
  BY <1>1 DEF IInv, TypeOK, SemTypeOK, newSemaphore, Place
<1>3. Asleep(SEM)' = Asleep(SEM) /\ Woken(SEM)' = Woken(SEM)
  BY <1>1 DEF Asleep, Woken, newSemaphore
<1>4. main # "print"
  BY <1>1 DEF IInv, WorkersOK, Dead
<1>5. SEM \notin open => inside[SEM] = {}
  BY <1>4 DEF IInv, WorkersOK, PermitOK
<1>6. QueueOK' /\ WakeOK'
  BY <1>1, <1>3, <1>5 DEF IInv, TypeOK, SemTypeOK, QueueOK, Queue, WakeOK, Asleep, newSemaphore
<1>7. Exclusion' /\ WorkersOK' /\ PermitOK'
  BY <1>1, <1>4 DEF IInv, TypeOK, SemTypeOK, newSemaphore, Exclusion, Critical, WorkersOK, Dead, PermitOK
<1>8. Dead' = Dead
  BY <1>1 DEF Dead, IInv, TypeOK
<1>9. WaitsOK'
  BY <1>1, <1>8 DEF IInv, WaitsOK, newSemaphore
<1>10. QED
  BY <1>2, <1>6, <1>7, <1>9 DEF IInv

(* semWait(): the caller takes the permit, or goes to the end of the queue *)
(* while the permit is in somebody's hand.                                 *)
LEMMA SemWaitKeeps == ASSUME NEW w \in Worker PROVE IInv /\ SemWait(w) => IInv'
<1> SUFFICES ASSUME IInv, SemWait(w) PROVE IInv'
  OBVIOUS
<1> USE WorkerFacts
<1>1. /\ UNCHANGED <<global, aux, done, main, waits>>
      /\ pc[w] = "sem_wait" /\ p_state[w] = "READY" /\ semWait(SEM, w)
      /\ pc' = [pc EXCEPT ![w] = IF Returns(SEM, w) THEN "read" ELSE "sem_wait"]
  BY DEF SemWait, Go, CanRun
<1>2. SEM \in open /\ main # "print"
  BY <1>1 DEF IInv, WorkersOK, PermitOK, Dead
<1>3. Dead' = Dead
  BY <1>1 DEF Dead, IInv, TypeOK
<1>4. CASE Returns(SEM, w)
  <2>1. /\ value[SEM] = 1 /\ value' = [value EXCEPT ![SEM] = @ - 1]
        /\ inside' = [inside EXCEPT ![SEM] = @ \ {w}]
        /\ UNCHANGED <<open, queue, lost, p_state>>
        /\ pc' = [pc EXCEPT ![w] = "read"]
    <3>1. value[SEM] = 1
      BY <1>2, <1>4 DEF Returns, IInv, PermitOK
    <3>2. QED
      BY <1>1, <1>2, <1>4, <3>1 DEF semWait
  <2>2. TypeOK'
    BY <1>1, <2>1 DEF IInv, TypeOK, SemTypeOK, Place
  <2>3. Asleep(SEM)' = Asleep(SEM)
    BY <1>1, <2>1 DEF Asleep, IInv, TypeOK, SemTypeOK
  <2>4. QueueOK' /\ WakeOK'
    BY <2>1, <2>3 DEF IInv, TypeOK, SemTypeOK, QueueOK, Queue, WakeOK
  <2>5. \A v \in Worker : ~Critical(v)
    BY <2>1 DEF IInv, PermitOK
  <2>6. Exclusion' /\ PermitOK'
    BY <1>1, <1>2, <2>1, <2>5 DEF IInv, TypeOK, SemTypeOK, Exclusion, Critical, PermitOK
  <2>7. WorkersOK' /\ WaitsOK'
    BY <1>1, <1>2, <1>3, <2>1 DEF IInv, TypeOK, SemTypeOK, WorkersOK, WaitsOK
  <2>8. QED
    BY <2>2, <2>4, <2>6, <2>7 DEF IInv
<1>5. CASE ~Returns(SEM, w)
  <2>1. /\ value[SEM] = 0 /\ queue' = [queue EXCEPT ![SEM] = Append(@, w)]
        /\ inside' = [inside EXCEPT ![SEM] = @ \cup {w}]
        /\ p_state' = [p_state EXCEPT ![w] = "BLOCKED"]
        /\ UNCHANGED <<open, value, lost>> /\ pc' = pc
    BY <1>1, <1>2, <1>5 DEF semWait, Returns, IInv, PermitOK, TypeOK
  <2>2. Queue' = Append(Queue, w) /\ Queue' \in Seq(Worker)
    BY <2>1 DEF IInv, TypeOK, SemTypeOK, QueueOK, Queue
  <2>3. TypeOK'
    BY <2>1, <1>1 DEF IInv, TypeOK, SemTypeOK
  <2>4. Asleep(SEM)' = Asleep(SEM) \cup {w} /\ w \notin Asleep(SEM)
    BY <1>1, <2>1 DEF Asleep, IInv, TypeOK, SemTypeOK
  <2>5. /\ Len(Queue') = Len(Queue) + 1 /\ Queue'[Len(Queue) + 1] = w
        /\ \A j \in 1 .. Len(Queue) : Queue'[j] = Queue[j]
        /\ Len(Queue) \in Nat
    BY <2>2 DEF IInv, QueueOK
  <2>6. QueueOK'
    <3>1. \A j \in 1 .. Len(Queue') : Queue'[j] \in Asleep(SEM)'
      BY <2>4, <2>5 DEF IInv, QueueOK
    <3>2. \A j, k \in 1 .. Len(Queue') : Queue'[j] = Queue'[k] => j = k
      BY <2>4, <2>5 DEF IInv, QueueOK
    <3>3. \A v \in Asleep(SEM)' : \E j \in 1 .. Len(Queue') : Queue'[j] = v
      BY <2>4, <2>5 DEF IInv, QueueOK
    <3>4. QED
      BY <2>2, <3>1, <3>2, <3>3 DEF QueueOK
  <2>7. Exclusion' /\ PermitOK' /\ WakeOK'
    BY <1>1, <2>1 DEF IInv, TypeOK, SemTypeOK, Exclusion, Critical, PermitOK, WakeOK
  <2>8. WorkersOK' /\ WaitsOK'
    BY <1>1, <1>2, <1>3, <2>1 DEF IInv, TypeOK, SemTypeOK, WorkersOK, WaitsOK
  <2>9. QED
    BY <2>3, <2>6, <2>7, <2>8 DEF IInv
<1>6. QED
  BY <1>4, <1>5

LEMMA CopyKeeps == ASSUME NEW w \in Worker PROVE IInv /\ (Read(w) \/ Write(w)) => IInv'
<1> SUFFICES ASSUME IInv, Read(w) \/ Write(w) PROVE IInv'
  OBVIOUS
<1> USE WorkerFacts
<1>1. /\ UNCHANGED <<open, value, queue, inside, lost, p_state, done, main, waits>>
      /\ pc[w] \in {"read", "write"} /\ \E to \in {"write", "sem_post"} : pc' = [pc EXCEPT ![w] = to]
  BY DEF Read, Write, Go, sems
<1>2. inc(w) \in Int
  BY DEF inc
<1>3. TypeOK'
  BY <1>1, <1>2, SMTT(30) DEF IInv, TypeOK, SemTypeOK, Read, Write, Place
<1>4. Critical(w) /\ \A v \in Worker : Critical(v) <=> Critical(v)'
  BY <1>1 DEF Critical, IInv, TypeOK
<1>5. Exclusion'
  BY <1>1, <1>4 DEF IInv, TypeOK, Exclusion, Read, Write, Go, Critical
<1>6. Asleep(SEM)' = Asleep(SEM) /\ Woken(SEM)' = Woken(SEM) /\ Dead' = Dead
  BY <1>1 DEF Asleep, Woken, Dead, IInv, TypeOK
<1>7. QueueOK' /\ WakeOK' /\ WaitsOK'
  BY <1>1, <1>6 DEF IInv, QueueOK, Queue, WakeOK, WaitsOK
<1>8. WorkersOK' /\ PermitOK'
  BY <1>1, <1>4, <1>6 DEF IInv, TypeOK, SemTypeOK, WorkersOK, PermitOK
<1>9. QED
  BY <1>3, <1>5, <1>7, <1>8 DEF IInv

(* semPost() comes from the only worker that has the permit.  If somebody  *)
(* sleeps, the one that has slept longest is woken.                        *)
LEMMA SemPostKeeps == ASSUME NEW w \in Worker PROVE IInv /\ SemPost(w) => IInv'
<1> SUFFICES ASSUME IInv, SemPost(w) PROVE IInv'
  OBVIOUS
<1> USE WorkerFacts
<1>1. /\ UNCHANGED <<global, aux, main, waits>> /\ pc[w] = "sem_post" /\ p_state[w] = "READY"
      /\ done' = [done EXCEPT ![w] = @ + 1]
      /\ pc' = [pc EXCEPT ![w] = IF done[w] + 1 < N THEN "sem_wait" ELSE "exit"]
  BY DEF SemPost, Go, CanRun
<1>2. Critical(w) /\ SEM \in open /\ value[SEM] = 0 /\ main # "print"
  BY <1>1 DEF IInv, PermitOK, Critical, WorkersOK, Dead
<1>3. /\ value' = [value EXCEPT ![SEM] = @ + 1] /\ releaseFirstP(SEM)
      /\ UNCHANGED <<open, inside, lost>>
  BY <1>2 DEF SemPost, semPost
<1>4. /\ w \notin inside[SEM] /\ Dead' = Dead
      /\ done[w] + 1 \in 0 .. N /\ (done[w] + 1 < N \/ done[w] + 1 = N)
  <2>1. done[w] \in 0 .. N /\ done[w] < N /\ N \in Nat
    BY <1>1, TestSyncAssumption DEF TestSyncAssumption, IInv, TypeOK, WorkersOK
  <2>2. QED
    BY <1>1, <2>1 DEF IInv, TypeOK, WorkersOK, Dead
<1>5. \A v \in Worker : v # w => ~Critical(v)
  BY <1>2 DEF IInv, Exclusion
<1>6. /\ Exclusion' /\ PermitOK'
  BY <1>1, <1>2, <1>3, <1>5 DEF IInv, TypeOK, SemTypeOK, Exclusion, Critical, PermitOK
<1>7. CASE Queue = <<>> /\ queue' = queue /\ p_state' = p_state
  <2>1. TypeOK'
    BY <1>1, <1>3, <1>4, <1>7 DEF IInv, TypeOK, SemTypeOK, Place
  <2>2. Asleep(SEM)' = Asleep(SEM) /\ Asleep(SEM) = {}
    BY <1>3, <1>7 DEF Asleep, IInv, QueueOK
  <2>3. QueueOK' /\ WakeOK'
    <3>1. Queue' = Queue /\ QueueOK
      BY <1>7 DEF Queue, IInv
    <3>2. QueueOK'
      BY <2>2, <3>1 DEF QueueOK
    <3>3. WakeOK'
      BY <2>2 DEF WakeOK
    <3>4. QED
      BY <3>2, <3>3
  <2>4. WorkersOK' /\ WaitsOK'
    BY <1>1, <1>2, <1>3, <1>4, <1>7 DEF IInv, TypeOK, WorkersOK, WaitsOK
  <2>5. QED
    BY <1>6, <2>1, <2>3, <2>4 DEF IInv
<1>8. CASE /\ Queue # <<>>
           /\ p_state' = [p_state EXCEPT ![Queue[1]] = "READY"]
           /\ queue' = [queue EXCEPT ![SEM] = Tail(@)]
  <2> DEFINE h == Queue[1]
  <2>1. h \in Asleep(SEM) /\ h \in Worker /\ h \in inside[SEM] /\ p_state[h] = "BLOCKED"
    BY <1>8 DEF IInv, QueueOK, Asleep, WorkersOK
  <2>2. p_state' = [p_state EXCEPT ![h] = "READY"]
    BY <1>8
  <2>3. /\ Queue' = Tail(Queue) /\ Queue' \in Seq(Worker) /\ Len(Queue) \in Nat
        /\ Len(Queue') = Len(Queue) - 1 /\ Len(Queue) >= 1
        /\ \A j \in 1 .. Len(Queue') : Queue'[j] = Queue[j + 1]
    BY <1>8 DEF IInv, TypeOK, SemTypeOK, QueueOK, Queue
  <2>4. \A j \in 1 .. Len(Queue) : j # 1 => Queue[j] # h
    BY <2>3 DEF IInv, QueueOK
  <2> HIDE DEF h
  <2>5. TypeOK'
    <3>1. Tail(Queue) \in Seq({Parent} \cup Worker)
      BY <1>8 DEF IInv, TypeOK, SemTypeOK, Queue
    <3>2. SemTypeOK({SEM}, {Parent} \cup Worker)'
      <4>1. p_state' \in [{Parent} \cup Worker -> {"READY", "BLOCKED", "TERMINATED"}]
        BY <2>2 DEF IInv, TypeOK, SemTypeOK
      <4>2. queue' \in [{SEM} -> Seq({Parent} \cup Worker)]
        BY <1>8, <3>1 DEF IInv, TypeOK, SemTypeOK, Queue
      <4>3. open' \in SUBSET {SEM} /\ value' \in [{SEM} -> Nat]
        BY <1>3 DEF IInv, TypeOK, SemTypeOK
      <4>4. inside' \in [{SEM} -> SUBSET ({Parent} \cup Worker)] /\ lost' \in SUBSET ({Parent} \cup Worker)
        BY <1>3 DEF IInv, TypeOK, SemTypeOK
      <4>5. QED
        BY <4>1, <4>2, <4>3, <4>4 DEF SemTypeOK
    <3>3. QED
      BY <1>1, <1>4, <3>2 DEF IInv, TypeOK, Place
  <2>6. Asleep(SEM)' = Asleep(SEM) \ {h} /\ h \in Woken(SEM)'
    BY <1>3, <2>1, <2>2 DEF Asleep, Woken, IInv, TypeOK, SemTypeOK
  <2>7. QueueOK'
    <3>1. \A j \in 1 .. Len(Queue') : Queue'[j] \in Asleep(SEM)'
      BY <2>3, <2>4, <2>6 DEF IInv, QueueOK
    <3>2. \A j, k \in 1 .. Len(Queue') : Queue'[j] = Queue'[k] => j = k
      BY <2>3 DEF IInv, QueueOK
    <3>3. ASSUME NEW v \in Asleep(SEM)'
          PROVE  \E j \in 1 .. Len(Queue') : Queue'[j] = v
      <4>1. PICK j \in 1 .. Len(Queue) : Queue[j] = v
        BY <2>6, <3>3 DEF IInv, QueueOK
      <4>2. j # 1
        BY <2>6, <3>3, <4>1 DEF h
      <4>3. j - 1 \in 1 .. Len(Queue') /\ Queue'[j - 1] = v
        BY <2>3, <4>1, <4>2
      <4>4. QED
        BY <4>3
    <3>4. QED
      BY <2>3, <3>1, <3>2, <3>3 DEF QueueOK
  <2>8. WakeOK' /\ WorkersOK' /\ WaitsOK'
    BY <1>1, <1>2, <1>3, <1>4, <2>1, <2>2, <2>6 DEF IInv, TypeOK, SemTypeOK, WorkersOK, WakeOK, WaitsOK
  <2>9. QED
    BY <1>6, <2>5, <2>7, <2>8 DEF IInv
<1>9. QED
  BY <1>3, <1>7, <1>8, ReleaseWakesHead DEF IInv

(* The death of a worker is one more that the parent may wait for.         *)
LEMMA ExitKeeps == ASSUME NEW w \in Worker PROVE IInv /\ Exit(w) => IInv'
<1> SUFFICES ASSUME IInv, Exit(w) PROVE IInv'
  OBVIOUS
<1> USE WorkerFacts
<1>1. /\ kill(w, WakesParent) /\ UNCHANGED <<global, aux, done, main, waits>>
      /\ pc[w] = "exit" /\ pc' = [pc EXCEPT ![w] = "dead"]
  BY DEF Exit, Go
<1>2. w \notin inside[SEM] /\ WakesParent \subseteq {Parent}
  BY <1>1 DEF IInv, WorkersOK, WakesParent
<1>3. /\ inside' = inside /\ lost' = {} /\ UNCHANGED <<open, value, queue>>
      /\ \A v \in Worker : v # w => p_state'[v] = p_state[v]
      /\ p_state'[w] = "TERMINATED"
      /\ p_state'[Parent] = "READY"
      /\ p_state' \in [{Parent} \cup Worker -> {"READY", "BLOCKED", "TERMINATED"}]
  <2>1. inside' = inside
    BY <1>1, <1>2 DEF kill, IInv, TypeOK, SemTypeOK
  <2>2. p_state'[Parent] = "READY"
    BY <1>1 DEF kill, WakesParent, IInv, WaitsOK, TypeOK, SemTypeOK
  <2>3. QED
    BY <1>1, <1>2, <2>1, <2>2 DEF kill, IInv, TypeOK, SemTypeOK, WorkersOK
<1>4. TypeOK'
  BY <1>1, <1>3 DEF IInv, TypeOK, SemTypeOK, Place
<1>5. Asleep(SEM)' = Asleep(SEM) /\ Woken(SEM)' = Woken(SEM)
  BY <1>2, <1>3 DEF Asleep, Woken, IInv, WorkersOK
<1>6. QueueOK' /\ WakeOK'
  <2>1. value'[SEM] = value[SEM] /\ Queue' = Queue
    BY <1>3 DEF Queue
  <2>2. WakeOK'
    BY <1>5, <2>1 DEF IInv, WakeOK
  <2>3. QED
    BY <1>5, <2>1, <2>2 DEF IInv, QueueOK
<1>7. Exclusion' /\ WorkersOK' /\ PermitOK'
  BY <1>1, <1>2, <1>3, SMTT(30) DEF IInv, TypeOK, SemTypeOK, Exclusion, Critical, WorkersOK, Dead, PermitOK
<1>8. Dead' = Dead \cup {w} /\ w \notin Dead
  BY <1>1 DEF Dead, IInv, TypeOK
<1>9. IsFiniteSet(Dead) /\ Cardinality(Dead) \in Nat /\ Cardinality(Dead') = Cardinality(Dead) + 1
  <2>1. IsFiniteSet(Dead)
    BY FS_Subset DEF Dead
  <2>2. QED
    BY <1>8, <2>1, FS_AddElement, FS_CardinalityType
<1>10. WaitsOK'
  BY <1>1, <1>3, <1>9 DEF IInv, TypeOK, WaitsOK
<1>11. QED
  BY <1>4, <1>6, <1>7, <1>10 DEF IInv

-----------------------------------------------------------------------------
THEOREM Inductive == Spec => []IInv
<1>1. Init => IInv
  <2> SUFFICES ASSUME Init PROVE IInv
    OBVIOUS
  <2> USE WorkerFacts
  <2>1. TypeOK
    BY TestSyncAssumption DEF TestSyncAssumption, Init, InitSems, TypeOK, SemTypeOK, Place
  <2>2. Asleep(SEM) = {}
    BY DEF Init, InitSems, Asleep
  <2>3. QueueOK /\ WakeOK
    BY <2>2 DEF Init, InitSems, QueueOK, Queue, WakeOK
  <2>4. Exclusion /\ WorkersOK /\ PermitOK
    BY TestSyncAssumption DEF TestSyncAssumption, Init, InitSems, Exclusion, Critical, WorkersOK, PermitOK
  <2>5. Dead = {}
    BY DEF Init, Dead
  <2>6. WaitsOK
    BY <2>5, FS_EmptySet DEF Init, InitSems, WaitsOK
  <2>7. QED
    BY <2>1, <2>3, <2>4, <2>6 DEF IInv
<1>2. IInv /\ [Next]_vars => IInv'
  <2> SUFFICES ASSUME IInv, [Next]_vars PROVE IInv'
    OBVIOUS
  <2>1. CASE Main
    BY <2>1, CreateKeeps, WaitKeeps, DestroyKeeps DEF Main
  <2>2. ASSUME NEW w \in Worker, Work(w) PROVE IInv'
    BY <2>2, NewKeeps, SemWaitKeeps, CopyKeeps, SemPostKeeps, ExitKeeps DEF Work
  <2>3. CASE UNCHANGED vars
    BY <2>3, SMTT(30) DEF vars, sems, IInv, TypeOK, SemTypeOK, Exclusion, Critical, QueueOK, Queue, Asleep,
                WorkersOK, Dead, PermitOK, WakeOK, Woken, WaitsOK
  <2>4. QED
    BY <2>1, <2>2, <2>3 DEF Next
<1>3. QED
  BY <1>1, <1>2, PTL DEF Spec

(* One worker at a time is between semWait() and semPost(), and its copy   *)
(* of the shared number is never old: slowInc() of test_sync.c is safe     *)
(* under the semaphore for any number of workers and rounds.               *)
THEOREM TestSyncExclusion == Spec => []Exclusion
<1>1. IInv => Exclusion
  BY DEF IInv
<1>2. QED
  BY <1>1, Inductive, PTL

(* test_sync() destroys the semaphore when every worker is dead and nobody *)
(* is inside of it, for any number of workers and rounds.                  *)
THEOREM TestSyncNobodyLeft == Spec => []NobodyLeft
<1>1. IInv => NobodyLeft
  BY DEF IInv, WorkersOK, NobodyLeft, Dead
<1>2. QED
  BY <1>1, Inductive, PTL

(* semWait() and semPost() lose no wake-up, however many workers compete   *)
(* for the permit.                                                         *)
THEOREM TestSyncNoLostWakeup == Spec => []NoLostWakeup
<1>1. IInv => NoLostWakeup
  <2> SUFFICES ASSUME IInv, Asleep(SEM) # {}
               PROVE  value[SEM] <= Cardinality(Woken(SEM))
    BY DEF NoLostWakeup, NoneLost
  <2>1. Woken(SEM) \in SUBSET Worker
    BY DEF Woken, IInv, WorkersOK
  <2>2. IsFiniteSet(Woken(SEM)) /\ Cardinality(Woken(SEM)) \in Nat
    BY <2>1, WorkerFacts, FS_Subset, FS_CardinalityType
  <2>3. Cardinality(Woken(SEM)) = 0 => Woken(SEM) = {}
    BY <2>2, FS_EmptySet
  <2>4. QED
    BY <2>2, <2>3 DEF IInv, WakeOK, PermitOK
<1>2. QED
  BY <1>1, Inductive, PTL

(* Every variable of test_sync and of its semaphore keeps its type.        *)
THEOREM TestSyncTypes == Spec => []TypeOK
<1>1. IInv => TypeOK
  BY DEF IInv
<1>2. QED
  BY <1>1, Inductive, PTL
-----------------------------------------------------------------------------
(* The number is the increments less the decrements.  Instead of summing   *)
(* over the workers, each change is an element of a set: its worker and    *)
(* the round.                                                              *)

Written(w) == done[w] + (IF pc[w] = "sem_post" THEN 1 ELSE 0)

Changes(odd) == {x \in Worker \X (1 .. N) : x[1] % 2 = odd /\ x[2] <= Written(x[1])}

SumOK == global = Cardinality(Changes(0)) - Cardinality(Changes(1))

AllRounds == \A w \in Worker : pc[w] \in {"exit", "dead"} => done[w] = N

SumInv == SumOK /\ AllRounds

LEMMA ChangesFinite ==
  ASSUME NEW odd \in {0, 1}
  PROVE  IsFiniteSet(Changes(odd)) /\ Cardinality(Changes(odd)) \in Nat
<1>1. N \in Int /\ 1 \in Int
  BY TestSyncAssumption DEF TestSyncAssumption
<1>2. IsFiniteSet(1 .. N)
  BY <1>1, FS_Interval
<1>3. IsFiniteSet(Worker \X (1 .. N))
  BY <1>2, WorkerFacts, FS_Product
<1>4. Changes(odd) \in SUBSET (Worker \X (1 .. N))
  BY DEF Changes
<1> HIDE DEF Changes
<1>5. QED
  BY <1>3, <1>4, FS_Subset, FS_CardinalityType

(* A step that writes nothing.                                             *)
LEMMA SumStays ==
  ASSUME SumInv, global' = global, \A w \in Worker : Written(w)' = Written(w),
         \A w \in Worker : pc'[w] \in {"exit", "dead"} => done'[w] = N
  PROVE  SumInv'
<1>1. Changes(0)' = Changes(0) /\ Changes(1)' = Changes(1)
  BY DEF Changes
<1> HIDE DEF Changes
<1>2. QED
  BY <1>1 DEF SumInv, SumOK, AllRounds

LEMMA WriteCounts ==
  ASSUME IInv, SumInv, NEW w \in Worker, Write(w)
  PROVE  SumInv'
<1> DEFINE odd == w % 2
           new == <<w, done[w] + 1>>
<1>1. /\ pc \in [Worker -> Place] /\ done \in [Worker -> 0 .. N] /\ global \in Int
      /\ pc[w] = "write" /\ pc' = [pc EXCEPT ![w] = "sem_post"] /\ done' = done
      /\ global' = aux[w] + inc(w) /\ aux[w] = global
      /\ done[w] < N
  BY DEF Write, Go, IInv, TypeOK, Exclusion, WorkersOK
<1>2. odd \in {0, 1} /\ w \in Nat
  BY WorkerFacts
<1>3. /\ Written(w) = done[w] /\ Written(w)' = done[w] + 1
      /\ \A v \in Worker : v # w => Written(v)' = Written(v)
  BY <1>1 DEF Written
<1>4. done[w] \in Nat /\ done[w] + 1 \in 1 .. N /\ N \in Nat
  BY <1>1, TestSyncAssumption DEF TestSyncAssumption
<1>5. new \notin Changes(odd)
  BY <1>3, <1>4 DEF Changes
<1>6. Changes(odd)' = Changes(odd) \cup {new}
  <2>1. ASSUME NEW x \in Worker \X (1 .. N)
        PROVE  x \in Changes(odd)' <=> x \in Changes(odd) \cup {new}
    <3>1. x = <<x[1], x[2]>> /\ x[1] \in Worker /\ x[2] \in 1 .. N
      BY <2>1
    <3>2. CASE x[1] = w
      <4>1. x = new <=> x[2] = done[w] + 1
        BY <3>1, <3>2
      <4>2. x[2] <= done[w] + 1 <=> x[2] <= done[w] \/ x[2] = done[w] + 1
        BY <1>4, <3>1
      <4>3. x \in Changes(odd)' <=> x[2] <= done[w] + 1
        BY <1>3, <2>1, <3>2 DEF Changes
      <4>4. x \in Changes(odd) <=> x[2] <= done[w]
        BY <1>3, <2>1, <3>2 DEF Changes
      <4> HIDE DEF Changes, new, odd
      <4>5. QED
        BY <4>1, <4>2, <4>3, <4>4
    <3>3. CASE x[1] # w
      <4>1. Written(x[1])' = Written(x[1]) /\ x # new
        BY <1>3, <3>1, <3>3
      <4>2. QED
        BY <2>1, <4>1 DEF Changes
    <3>4. QED
      BY <3>2, <3>3
  <2>2. new \in Worker \X (1 .. N)
    BY <1>4
  <2>3. Changes(odd)' \subseteq Worker \X (1 .. N) /\ Changes(odd) \subseteq Worker \X (1 .. N)
    BY DEF Changes
  <2> HIDE DEF Changes, new
  <2>4. QED
    BY <2>1, <2>2, <2>3
<1>7. Changes(1 - odd)' = Changes(1 - odd)
  <2>1. ASSUME NEW x \in Worker \X (1 .. N), x[1] % 2 = 1 - odd
        PROVE  Written(x[1])' = Written(x[1])
    <3>1. odd # 1 - odd
      BY <1>2
    <3>2. x[1] \in Worker /\ x[1] # w
      BY <2>1, <3>1
    <3>3. QED
      BY <1>3, <3>2
  <2>2. QED
    BY <2>1 DEF Changes
<1>8. AllRounds'
  BY <1>1 DEF SumInv, AllRounds
<1>9. global' = global + (IF odd = 1 THEN -1 ELSE 1)
  BY <1>1 DEF inc
<1> HIDE DEF Changes, odd, new
<1>10. Cardinality(Changes(odd)') = Cardinality(Changes(odd)) + 1
  BY <1>2, <1>5, <1>6, ChangesFinite, FS_AddElement
<1>11. Cardinality(Changes(0)) \in Nat /\ Cardinality(Changes(1)) \in Nat
  BY ChangesFinite
<1>12. CASE odd = 0
  <2>1. /\ Cardinality(Changes(0)') = Cardinality(Changes(0)) + 1
        /\ Cardinality(Changes(1)') = Cardinality(Changes(1))
        /\ global' = global + 1
    BY <1>7, <1>9, <1>10, <1>12
  <2>2. QED
    BY <1>1, <1>8, <1>11, <2>1 DEF SumInv, SumOK
<1>13. CASE odd = 1
  <2>1. /\ Cardinality(Changes(1)') = Cardinality(Changes(1)) + 1
        /\ Cardinality(Changes(0)') = Cardinality(Changes(0))
        /\ global' = global - 1
    BY <1>1, <1>7, <1>9, <1>10, <1>13
  <2>2. QED
    BY <1>1, <1>8, <1>11, <2>1 DEF SumInv, SumOK
<1>14. QED
  BY <1>2, <1>12, <1>13

LEMMA SumKeeps ==
  ASSUME IInv, SumInv, [Next]_vars
  PROVE  SumInv'
<1> USE WorkerFacts
<1>1. pc \in [Worker -> Place] /\ done \in [Worker -> 0 .. N] /\ N \in Nat
  BY TestSyncAssumption DEF TestSyncAssumption, IInv, TypeOK
<1>2. CASE Main \/ UNCHANGED vars
  <2>1. UNCHANGED <<global, done, pc>>
    BY <1>2 DEF Main, Create, Wait, Destroy, vars
  <2>2. QED
    BY <2>1, SumStays DEF Written, SumInv, AllRounds
<1>3. ASSUME NEW w \in Worker, Work(w)
      PROVE  SumInv'
  <2>1. CASE Write(w)
    BY <2>1, WriteCounts
  <2>2. CASE New(w) \/ SemWait(w) \/ Read(w)
    <3>1. PICK to \in {"sem_wait", "read", "write"} : pc' = [pc EXCEPT ![w] = to]
      BY <2>2 DEF New, SemWait, Read, Go
    <3>2. UNCHANGED <<global, done>> /\ pc[w] # "sem_post"
      BY <2>2 DEF New, SemWait, Read, Go
    <3>3. \A v \in Worker : Written(v)' = Written(v)
      BY <1>1, <3>1, <3>2 DEF Written
    <3>4. \A v \in Worker : pc'[v] \in {"exit", "dead"} => done'[v] = N
      BY <1>1, <3>1, <3>2 DEF SumInv, AllRounds
    <3>5. QED
      BY <3>2, <3>3, <3>4, SumStays
  <2>3. CASE SemPost(w)
    <3>1. /\ pc[w] = "sem_post" /\ pc' = [pc EXCEPT ![w] = IF done[w] + 1 < N THEN "sem_wait" ELSE "exit"]
          /\ done' = [done EXCEPT ![w] = @ + 1] /\ global' = global
      BY <2>3 DEF SemPost, Go
    <3>2. \A v \in Worker : Written(v)' = Written(v)
      BY <1>1, <3>1 DEF Written
    <3>3. done[w] \in 0 .. N /\ done[w] < N
      BY <1>1, <3>1 DEF IInv, WorkersOK
    <3>4. \A v \in Worker : pc'[v] \in {"exit", "dead"} => done'[v] = N
      BY <1>1, <3>1, <3>3 DEF SumInv, AllRounds
    <3>5. QED
      BY <3>1, <3>2, <3>4, SumStays
  <2>4. CASE Exit(w)
    <3>1. pc[w] = "exit" /\ pc' = [pc EXCEPT ![w] = "dead"] /\ UNCHANGED <<global, done>>
      BY <2>4 DEF Exit, Go
    <3>2. \A v \in Worker : Written(v)' = Written(v)
      BY <1>1, <3>1 DEF Written
    <3>3. \A v \in Worker : pc'[v] \in {"exit", "dead"} => done'[v] = N
      BY <1>1, <3>1 DEF SumInv, AllRounds
    <3>4. QED
      BY <3>1, <3>2, <3>3, SumStays
  <2>5. QED
    BY <1>3, <2>1, <2>2, <2>3, <2>4 DEF Work
<1>4. QED
  BY <1>2, <1>3 DEF Next

(* As many increments as decrements: worker w - 1 decrements what w        *)
(* increments.                                                             *)
LEMMA SameNumber ==
  ASSUME \A w \in Worker : Written(w) = N
  PROVE  Cardinality(Changes(0)) = Cardinality(Changes(1))
<1> DEFINE shift == [x \in Changes(0) |-> <<x[1] - 1, x[2]>>]
<1>1. Pairs \in Nat /\ N \in Nat /\ Worker = 1 .. 2 * Pairs
  BY TestSyncAssumption DEF TestSyncAssumption, Worker
<1>2. \A odd : Changes(odd) = {x \in Worker \X (1 .. N) : x[1] % 2 = odd}
  <2>1. ASSUME NEW x \in Worker \X (1 .. N)
        PROVE  x[2] <= Written(x[1])
    <3>1. x[1] \in Worker /\ x[2] \in 1 .. N
      BY <2>1
    <3>2. QED
      BY <1>1, <3>1
  <2>2. QED
    BY <2>1 DEF Changes
<1>3. shift \in [Changes(0) -> Changes(1)]
  <2>1. ASSUME NEW x \in Changes(0)
        PROVE  <<x[1] - 1, x[2]>> \in Changes(1)
    <3>1. x[1] \in 1 .. 2 * Pairs /\ x[2] \in 1 .. N /\ x[1] % 2 = 0
      BY <1>1, <1>2, <2>1
    <3>2. x[1] - 1 \in 1 .. 2 * Pairs /\ (x[1] - 1) % 2 = 1
      BY <1>1, <3>1
    <3>3. QED
      BY <1>1, <1>2, <3>1, <3>2
  <2>2. QED
    BY <2>1
<1>4. \A a, b \in Changes(0) : shift[a] = shift[b] => a = b
  <2>1. SUFFICES ASSUME NEW a \in Changes(0), NEW b \in Changes(0), shift[a] = shift[b]
                 PROVE  a = b
    OBVIOUS
  <2>2. a[1] - 1 = b[1] - 1 /\ a[2] = b[2]
    BY <2>1
  <2>3. a = <<a[1], a[2]>> /\ b = <<b[1], b[2]>> /\ a[1] \in Int /\ b[1] \in Int
    BY <1>1, <1>2
  <2>4. QED
    BY <2>2, <2>3
<1>5. \A t \in Changes(1) : \E x \in Changes(0) : shift[x] = t
  <2>1. SUFFICES ASSUME NEW t \in Changes(1)
                 PROVE  \E x \in Changes(0) : shift[x] = t
    OBVIOUS
  <2>2. t[1] \in 1 .. 2 * Pairs /\ t[2] \in 1 .. N /\ t[1] % 2 = 1 /\ t = <<t[1], t[2]>>
    BY <1>1, <1>2
  <2>3. t[1] + 1 \in 1 .. 2 * Pairs /\ (t[1] + 1) % 2 = 0 /\ (t[1] + 1) - 1 = t[1]
    BY <1>1, <2>2
  <2>4. <<t[1] + 1, t[2]>> \in Changes(0)
    BY <1>1, <1>2, <2>2, <2>3
  <2>5. shift[<<t[1] + 1, t[2]>>] = t
    BY <2>2, <2>3, <2>4
  <2>6. QED
    BY <2>4, <2>5
<1> HIDE DEF shift, Changes
<1>6. shift \in Bijection(Changes(0), Changes(1))
  BY <1>3, <1>4, <1>5, Fun_IsBij
<1>7. ExistsBijection(Changes(0), Changes(1))
  BY <1>6 DEF ExistsBijection
<1>8. QED
  BY <1>7, ChangesFinite, FS_Bijection

(* What test_sync prints under the semaphore is 0, whatever the number of  *)
(* pairs and of rounds: no increment and no decrement is lost, and all of  *)
(* them have been made when it prints.                                     *)
THEOREM TestSyncPrintsZero == Spec => []FinalValue
<1>1. Init => SumInv
  <2> SUFFICES ASSUME Init PROVE SumInv
    OBVIOUS
  <2>1. \A w \in Worker : Written(w) = 0 /\ pc[w] = "sem_new"
    BY DEF Init, Written
  <2>2. Changes(0) = {} /\ Changes(1) = {}
    BY <2>1 DEF Changes
  <2>3. global = 0
    BY DEF Init
  <2> HIDE DEF Changes
  <2>4. QED
    BY <2>1, <2>2, <2>3, FS_EmptySet DEF SumInv, SumOK, AllRounds
<1>2. IInv /\ SumInv /\ [Next]_vars => SumInv'
  BY SumKeeps
<1>3. IInv /\ SumInv => FinalValue
  <2> SUFFICES ASSUME IInv, SumInv, main = "print" PROVE global = 0
    BY DEF FinalValue
  <2>1. \A w \in Worker : pc[w] = "dead"
    BY DEF IInv, WorkersOK, Dead
  <2>2. \A w \in Worker : Written(w) = N
    BY <2>1, TestSyncAssumption DEF TestSyncAssumption, Written, SumInv, AllRounds
  <2>3. Cardinality(Changes(0)) = Cardinality(Changes(1)) /\ Cardinality(Changes(0)) \in Nat
    BY <2>2, SameNumber, ChangesFinite
  <2>4. QED
    BY <2>3 DEF SumInv, SumOK
<1>4. QED
  BY <1>1, <1>2, <1>3, Inductive, PTL DEF Spec
=============================================================================
