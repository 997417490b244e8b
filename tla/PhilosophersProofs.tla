------------------------- MODULE PhilosophersProofs -------------------------
(***************************************************************************)
(* Proofs about Philosophers: the types, the table that PHILOS_STATE       *)
(* guards while philosophers come, are killed and the restaurant closes,   *)
(* nobody left behind, and the forks of a restaurant without a keyboard.   *)
(***************************************************************************)
EXTENDS Philosophers, CommonProofs

-----------------------------------------------------------------------------
(* Arithmetic of the ring of forks.                                        *)

LEMMA RemainderBelow ==
  ASSUME NEW a \in Nat, NEW b \in Nat \ {0}
  PROVE  a % b \in 0 .. b - 1
  BY SMTT(30)

(* The right fork is a fork.                                               *)
LEMMA RightIsFork ==
  ASSUME philos_amount \in MIN_PHILO .. MAX_PHILOS, NEW n \in Fork
  PROVE  RightOf(n) \in Fork
<1>1. n + 1 \in Nat /\ philos_amount \in Nat \ {0} /\ philos_amount <= MAX_PHILOS /\ MAX_PHILOS \in Nat
  BY PhilosophersAssumption DEF Fork
<1>2. (n + 1) % philos_amount \in 0 .. philos_amount - 1
  BY <1>1, RemainderBelow
<1>3. QED
  BY <1>1, <1>2 DEF RightOf, Fork

(* The name of the table is not the number of a fork.                      *)
LEMMA TableIsNoFork == PHILOS_STATE \in Sem /\ PHILOS_STATE \notin Fork /\ Fork \subseteq Sem
  BY PhilosophersAssumption DEF Sem, Fork

LEMMA HostIsNoGuest == HOST \in Proc /\ HOST \notin Guest /\ Guest \subseteq Proc
  BY DEF HOST, Guest, Proc

-----------------------------------------------------------------------------
(* The operations of the semaphores, for a name that may not be there.     *)

LEMMA PostAny ==
  ASSUME SemTypeOK(Sem, Proc), NEW s \in Sem, semPost(s)
  PROVE  /\ SemTypeOK(Sem, Proc)'
         /\ UNCHANGED <<open, inside, lost>>
         /\ value' = IF s \in open THEN [value EXCEPT ![s] = @ + 1] ELSE value
         /\ \A p \in Proc : p_state'[p] = "TERMINATED" <=> p_state[p] = "TERMINATED"
         /\ \A p \in Proc : p_state[p] = "READY" => p_state'[p] = "READY"
<1>1. CASE s \in open
  BY <1>1, PostFacts
<1>2. CASE s \notin open
  <2>1. UNCHANGED sems
    BY <1>2 DEF semPost
  <2>2. QED
    BY <1>2, <2>1 DEF sems, SemTypeOK
<1>3. QED
  BY <1>1, <1>2

LEMMA WaitAny ==
  ASSUME SemTypeOK(Sem, Proc), NEW s \in Sem, NEW p \in Proc, p_state[p] = "READY", semWait(s, p)
  PROVE  /\ SemTypeOK(Sem, Proc)'
         /\ UNCHANGED <<open, lost>>
         /\ value' = IF s \in open /\ value[s] > 0 THEN [value EXCEPT ![s] = @ - 1] ELSE value
         /\ Returns(s, p) <=> (s \in open => value[s] > 0)
         /\ Returns(s, p) => p_state' = p_state
         /\ \A q \in Proc : p_state'[q] = "TERMINATED" <=> p_state[q] = "TERMINATED"
         /\ \A q \in Proc \ {p} : p_state'[q] = p_state[q]
<1>1. CASE s \in open
  <2>1. /\ SemTypeOK(Sem, Proc)'
        /\ UNCHANGED <<open, lost>>
        /\ \A q \in Proc : p_state'[q] = "TERMINATED" => p_state[q] = "TERMINATED"
        /\ \A q \in Proc \ {p} : p_state'[q] = p_state[q]
        /\ Returns(s, p) <=> value[s] > 0
        /\ Returns(s, p) => value' = [value EXCEPT ![s] = @ - 1] /\ p_state' = p_state
        /\ ~Returns(s, p) => value' = value
    BY <1>1, WaitFacts
  <2>2. QED
    BY <1>1, <2>1
<1>2. CASE s \notin open
  <2>1. UNCHANGED sems /\ Returns(s, p)
    BY <1>2 DEF semWait, Returns
  <2>2. QED
    BY <1>2, <2>1 DEF sems, SemTypeOK
<1>3. QED
  BY <1>1, <1>2

LEMMA NewAny ==
  ASSUME SemTypeOK(Sem, Proc), NEW s \in Sem, newSemaphore(s, 1)
  PROVE  /\ SemTypeOK(Sem, Proc)'
         /\ open' = open \cup {s}
         /\ value' = IF s \in open THEN value ELSE [value EXCEPT ![s] = 1]
         /\ UNCHANGED <<queue, inside, lost, p_state>>
  BY DEF newSemaphore, SemTypeOK

LEMMA DestroyAny ==
  ASSUME SemTypeOK(Sem, Proc), NEW s \in Sem, semDestroy(s)
  PROVE  /\ SemTypeOK(Sem, Proc)'
         /\ open' = open \ {s}
         /\ value' = [value EXCEPT ![s] = 0]
         /\ UNCHANGED p_state
  BY DEF semDestroy, SemTypeOK

LEMMA StartAny ==
  ASSUME SemTypeOK(Sem, Proc), NEW p \in Proc, setState(p, "READY")
  PROVE  /\ SemTypeOK(Sem, Proc)'
         /\ UNCHANGED <<open, value>>
         /\ p_state' = [p_state EXCEPT ![p] = "READY"]
  BY DEF setState, SemTypeOK

LEMMA KillAny ==
  ASSUME SemTypeOK(Sem, Proc), NEW p \in Proc, kill(p, {})
  PROVE  /\ SemTypeOK(Sem, Proc)'
         /\ UNCHANGED <<open, value>>
         /\ p_state' = [p_state EXCEPT ![p] = "TERMINATED"]
<1>1. p_state' = [q \in Proc |-> IF q = p THEN "TERMINATED" ELSE p_state[q]]
  BY DEF kill, SemTypeOK
<1>2. p_state' = [p_state EXCEPT ![p] = "TERMINATED"]
  BY <1>1 DEF SemTypeOK
<1>3. inside' = [s \in Sem |-> inside[s] \ {p}] /\ lost' = lost \ {p} /\ UNCHANGED <<open, value, queue>>
  BY DEF kill, SemTypeOK
<1>4. QED
  BY <1>1, <1>2, <1>3 DEF SemTypeOK

-----------------------------------------------------------------------------
(* The type invariant needs to know who is where, how many processes the   *)
(* host may still create, and that a fork it is about to destroy is there. *)
HostPlace ==
  {"open", "read", "add", "add_amount", "add_seat", "remove", "remove_amount",
   "remove_kill", "leave", "close", "close_kill", "close_fork", "close_state", "end"}

GuestPlace ==
  {"new_own", "new_right", "look", "first", "second", "eat", "show", "put_own", "put_right"}

TypeInv ==
  /\ TypeOK
  /\ pc[HOST] \in HostPlace
  /\ \A p \in Guest : pc[p] \in GuestPlace
  /\ pc[HOST] \in {"add", "add_amount"} => next_pid <= MaxGuests \/ Full
  /\ pc[HOST] = "add_seat" => next_pid <= MaxGuests
  /\ pc[HOST] = "remove_kill" => philos_amount < MAX_PHILOS
  /\ pc[HOST] = "open" => philos_amount = INITIAL_PHILOS /\ next_pid <= INITIAL_PHILOS + 1
  /\ pc[HOST] = "close_fork" => i < MAX_PHILOS

(* What the host and the philosophers do to the variables that are not the *)
(* semaphores'.                                                            *)
LEMMA GoTyped ==
  ASSUME TypeInv, NEW p \in Proc, NEW from, NEW to \in Place, Go(p, from, to)
  PROVE  /\ pc[p] = from /\ p_state[p] = "READY"
         /\ pc' = [pc EXCEPT ![p] = to] /\ pc' \in [Proc -> Place]
         /\ pc'[p] = to /\ \A q \in Proc \ {p} : pc'[q] = pc[q]
  BY DEF TypeInv, TypeOK, Go, CanRun

LEMMA SeatTyped ==
  ASSUME TypeInv, NEW n \in Fork, next_pid <= MaxGuests, Seat(n)
  PROVE  /\ SemTypeOK(Sem, Proc)' /\ UNCHANGED <<open, value>>
         /\ next_pid \in Guest /\ next_pid' = next_pid + 1
         /\ p_state' = [p_state EXCEPT ![next_pid] = "READY"]
         /\ philos_pid' = [philos_pid EXCEPT ![n] = next_pid] /\ philos_pid' \in [Fork -> Proc]
         /\ number' = [number EXCEPT ![next_pid] = n] /\ number' \in [Guest -> Fork]
<1>1. next_pid \in Guest /\ next_pid \in Proc
  BY PhilosophersAssumption DEF TypeInv, TypeOK, Guest, Proc
<1>2. SemTypeOK(Sem, Proc)
  BY DEF TypeInv, TypeOK
<1>3. setState(next_pid, "READY")
  BY DEF Seat
<1>4. SemTypeOK(Sem, Proc)' /\ UNCHANGED <<open, value>> /\ p_state' = [p_state EXCEPT ![next_pid] = "READY"]
  BY <1>1, <1>2, <1>3, StartAny
<1>5. QED
  BY <1>1, <1>4 DEF Seat, TypeInv, TypeOK

-----------------------------------------------------------------------------
(* A step of a philosopher leaves the host alone, kills nobody, raises     *)
(* nobody from the dead and puts nobody else to sleep; the permit of the   *)
(* table goes in and out with the philosopher.                             *)
InOut(p) ==
  \/ pc[p] # "show" /\ pc'[p] # "show" /\ value'[PHILOS_STATE] = value[PHILOS_STATE]
  \/ /\ pc[p] # "show" /\ pc'[p] = "show" /\ p_state' = p_state
     /\ PHILOS_STATE \in open => /\ value[PHILOS_STATE] > 0
                                 /\ value'[PHILOS_STATE] = value[PHILOS_STATE] - 1
  \/ /\ pc[p] = "show" /\ pc'[p] # "show"
     /\ PHILOS_STATE \in open => value'[PHILOS_STATE] = value[PHILOS_STATE] + 1

GuestStep(p) ==
  /\ SemTypeOK(Sem, Proc)'
  /\ right' \in [Guest -> Fork]
  /\ pc' \in [Proc -> Place] /\ pc'[p] \in GuestPlace
  /\ \A q \in Proc \ {p} : pc'[q] = pc[q]
  /\ p_state[p] = "READY"
  /\ \A q \in Proc : p_state'[q] = "TERMINATED" <=> p_state[q] = "TERMINATED"
  /\ \A q \in Proc \ {p} : p_state[q] = "READY" => p_state'[q] = "READY"
  /\ open \subseteq open'
  /\ InOut(p)

(* The forks a philosopher asks for are forks.                             *)
LEMMA ForksTyped ==
  ASSUME TypeInv, NEW p \in Guest
  PROVE  /\ number[p] \in Fork /\ right[p] \in Fork
         /\ RightOf(number[p]) \in Fork
         /\ FirstFork(p) \in Fork /\ SecondFork(p) \in Fork
<1>1. number[p] \in Fork /\ right[p] \in Fork /\ philos_amount \in MIN_PHILO .. MAX_PHILOS
  BY DEF TypeInv, TypeOK
<1>2. RightOf(number[p]) \in Fork
  BY <1>1, RightIsFork
<1>3. QED
  BY <1>1, <1>2 DEF FirstFork, SecondFork

(* The three things a philosopher does with a semaphore other than asking. *)
LEMMA NewStep ==
  ASSUME TypeInv, NEW p \in Guest, NEW f \in Fork, NEW from, NEW to \in GuestPlace,
         from # "show", to # "show", Go(p, from, to), newSemaphore(f, 1), UNCHANGED right
  PROVE  GuestStep(p)
<1>1. SemTypeOK(Sem, Proc) /\ f \in Sem /\ f # PHILOS_STATE /\ p \in Proc /\ to \in Place
  BY TableIsNoFork, HostIsNoGuest DEF TypeInv, TypeOK, GuestPlace, Place
<1>2. /\ SemTypeOK(Sem, Proc)' /\ open' = open \cup {f} /\ UNCHANGED p_state
      /\ value' = IF f \in open THEN value ELSE [value EXCEPT ![f] = 1]
  BY <1>1, NewAny
<1>3. value'[PHILOS_STATE] = value[PHILOS_STATE]
  BY <1>1, <1>2, TableIsNoFork DEF SemTypeOK
<1>4. /\ pc[p] = from /\ p_state[p] = "READY" /\ pc' \in [Proc -> Place]
      /\ pc'[p] = to /\ \A q \in Proc \ {p} : pc'[q] = pc[q]
  BY <1>1, GoTyped
<1>5. QED
  BY <1>2, <1>3, <1>4 DEF GuestStep, InOut, TypeInv, TypeOK

LEMMA WaitStep ==
  ASSUME TypeInv, NEW p \in Guest, NEW s \in Sem, NEW from \in GuestPlace, NEW to \in GuestPlace,
         from # "show", to = "show" <=> s = PHILOS_STATE, Wait(p, s, from, to), UNCHANGED right
  PROVE  GuestStep(p)
<1> DEFINE there == IF Returns(s, p) THEN to ELSE from
<1>1. SemTypeOK(Sem, Proc) /\ p \in Proc /\ there \in Place /\ there \in GuestPlace
  BY HostIsNoGuest DEF TypeInv, TypeOK, GuestPlace, Place
<1>2. Go(p, from, there) /\ semWait(s, p)
  BY DEF Wait
<1>3. /\ pc[p] = from /\ p_state[p] = "READY" /\ pc' \in [Proc -> Place]
      /\ pc'[p] = there /\ \A q \in Proc \ {p} : pc'[q] = pc[q]
  <2> HIDE DEF there
  <2>1. QED
    BY <1>1, <1>2, GoTyped
<1>4. /\ SemTypeOK(Sem, Proc)' /\ UNCHANGED open
      /\ value' = IF s \in open /\ value[s] > 0 THEN [value EXCEPT ![s] = @ - 1] ELSE value
      /\ Returns(s, p) <=> (s \in open => value[s] > 0)
      /\ Returns(s, p) => p_state' = p_state
      /\ \A q \in Proc : p_state'[q] = "TERMINATED" <=> p_state[q] = "TERMINATED"
      /\ \A q \in Proc \ {p} : p_state'[q] = p_state[q]
  BY <1>1, <1>2, <1>3, WaitAny
<1>5. InOut(p)
  <2>1. CASE s = PHILOS_STATE
    <3>1. CASE Returns(s, p)
      BY <1>1, <1>3, <1>4, <2>1, <3>1 DEF InOut, SemTypeOK
    <3>2. CASE ~Returns(s, p)
      BY <1>1, <1>3, <1>4, <2>1, <3>2 DEF InOut
    <3>3. QED
      BY <3>1, <3>2
  <2>2. CASE s # PHILOS_STATE
    <3>1. value'[PHILOS_STATE] = value[PHILOS_STATE]
      BY <1>1, <1>4, <2>2, TableIsNoFork DEF SemTypeOK
    <3>2. QED
      BY <1>3, <2>2, <3>1 DEF InOut
  <2>3. QED
    BY <2>1, <2>2
<1>6. QED
  BY <1>1, <1>3, <1>4, <1>5 DEF GuestStep, TypeInv, TypeOK

LEMMA PostStep ==
  ASSUME TypeInv, NEW p \in Guest, NEW s \in Sem, NEW from \in GuestPlace, NEW to \in GuestPlace,
         to # "show", from = "show" <=> s = PHILOS_STATE, Go(p, from, to), semPost(s), UNCHANGED right
  PROVE  GuestStep(p)
<1>1. SemTypeOK(Sem, Proc) /\ p \in Proc /\ to \in Place
  BY HostIsNoGuest DEF TypeInv, TypeOK, GuestPlace, Place
<1>2. /\ pc[p] = from /\ p_state[p] = "READY" /\ pc' \in [Proc -> Place]
      /\ pc'[p] = to /\ \A q \in Proc \ {p} : pc'[q] = pc[q]
  BY <1>1, GoTyped
<1>3. /\ SemTypeOK(Sem, Proc)' /\ UNCHANGED open
      /\ value' = IF s \in open THEN [value EXCEPT ![s] = @ + 1] ELSE value
      /\ \A q \in Proc : p_state'[q] = "TERMINATED" <=> p_state[q] = "TERMINATED"
      /\ \A q \in Proc : p_state[q] = "READY" => p_state'[q] = "READY"
  BY <1>1, PostAny
<1>4. InOut(p)
  <2>1. CASE s = PHILOS_STATE
    BY <1>1, <1>2, <1>3, <2>1 DEF InOut, SemTypeOK
  <2>2. CASE s # PHILOS_STATE
    <3>1. value'[PHILOS_STATE] = value[PHILOS_STATE]
      BY <1>1, <1>3, <2>2, TableIsNoFork DEF SemTypeOK
    <3>2. QED
      BY <1>2, <2>2, <3>1 DEF InOut
  <2>3. QED
    BY <2>1, <2>2
<1>5. QED
  BY <1>1, <1>2, <1>3, <1>4 DEF GuestStep, TypeInv, TypeOK

LEMMA PhilosopherStep ==
  ASSUME TypeInv, NEW p \in Guest, Philosopher(p)
  PROVE  GuestStep(p) /\ UNCHANGED <<philos_amount, philos_pid, next_pid, number, i>>
<1> SUFFICES GuestStep(p)
  BY DEF Philosopher
<1>0. /\ \A c \in {"new_right", "look", "first", "second", "eat", "show", "put_own", "put_right"} :
           c \in GuestPlace
      /\ \A c \in {"new_own", "new_right", "look", "first", "second", "eat", "put_own", "put_right"} :
           c # "show"
  BY DEF GuestPlace
<1>1. /\ number[p] \in Fork /\ right[p] \in Fork /\ RightOf(number[p]) \in Fork
      /\ FirstFork(p) \in Fork /\ SecondFork(p) \in Fork
  BY ForksTyped
<1>2. /\ PHILOS_STATE \in Sem /\ \A f \in Fork : f \in Sem /\ f # PHILOS_STATE
  BY TableIsNoFork
<1>3. CASE NewOwn(p)
  <2>1. PICK f \in Fork : f = number[p]
    BY <1>1
  <2>2. Go(p, "new_own", "new_right") /\ newSemaphore(f, 1) /\ UNCHANGED right
    BY <1>3, <2>1 DEF NewOwn
  <2>3. QED
    BY <1>0, <2>2, NewStep
<1>4. CASE NewRight(p)
  <2>1. PICK f \in Fork : f = RightOf(number[p])
    BY <1>1
  <2>2. Go(p, "new_right", "look") /\ newSemaphore(f, 1) /\ UNCHANGED right
    BY <1>4, <2>1 DEF NewRight
  <2>3. QED
    BY <1>0, <2>2, NewStep
<1>5. CASE Look(p)
  <2>1. Go(p, "look", "first") /\ right' = [right EXCEPT ![p] = RightOf(number[p])] /\ UNCHANGED sems
    BY <1>5 DEF Look
  <2>2. /\ pc[p] = "look" /\ p_state[p] = "READY" /\ pc' \in [Proc -> Place]
        /\ pc'[p] = "first" /\ \A q \in Proc \ {p} : pc'[q] = pc[q]
    <3>1. "first" \in Place /\ p \in Proc
      BY HostIsNoGuest DEF Place
    <3>2. QED
      BY <2>1, <3>1, GoTyped
  <2>3. SemTypeOK(Sem, Proc)'
    BY <2>1 DEF TypeInv, TypeOK, SemTypeOK, sems
  <2>4. right' \in [Guest -> Fork]
    BY <1>1, <2>1 DEF TypeInv, TypeOK
  <2>5. QED
    BY <1>0, <2>1, <2>2, <2>3, <2>4 DEF GuestStep, InOut, sems
<1>6. CASE Take(p)
  <2>1. CASE Wait(p, FirstFork(p), "first", "second")
    <3>1. PICK f \in Fork : f = FirstFork(p)
      BY <1>1
    <3>2. Wait(p, f, "first", "second")
      BY <2>1, <3>1
    <3>3. UNCHANGED right
      BY <1>6 DEF Take
    <3>4. QED
      BY <1>0, <1>2, <3>2, <3>3, WaitStep
  <2>2. CASE Wait(p, SecondFork(p), "second", "eat")
    <3>1. PICK f \in Fork : f = SecondFork(p)
      BY <1>1
    <3>2. Wait(p, f, "second", "eat")
      BY <2>2, <3>1
    <3>3. UNCHANGED right
      BY <1>6 DEF Take
    <3>4. QED
      BY <1>0, <1>2, <3>2, <3>3, WaitStep
  <2>3. QED
    BY <1>6, <2>1, <2>2 DEF Take
<1>7. CASE Eat(p)
  <2>1. CASE Wait(p, PHILOS_STATE, "eat", "show")
    <3>1. UNCHANGED right
      BY <1>7 DEF Eat
    <3>2. QED
      BY <1>0, <1>2, <2>1, <3>1, WaitStep
  <2>2. CASE Go(p, "show", "put_own") /\ semPost(PHILOS_STATE)
    <3>1. UNCHANGED right
      BY <1>7 DEF Eat
    <3>2. QED
      BY <1>0, <1>2, <2>2, <3>1, PostStep
  <2>3. QED
    BY <1>7, <2>1, <2>2 DEF Eat
<1>8. CASE Put(p)
  <2>1. CASE Go(p, "put_own", "put_right") /\ semPost(number[p])
    <3>1. PICK f \in Fork : f = number[p]
      BY <1>1
    <3>2. Go(p, "put_own", "put_right") /\ semPost(f)
      BY <2>1, <3>1
    <3>3. UNCHANGED right
      BY <1>8 DEF Put
    <3>4. QED
      BY <1>0, <1>2, <3>2, <3>3, PostStep
  <2>2. CASE Go(p, "put_right", "look") /\ semPost(right[p])
    <3>1. PICK f \in Fork : f = right[p]
      BY <1>1
    <3>2. Go(p, "put_right", "look") /\ semPost(f)
      BY <2>2, <3>1
    <3>3. UNCHANGED right
      BY <1>8 DEF Put
    <3>4. QED
      BY <1>0, <1>2, <3>2, <3>3, PostStep
  <2>3. QED
    BY <1>8, <2>1, <2>2 DEF Put
<1>9. NewOwn(p) \/ NewRight(p) \/ Look(p) \/ Take(p) \/ Eat(p) \/ Put(p)
  BY DEF Philosopher
<1>10. QED
  BY <1>3, <1>4, <1>5, <1>6, <1>7, <1>8, <1>9

-----------------------------------------------------------------------------
(* The table.  How many places of philos_pid are taken: the amount, but    *)
(* for the moments when the host has changed one and not yet the other.    *)
Top ==
  CASE pc[HOST] = "open"        -> next_pid - 1
    [] pc[HOST] = "add_seat"    -> philos_amount - 1
    [] pc[HOST] = "remove_kill" -> philos_amount + 1
    [] OTHER                    -> philos_amount

(* The first place whose philosopher has not been killed.                  *)
Bottom ==
  CASE pc[HOST] \in {"close_kill", "close_state", "end"} -> i
    [] pc[HOST] = "close_fork"                           -> i + 1
    [] OTHER                                             -> 0

(* The host only kills philosophers, and nobody who is in the table.       *)
TableInv ==
  /\ pc[HOST] # "end" => PHILOS_STATE \in open
  /\ TableGuarded
  /\ \A n \in 0 .. Top - 1 : philos_pid[n] \in Guest

(* Who lives has a place of the table that the host still has to visit.    *)
SeatInv ==
  /\ pc[HOST] \notin {"close_kill", "close_fork", "close_state", "end"} => i = 0
  /\ pc[HOST] \in {"close_state", "end"} => i = MAX_PHILOS
  /\ \A p \in Seated : \E n \in Bottom .. Top - 1 : philos_pid[n] = p

-----------------------------------------------------------------------------
(* The three together, and what every step has to show of the guards of    *)
(* the table.                                                              *)
HouseInv == TypeInv /\ TableInv /\ SeatInv

(* A step of the host: it stays out, it stays in, it enters with the       *)
(* permit, or it leaves and gives the permit back; it only kills from      *)
(* inside.                                                                 *)
LEMMA HostTable ==
  ASSUME TypeInv, TableInv, pc[HOST] # "end",
         pc' \in [Proc -> Place], \A q \in Guest : pc'[q] = pc[q],
         \A q \in Guest : p_state[q] = "READY" /\ ~InTable(HOST) => p_state'[q] = "READY",
         InTable(HOST)' => p_state'[HOST] = "READY",
         \/ value'[PHILOS_STATE] = value[PHILOS_STATE] /\ (InTable(HOST)' <=> InTable(HOST))
         \/ /\ value[PHILOS_STATE] > 0 /\ value'[PHILOS_STATE] = value[PHILOS_STATE] - 1
            /\ ~InTable(HOST) /\ InTable(HOST)'
         \/ /\ value'[PHILOS_STATE] = value[PHILOS_STATE] + 1
            /\ InTable(HOST) /\ ~InTable(HOST)'
  PROVE  TableGuarded'
<1>1. /\ \A p \in Proc : InTable(p) => p_state[p] = "READY" /\ value[PHILOS_STATE] = 0
      /\ \A p, q \in Proc : InTable(p) /\ InTable(q) => p = q
      /\ (\A p \in Proc : ~InTable(p)) => value[PHILOS_STATE] = 1
  BY DEF TableInv, TableGuarded
<1>2. Proc = Guest \cup {HOST} /\ HOST \notin Guest
  BY HostIsNoGuest DEF Proc
<1>3. \A q \in Guest : InTable(q)' <=> InTable(q)
  BY DEF InTable
<1>4. value[PHILOS_STATE] \in Nat
  BY TableIsNoFork DEF TypeInv, TypeOK, SemTypeOK
<1>5. CASE value'[PHILOS_STATE] = value[PHILOS_STATE] /\ (InTable(HOST)' <=> InTable(HOST))
  <2>1. \A p \in Proc : InTable(p)' <=> InTable(p)
    BY <1>2, <1>3, <1>5
  <2>2. \A p \in Proc : InTable(p)' => p_state'[p] = "READY"
    BY <1>1, <1>2, <2>1
  <2>3. QED
    BY <1>1, <1>5, <2>1, <2>2 DEF TableGuarded
<1>6. CASE /\ value[PHILOS_STATE] > 0 /\ value'[PHILOS_STATE] = value[PHILOS_STATE] - 1
           /\ ~InTable(HOST) /\ InTable(HOST)'
  <2>1. \A p \in Proc : ~InTable(p)
    BY <1>1, <1>6
  <2>2. value'[PHILOS_STATE] = 0
    BY <1>1, <1>6, <2>1
  <2>3. \A p \in Proc : InTable(p)' => p = HOST
    BY <1>2, <1>3, <2>1
  <2>4. QED
    BY <1>2, <1>6, <2>2, <2>3 DEF TableGuarded
<1>7. CASE /\ value'[PHILOS_STATE] = value[PHILOS_STATE] + 1
           /\ InTable(HOST) /\ ~InTable(HOST)'
  <2>1. \A q \in Guest : ~InTable(q)
    BY <1>1, <1>2, <1>7
  <2>2. value'[PHILOS_STATE] = 1
    BY <1>1, <1>2, <1>7
  <2>3. \A p \in Proc : ~InTable(p)'
    BY <1>2, <1>3, <1>7, <2>1
  <2>4. QED
    BY <2>2, <2>3 DEF TableGuarded
<1>8. QED
  BY <1>5, <1>6, <1>7

(* A step of a philosopher: the same, seen from the other side.            *)
LEMMA GuestTable ==
  ASSUME TypeInv, TableInv, NEW p \in Guest, GuestStep(p)
  PROVE  TableGuarded'
<1>1. SUFFICES ASSUME pc[HOST] # "end"
               PROVE  TableGuarded'
  <2>1. pc'[HOST] = pc[HOST]
    BY HostIsNoGuest DEF GuestStep
  <2>2. QED
    BY <2>1 DEF TableGuarded
<1>2. /\ \A q \in Proc : InTable(q) => p_state[q] = "READY" /\ value[PHILOS_STATE] = 0
      /\ \A q, r \in Proc : InTable(q) /\ InTable(r) => q = r
      /\ (\A q \in Proc : ~InTable(q)) => value[PHILOS_STATE] = 1
  BY <1>1 DEF TableInv, TableGuarded
<1>3. p \in Proc /\ \A q \in Proc \ {p} : InTable(q)' <=> InTable(q)
  BY HostIsNoGuest DEF GuestStep, InTable
<1>4. /\ InTable(p) <=> pc[p] = "show"
      /\ InTable(p)' <=> pc'[p] = "show"
  BY DEF TypeInv, GuestStep, GuestPlace, InTable
<1>5. PHILOS_STATE \in open /\ value[PHILOS_STATE] \in Nat
  BY <1>1, TableIsNoFork DEF TableInv, TypeInv, TypeOK, SemTypeOK
<1>6. p_state[p] = "READY" /\ \A q \in Proc \ {p} : p_state[q] = "READY" => p_state'[q] = "READY"
  BY DEF GuestStep
<1>7. CASE ~InTable(p) /\ ~InTable(p)' /\ value'[PHILOS_STATE] = value[PHILOS_STATE]
  <2>1. \A q \in Proc : InTable(q)' <=> InTable(q)
    BY <1>3, <1>7
  <2>2. \A q \in Proc : InTable(q)' => p_state'[q] = "READY"
    BY <1>2, <1>6, <1>7, <2>1
  <2>3. QED
    BY <1>2, <1>7, <2>1, <2>2 DEF TableGuarded
<1>8. CASE /\ ~InTable(p) /\ InTable(p)' /\ p_state' = p_state
           /\ value[PHILOS_STATE] > 0 /\ value'[PHILOS_STATE] = value[PHILOS_STATE] - 1
  <2>1. \A q \in Proc : ~InTable(q)
    BY <1>2, <1>8
  <2>2. value'[PHILOS_STATE] = 0 /\ p_state'[p] = "READY"
    BY <1>2, <1>6, <1>8, <2>1
  <2>3. \A q \in Proc : InTable(q)' => q = p
    BY <1>3, <2>1
  <2>4. QED
    BY <1>3, <1>8, <2>2, <2>3 DEF TableGuarded
<1>9. CASE InTable(p) /\ ~InTable(p)' /\ value'[PHILOS_STATE] = value[PHILOS_STATE] + 1
  <2>1. \A q \in Proc : ~InTable(q)'
    BY <1>2, <1>3, <1>9
  <2>2. value'[PHILOS_STATE] = 1
    BY <1>2, <1>3, <1>9
  <2>3. QED
    BY <2>1, <2>2 DEF TableGuarded
<1>10. QED
  BY <1>4, <1>5, <1>7, <1>8, <1>9 DEF GuestStep, InOut

(* A philosopher changes nothing that the host keeps.                      *)
LEMMA GuestHouse ==
  ASSUME HouseInv, NEW p \in Guest, Philosopher(p)
  PROVE  HouseInv'
<1>1. GuestStep(p) /\ UNCHANGED <<philos_amount, philos_pid, next_pid, number, i>>
  BY PhilosopherStep DEF HouseInv
<1>2. pc'[HOST] = pc[HOST]
  BY <1>1, HostIsNoGuest DEF GuestStep
<1>3. TypeInv'
  <2>1. \A q \in Guest : pc'[q] \in GuestPlace
    BY <1>1, HostIsNoGuest DEF HouseInv, TypeInv, GuestStep
  <2>2. TypeOK'
    BY <1>1 DEF HouseInv, TypeInv, TypeOK, GuestStep
  <2>3. QED
    BY <1>1, <1>2, <2>1, <2>2 DEF HouseInv, TypeInv, Full
<1>4. Top' = Top /\ Bottom' = Bottom
  BY <1>1, <1>2 DEF Top, Bottom
<1>5. TableInv'
  <2>1. TableGuarded'
    BY <1>1, GuestTable DEF HouseInv
  <2>2. QED
    BY <1>1, <1>2, <1>4, <2>1 DEF HouseInv, TableInv, GuestStep
<1>6. SeatInv'
  <2>1. Seated' = Seated
    BY <1>1, HostIsNoGuest DEF GuestStep, Seated
  <2>2. QED
    BY <1>1, <1>2, <1>4, <2>1 DEF HouseInv, SeatInv
<1>7. QED
  BY <1>3, <1>5, <1>6 DEF HouseInv

-----------------------------------------------------------------------------
(* The host, one lemma per action.  Everyone seated keeps a place as long  *)
(* as the table, its two ends and the living do not change.                *)
LEMMA SeatsKept ==
  ASSUME SeatInv, UNCHANGED philos_pid, Bottom' = Bottom, Top' = Top, Seated' \subseteq Seated
  PROVE  \A p \in Seated' : \E n \in Bottom' .. Top' - 1 : philos_pid'[n] = p
  BY DEF SeatInv

(* What holds in every step of the host that does not seat anyone.         *)
LEMMA HostGo ==
  ASSUME TypeInv, NEW from, NEW to \in HostPlace, Go(HOST, from, to)
  PROVE  /\ pc[HOST] = from /\ p_state[HOST] = "READY"
         /\ pc' \in [Proc -> Place] /\ pc'[HOST] = to
         /\ \A q \in Guest : pc'[q] = pc[q] /\ pc'[q] \in GuestPlace
<1>1. to \in Place
  BY DEF HostPlace, Place
<1>2. QED
  BY <1>1, GoTyped, HostIsNoGuest DEF TypeInv

(* Seating one more: the place behind the others, and a new process.       *)
LEMMA SeatsGrow ==
  ASSUME HouseInv, NEW n \in Fork, Bottom = 0, Bottom' = 0, Top = n, Top' = n + 1,
         next_pid <= MaxGuests, Seat(n)
  PROVE  /\ \A m \in 0 .. Top' - 1 : philos_pid'[m] \in Guest
         /\ \A p \in Seated' : \E m \in Bottom' .. Top' - 1 : philos_pid'[m] = p
<1>1. /\ next_pid \in Guest /\ p_state' = [p_state EXCEPT ![next_pid] = "READY"]
      /\ philos_pid' = [philos_pid EXCEPT ![n] = next_pid]
  BY SeatTyped DEF HouseInv
<1>2. philos_pid \in [Fork -> Proc] /\ n \in Nat /\ n < MAX_PHILOS /\ MAX_PHILOS \in Nat
  BY PhilosophersAssumption DEF HouseInv, TypeInv, TypeOK, Fork
<1>3. \A m \in 0 .. n - 1 : m \in Fork /\ m # n /\ philos_pid'[m] = philos_pid[m]
  BY <1>1, <1>2 DEF Fork
<1>4. philos_pid'[n] = next_pid
  BY <1>1, <1>2
<1>5. \A m \in 0 .. Top' - 1 : philos_pid'[m] \in Guest
  <2>1. \A m \in 0 .. n - 1 : philos_pid[m] \in Guest
    BY DEF HouseInv, TableInv
  <2>2. \A m \in 0 .. Top' - 1 : m \in 0 .. n - 1 \/ m = n
    BY <1>2
  <2>3. QED
    BY <1>1, <1>3, <1>4, <2>1, <2>2
<1>6. ASSUME NEW p \in Seated'
      PROVE  \E m \in Bottom' .. Top' - 1 : philos_pid'[m] = p
  <2>1. CASE p = next_pid
    <3>1. n \in Bottom' .. Top' - 1
      BY <1>2
    <3>2. QED
      BY <1>4, <2>1, <3>1
  <2>2. CASE p # next_pid
    <3>1. p \in Seated
      BY <1>1, <2>2, HostIsNoGuest DEF Seated, HouseInv, TypeInv, TypeOK, SemTypeOK
    <3>2. PICK m \in 0 .. n - 1 : philos_pid[m] = p
      BY <3>1 DEF HouseInv, SeatInv
    <3>3. m \in Bottom' .. Top' - 1
      BY <1>2, <3>2
    <3>4. QED
      BY <1>3, <3>2, <3>3
  <2>3. QED
    BY <2>1, <2>2
<1>7. QED
  BY <1>5, <1>6

LEMMA OpenHouse ==
  ASSUME HouseInv, Open
  PROVE  HouseInv'
<1> USE DEF HouseInv
<1>1. /\ TypeInv /\ TableInv /\ SeatInv /\ philos_amount \in Nat /\ INITIAL_PHILOS \in Nat
      /\ MAX_PHILOS \in Nat /\ MaxGuests \in Nat /\ next_pid \in Nat \ {0}
      /\ INITIAL_PHILOS <= MAX_PHILOS /\ INITIAL_PHILOS <= MaxGuests
  BY PhilosophersAssumption DEF TypeInv, TypeOK
<1>2. UNCHANGED <<philos_amount, right, i>>
  BY DEF Open
<1>3. CASE next_pid <= INITIAL_PHILOS
  <2>1. Go(HOST, "open", "open") /\ Seat(next_pid - 1)
    BY <1>3 DEF Open
  <2>2. /\ pc[HOST] = "open" /\ p_state[HOST] = "READY"
        /\ pc' \in [Proc -> Place] /\ pc'[HOST] = "open"
        /\ \A q \in Guest : pc'[q] = pc[q] /\ pc'[q] \in GuestPlace
    BY <1>1, <2>1, HostGo DEF HostPlace
  <2>3. PICK n \in Fork : n = next_pid - 1
    BY <1>1, <1>3 DEF Fork
  <2>4. next_pid <= MaxGuests /\ Seat(n)
    BY <1>1, <1>3, <2>1, <2>3
  <2>5. /\ SemTypeOK(Sem, Proc)' /\ UNCHANGED <<open, value>>
        /\ next_pid \in Guest /\ next_pid' = next_pid + 1
        /\ p_state' = [p_state EXCEPT ![next_pid] = "READY"]
        /\ philos_pid' \in [Fork -> Proc] /\ number' \in [Guest -> Fork]
    BY <1>1, <2>4, SeatTyped
  <2>6. philos_amount = INITIAL_PHILOS /\ next_pid' <= INITIAL_PHILOS + 1 /\ next_pid' \in 1 .. MaxGuests + 1
    BY <1>1, <1>3, <2>2, <2>5 DEF TypeInv
  <2>7. Bottom = 0 /\ Bottom' = 0 /\ Top = n /\ Top' = n + 1
    BY <1>1, <2>2, <2>3, <2>5 DEF Bottom, Top
  <2>8. TypeInv'
    BY <1>2, <2>2, <2>5, <2>6 DEF TypeInv, TypeOK, HostPlace
  <2>9. TableInv'
    <3>1. \A q \in Proc : p_state[q] = "READY" => p_state'[q] = "READY"
      BY <1>1, <2>5 DEF TypeInv, TypeOK, SemTypeOK
    <3>2. InTable(HOST) = FALSE /\ InTable(HOST)' = FALSE
      BY <2>2 DEF InTable
    <3>3. TableGuarded'
      BY <1>1, <2>2, <2>5, <3>1, <3>2, HostIsNoGuest, HostTable
    <3>4. \A m \in 0 .. Top' - 1 : philos_pid'[m] \in Guest
      BY <2>4, <2>7, SeatsGrow
    <3>5. QED
      BY <2>2, <2>5, <3>3, <3>4 DEF TableInv
  <2>10. SeatInv'
    <3>1. \A p \in Seated' : \E m \in Bottom' .. Top' - 1 : philos_pid'[m] = p
      BY <2>4, <2>7, SeatsGrow
    <3>2. QED
      BY <1>2, <2>2, <3>1 DEF SeatInv
  <2>11. QED
    BY <2>8, <2>9, <2>10
<1>4. CASE ~(next_pid <= INITIAL_PHILOS)
  <2>1. Go(HOST, "open", "read") /\ UNCHANGED <<sems, philos_pid, next_pid, number>>
    BY <1>4 DEF Open
  <2>2. /\ pc[HOST] = "open" /\ p_state[HOST] = "READY"
        /\ pc' \in [Proc -> Place] /\ pc'[HOST] = "read"
        /\ \A q \in Guest : pc'[q] = pc[q] /\ pc'[q] \in GuestPlace
    BY <1>1, <2>1, HostGo DEF HostPlace
  <2>3. Bottom' = Bottom /\ Top' = Top
    <3>1. philos_amount = INITIAL_PHILOS /\ next_pid = INITIAL_PHILOS + 1
      BY <1>1, <1>4, <2>2 DEF TypeInv
    <3>2. QED
      BY <1>1, <1>2, <2>2, <3>1 DEF Bottom, Top
  <2>4. TypeInv'
    BY <1>2, <2>1, <2>2 DEF TypeInv, TypeOK, HostPlace, sems, SemTypeOK
  <2>5. TableInv'
    <3>1. InTable(HOST) = FALSE /\ InTable(HOST)' = FALSE
      BY <2>2 DEF InTable
    <3>2. TableGuarded'
      BY <1>1, <2>1, <2>2, <3>1, HostTable DEF sems
    <3>3. QED
      BY <2>1, <2>2, <2>3, <3>2 DEF TableInv, sems
  <2>6. SeatInv'
    <3>1. \A p \in Seated' : \E m \in Bottom' .. Top' - 1 : philos_pid'[m] = p
      BY <2>1, <2>3, SeatsKept DEF Seated, sems
    <3>2. QED
      BY <1>2, <2>2, <3>1 DEF SeatInv
  <2>7. QED
    BY <2>4, <2>5, <2>6
<1>5. QED
  BY <1>3, <1>4

LEMMA KeyHouse ==
  ASSUME HouseInv, Key
  PROVE  HouseInv'
<1> USE DEF HouseInv
<1>1. UNCHANGED <<sems, philos_amount, philos_pid, next_pid, number, right, i>>
  BY DEF Key
<1>2. PICK to \in {"add", "remove", "close"} :
        Go(HOST, "read", to) /\ (to = "add" => next_pid <= MaxGuests \/ Full)
  BY DEF Key
<1>3. /\ pc[HOST] = "read" /\ p_state[HOST] = "READY"
      /\ pc' \in [Proc -> Place] /\ pc'[HOST] = to
      /\ \A q \in Guest : pc'[q] = pc[q] /\ pc'[q] \in GuestPlace
  <2>1. to \in HostPlace
    BY DEF HostPlace
  <2>2. QED
    BY <1>2, <2>1, HostGo
<1>4. TypeInv'
  BY <1>1, <1>2, <1>3 DEF TypeInv, TypeOK, HostPlace, sems, SemTypeOK, Full
<1>5. Bottom' = Bottom /\ Top' = Top
  BY <1>1, <1>3 DEF Bottom, Top
<1>6. TableInv'
  <2>1. InTable(HOST) = FALSE /\ InTable(HOST)' = FALSE
    BY <1>3 DEF InTable
  <2>2. TableGuarded'
    BY <1>1, <1>3, <2>1, HostTable DEF sems
  <2>3. QED
    BY <1>1, <1>3, <1>5, <2>2 DEF TableInv, sems
<1>7. SeatInv'
  <2>1. \A p \in Seated' : \E m \in Bottom' .. Top' - 1 : philos_pid'[m] = p
    BY <1>1, <1>5, SeatsKept DEF Seated, sems
  <2>2. QED
    BY <1>1, <1>3, <2>1 DEF SeatInv
<1>8. QED
  BY <1>4, <1>6, <1>7

LEMMA EnterHouse ==
  ASSUME HouseInv, Enter
  PROVE  HouseInv'
<1> USE DEF HouseInv
<1>1. UNCHANGED <<philos_amount, philos_pid, next_pid, number, right, i>>
  BY DEF Enter
<1>2. PICK from \in {"add", "remove", "close"},
           to \in {"add_amount", "remove_amount", "close_kill"} :
        /\ Wait(HOST, PHILOS_STATE, from, to)
        /\ (to = "add_amount") <=> (from = "add")
  <2>1. CASE Wait(HOST, PHILOS_STATE, "add", "add_amount")
    BY <2>1
  <2>2. CASE Wait(HOST, PHILOS_STATE, "remove", "remove_amount")
    BY <2>2
  <2>3. CASE Wait(HOST, PHILOS_STATE, "close", "close_kill")
    BY <2>3
  <2>4. QED
    BY <2>1, <2>2, <2>3 DEF Enter
<1> DEFINE there == IF Returns(PHILOS_STATE, HOST) THEN to ELSE from
<1>3. there \in HostPlace
  BY DEF HostPlace
<1>4. Go(HOST, from, there) /\ semWait(PHILOS_STATE, HOST)
  BY <1>2 DEF Wait
<1>5. /\ pc[HOST] = from /\ p_state[HOST] = "READY"
      /\ pc' \in [Proc -> Place] /\ pc'[HOST] = there
      /\ \A q \in Guest : pc'[q] = pc[q] /\ pc'[q] \in GuestPlace
  <2> HIDE DEF there
  <2>1. QED
    BY <1>3, <1>4, HostGo
<1>6. PHILOS_STATE \in open /\ PHILOS_STATE \in Sem /\ SemTypeOK(Sem, Proc) /\ HOST \in Proc
  BY <1>5, TableIsNoFork, HostIsNoGuest DEF TableInv, TypeInv, TypeOK
<1>7. /\ SemTypeOK(Sem, Proc)' /\ UNCHANGED open
      /\ value' = IF value[PHILOS_STATE] > 0 THEN [value EXCEPT ![PHILOS_STATE] = @ - 1] ELSE value
      /\ Returns(PHILOS_STATE, HOST) <=> value[PHILOS_STATE] > 0
      /\ Returns(PHILOS_STATE, HOST) => p_state' = p_state
      /\ \A q \in Proc : p_state'[q] = "TERMINATED" <=> p_state[q] = "TERMINATED"
      /\ \A q \in Proc \ {HOST} : p_state'[q] = p_state[q]
  BY <1>4, <1>5, <1>6, WaitAny
<1>8. TypeInv'
  <2>1. TypeOK'
    BY <1>1, <1>5, <1>7 DEF TypeInv, TypeOK
  <2>2. there \in {"add", "add_amount"} => from = "add"
    BY <1>2
  <2>3. there \notin {"add_seat", "remove_kill", "open", "close_fork"}
    OBVIOUS
  <2> HIDE DEF there
  <2>4. QED
    BY <1>1, <1>3, <1>5, <2>1, <2>2, <2>3 DEF TypeInv, Full
<1>9. Bottom' = Bottom /\ Top' = Top
  <2>1. i = 0
    BY <1>5 DEF SeatInv
  <2>2. there \notin {"add_seat", "remove_kill", "open", "close_fork", "close_state", "end"}
    OBVIOUS
  <2> HIDE DEF there
  <2>3. Top = philos_amount /\ Top' = philos_amount
    BY <1>1, <1>5, <2>2 DEF Top
  <2>4. Bottom = 0 /\ Bottom' = 0
    BY <1>1, <1>5, <2>1, <2>2 DEF Bottom
  <2>5. QED
    BY <2>3, <2>4
<1>10. TableInv'
  <2>1. InTable(HOST) = FALSE
    BY <1>5 DEF InTable
  <2>2. InTable(HOST)' <=> Returns(PHILOS_STATE, HOST)
    BY <1>5 DEF InTable
  <2>3. \A q \in Guest : p_state'[q] = p_state[q]
    BY <1>7, HostIsNoGuest
  <2>4. TableGuarded'
    <3>1. CASE Returns(PHILOS_STATE, HOST)
      <4>1. value[PHILOS_STATE] > 0 /\ value'[PHILOS_STATE] = value[PHILOS_STATE] - 1
        BY <1>6, <1>7, <3>1 DEF SemTypeOK
      <4>2. p_state'[HOST] = "READY" /\ pc[HOST] # "end"
        BY <1>5, <1>7, <3>1
      <4>3. QED
        BY <1>5, <2>1, <2>2, <2>3, <3>1, <4>1, <4>2, HostTable
    <3>2. CASE ~Returns(PHILOS_STATE, HOST)
      <4>1. value'[PHILOS_STATE] = value[PHILOS_STATE] /\ pc[HOST] # "end"
        BY <1>5, <1>7, <3>2
      <4>2. QED
        BY <1>5, <2>1, <2>2, <2>3, <3>2, <4>1, HostTable
    <3>3. QED
      BY <3>1, <3>2
  <2>5. QED
    BY <1>1, <1>6, <1>7, <1>9, <2>4 DEF TableInv
<1>11. SeatInv'
  <2>1. Seated' = Seated
    BY <1>7, HostIsNoGuest DEF Seated
  <2>2. \A p \in Seated' : \E m \in Bottom' .. Top' - 1 : philos_pid'[m] = p
    BY <1>1, <1>9, <2>1, SeatsKept
  <2>3. i = 0 /\ there \notin {"close_state", "end"}
    BY <1>5 DEF SeatInv
  <2> HIDE DEF there
  <2>4. QED
    BY <1>1, <1>5, <2>2, <2>3 DEF SeatInv
<1>12. QED
  BY <1>8, <1>10, <1>11

(* The host in the table: it moves on, with at most another amount.        *)
LEMMA AmountHouse ==
  ASSUME HouseInv, AddAmount \/ RemoveAmount
  PROVE  HouseInv'
<1> USE DEF HouseInv
<1>1. UNCHANGED <<sems, philos_pid, next_pid, number, right, i>>
  BY DEF AddAmount, RemoveAmount
<1>2. PICK from \in {"add_amount", "remove_amount"}, to \in {"leave", "add_seat", "remove_kill"} :
        /\ Go(HOST, from, to)
        /\ to = "leave" => UNCHANGED philos_amount
        /\ to = "add_seat" => from = "add_amount" /\ ~Full /\ philos_amount' = philos_amount + 1
        /\ to = "remove_kill" => ~Fewest /\ philos_amount' = philos_amount - 1
  <2>1. CASE AddAmount
    <3>1. CASE Full
      BY <2>1, <3>1 DEF AddAmount
    <3>2. CASE ~Full
      BY <2>1, <3>2 DEF AddAmount
    <3>3. QED
      BY <3>1, <3>2
  <2>2. CASE RemoveAmount
    <3>1. CASE Fewest
      BY <2>2, <3>1 DEF RemoveAmount
    <3>2. CASE ~Fewest
      BY <2>2, <3>2 DEF RemoveAmount
    <3>3. QED
      BY <3>1, <3>2
  <2>3. QED
    BY <2>1, <2>2
<1>3. /\ pc[HOST] = from /\ p_state[HOST] = "READY"
      /\ pc' \in [Proc -> Place] /\ pc'[HOST] = to
      /\ \A q \in Guest : pc'[q] = pc[q] /\ pc'[q] \in GuestPlace
  <2>1. to \in HostPlace
    BY DEF HostPlace
  <2>2. QED
    BY <1>2, <2>1, HostGo
<1>4. /\ philos_amount \in MIN_PHILO .. MAX_PHILOS /\ MIN_PHILO \in Nat /\ MAX_PHILOS \in Nat
      /\ philos_amount' \in MIN_PHILO .. MAX_PHILOS
      /\ to = "remove_kill" => philos_amount' < MAX_PHILOS
      /\ to = "add_seat" => next_pid <= MaxGuests
  <2>1. philos_amount \in MIN_PHILO .. MAX_PHILOS /\ MIN_PHILO \in Nat /\ MAX_PHILOS \in Nat
    BY PhilosophersAssumption DEF TypeInv, TypeOK
  <2>2. to = "leave" \/ to = "add_seat" \/ to = "remove_kill"
    OBVIOUS
  <2>3. QED
    BY <1>2, <1>3, <2>1, <2>2 DEF TypeInv, Full, Fewest
<1>5. TypeInv'
  <2>1. TypeOK'
    BY <1>1, <1>3, <1>4 DEF TypeInv, TypeOK, sems, SemTypeOK
  <2>2. QED
    BY <1>1, <1>3, <1>4, <2>1 DEF TypeInv, HostPlace
<1>6. Bottom' = Bottom /\ Top' = Top
  <2>1. Bottom = 0 /\ Bottom' = 0
    BY <1>3 DEF Bottom
  <2>2. Top = philos_amount
    BY <1>3 DEF Top
  <2>3. Top' = philos_amount
    BY <1>2, <1>3, <1>4 DEF Top
  <2>4. QED
    BY <2>1, <2>2, <2>3
<1>7. TableInv'
  <2>1. InTable(HOST) = TRUE /\ InTable(HOST)' = TRUE
    BY <1>3 DEF InTable
  <2>2. TableGuarded'
    BY <1>1, <1>3, <2>1, HostTable DEF sems
  <2>3. QED
    BY <1>1, <1>3, <1>6, <2>2 DEF TableInv, sems
<1>8. SeatInv'
  <2>1. \A p \in Seated' : \E m \in Bottom' .. Top' - 1 : philos_pid'[m] = p
    BY <1>1, <1>6, SeatsKept DEF Seated, sems
  <2>2. QED
    BY <1>1, <1>3, <2>1 DEF SeatInv
<1>9. QED
  BY <1>5, <1>7, <1>8

LEMMA AddSeatHouse ==
  ASSUME HouseInv, AddSeat
  PROVE  HouseInv'
<1> USE DEF HouseInv
<1>1. UNCHANGED <<philos_amount, right, i>> /\ Go(HOST, "add_seat", "leave")
  BY DEF AddSeat
<1>2. /\ pc[HOST] = "add_seat" /\ p_state[HOST] = "READY"
      /\ pc' \in [Proc -> Place] /\ pc'[HOST] = "leave"
      /\ \A q \in Guest : pc'[q] = pc[q] /\ pc'[q] \in GuestPlace
  BY <1>1, HostGo DEF HostPlace
<1>3. /\ philos_amount \in Nat \ {0} /\ philos_amount <= MAX_PHILOS /\ MAX_PHILOS \in Nat
      /\ next_pid <= MaxGuests /\ next_pid \in Nat \ {0} /\ MaxGuests \in Nat
  BY <1>2, PhilosophersAssumption DEF TypeInv, TypeOK
<1>4. PICK n \in Fork : n = philos_amount - 1
  BY <1>3 DEF Fork
<1>5. Seat(n)
  BY <1>4 DEF AddSeat
<1>6. /\ SemTypeOK(Sem, Proc)' /\ UNCHANGED <<open, value>>
      /\ next_pid \in Guest /\ next_pid' = next_pid + 1
      /\ p_state' = [p_state EXCEPT ![next_pid] = "READY"]
      /\ philos_pid' \in [Fork -> Proc] /\ number' \in [Guest -> Fork]
  BY <1>3, <1>5, SeatTyped
<1>7. Bottom = 0 /\ Bottom' = 0 /\ Top = n /\ Top' = n + 1
  BY <1>1, <1>2, <1>3, <1>4 DEF Bottom, Top
<1>8. TypeInv'
  <2>1. next_pid' \in 1 .. MaxGuests + 1
    BY <1>3, <1>6
  <2>2. QED
    BY <1>1, <1>2, <1>6, <2>1 DEF TypeInv, TypeOK, HostPlace
<1>9. TableInv'
  <2>1. \A q \in Proc : p_state[q] = "READY" => p_state'[q] = "READY"
    BY <1>6 DEF TypeInv, TypeOK, SemTypeOK
  <2>2. InTable(HOST) = TRUE /\ InTable(HOST)' = TRUE
    BY <1>2 DEF InTable
  <2>3. TableGuarded'
    BY <1>2, <1>6, <2>1, <2>2, HostIsNoGuest, HostTable
  <2>4. \A m \in 0 .. Top' - 1 : philos_pid'[m] \in Guest
    BY <1>3, <1>5, <1>7, SeatsGrow
  <2>5. QED
    BY <1>2, <1>6, <2>3, <2>4 DEF TableInv
<1>10. SeatInv'
  <2>1. \A p \in Seated' : \E m \in Bottom' .. Top' - 1 : philos_pid'[m] = p
    BY <1>3, <1>5, <1>7, SeatsGrow
  <2>2. QED
    BY <1>1, <1>2, <2>1 DEF SeatInv
<1>11. QED
  BY <1>8, <1>9, <1>10

(* The host kills from inside the table, and never itself.                 *)
LEMMA RemoveKillHouse ==
  ASSUME HouseInv, RemoveKill
  PROVE  HouseInv'
<1> USE DEF HouseInv
<1>1. UNCHANGED <<philos_amount, philos_pid, next_pid, number, right, i>> /\ Go(HOST, "remove_kill", "leave")
  BY DEF RemoveKill
<1>2. /\ pc[HOST] = "remove_kill" /\ p_state[HOST] = "READY"
      /\ pc' \in [Proc -> Place] /\ pc'[HOST] = "leave"
      /\ \A q \in Guest : pc'[q] = pc[q] /\ pc'[q] \in GuestPlace
  BY <1>1, HostGo DEF HostPlace
<1>3. philos_amount \in Nat /\ Top = philos_amount + 1 /\ Top' = philos_amount /\ Bottom = 0 /\ Bottom' = 0
  BY <1>1, <1>2, PhilosophersAssumption DEF TypeInv, TypeOK, Top, Bottom
<1>4. PICK victim \in Guest : victim = Victim
  <2>1. philos_amount \in 0 .. Top - 1
    BY <1>3
  <2>2. QED
    BY <2>1 DEF Victim, TableInv
<1>5. kill(victim, {}) /\ victim \in Proc /\ victim # HOST /\ SemTypeOK(Sem, Proc)
  BY <1>4, HostIsNoGuest DEF RemoveKill, TypeInv, TypeOK
<1>6. SemTypeOK(Sem, Proc)' /\ UNCHANGED <<open, value>> /\ p_state' = [p_state EXCEPT ![victim] = "TERMINATED"]
  BY <1>5, KillAny
<1>7. TypeInv'
  BY <1>1, <1>2, <1>6 DEF TypeInv, TypeOK, HostPlace
<1>8. TableInv'
  <2>1. p_state'[HOST] = "READY"
    BY <1>2, <1>5, <1>6 DEF SemTypeOK
  <2>2. InTable(HOST) = TRUE /\ InTable(HOST)' = TRUE
    BY <1>2 DEF InTable
  <2>3. TableGuarded'
    BY <1>2, <1>6, <2>1, <2>2, HostTable
  <2>4. QED
    BY <1>1, <1>2, <1>3, <1>6, <2>3 DEF TableInv
<1>9. SeatInv'
  <2>1. ASSUME NEW p \in Seated'
        PROVE  \E m \in Bottom' .. Top' - 1 : philos_pid'[m] = p
    <3>1. p \in Seated /\ p # victim
      BY <1>5, <1>6, HostIsNoGuest DEF Seated, SemTypeOK
    <3>2. PICK m \in 0 .. philos_amount : philos_pid[m] = p
      BY <1>3, <3>1 DEF SeatInv
    <3>3. m # philos_amount
      BY <1>4, <3>1, <3>2 DEF Victim
    <3>4. m \in Bottom' .. Top' - 1
      BY <1>3, <3>2, <3>3
    <3>5. QED
      BY <1>1, <3>2, <3>4
  <2>2. QED
    BY <1>1, <1>2, <2>1 DEF SeatInv
<1>10. QED
  BY <1>7, <1>8, <1>9

(* The host leaves the table, for the keyboard or for good.                *)
LEMMA LeaveHouse ==
  ASSUME HouseInv, NEW from \in {"leave", "close_kill"}, NEW to \in {"read", "close_state"},
         from = "leave" <=> to = "read", from = "close_kill" => i = MAX_PHILOS,
         Go(HOST, from, to), semPost(PHILOS_STATE),
         UNCHANGED <<philos_amount, philos_pid, next_pid, number, right, i>>
  PROVE  HouseInv'
<1> USE DEF HouseInv
<1>1. /\ pc[HOST] = from /\ p_state[HOST] = "READY"
      /\ pc' \in [Proc -> Place] /\ pc'[HOST] = to
      /\ \A q \in Guest : pc'[q] = pc[q] /\ pc'[q] \in GuestPlace
  <2>1. to \in HostPlace
    BY DEF HostPlace
  <2>2. QED
    BY <2>1, HostGo
<1>2. PHILOS_STATE \in open /\ PHILOS_STATE \in Sem /\ SemTypeOK(Sem, Proc)
  BY <1>1, TableIsNoFork DEF TableInv, TypeInv, TypeOK
<1>3. /\ SemTypeOK(Sem, Proc)' /\ UNCHANGED open
      /\ value' = [value EXCEPT ![PHILOS_STATE] = @ + 1]
      /\ \A p \in Proc : p_state'[p] = "TERMINATED" <=> p_state[p] = "TERMINATED"
      /\ \A p \in Proc : p_state[p] = "READY" => p_state'[p] = "READY"
  BY <1>2, PostAny
<1>4. TypeInv'
  BY <1>1, <1>3 DEF TypeInv, TypeOK, HostPlace
<1>5. Bottom' = Bottom /\ Top' = Top
  <2>1. from = "leave" => i = 0
    BY <1>1 DEF SeatInv
  <2>2. QED
    BY <1>1, <2>1 DEF Bottom, Top
<1>6. TableInv'
  <2>1. InTable(HOST) = TRUE /\ InTable(HOST)' = FALSE
    BY <1>1 DEF InTable
  <2>2. value'[PHILOS_STATE] = value[PHILOS_STATE] + 1
    BY <1>2, <1>3 DEF SemTypeOK
  <2>3. TableGuarded'
    BY <1>1, <1>3, <2>1, <2>2, HostIsNoGuest, HostTable
  <2>4. QED
    BY <1>1, <1>2, <1>3, <1>5, <2>3 DEF TableInv
<1>7. SeatInv'
  <2>1. Seated' = Seated
    BY <1>3, HostIsNoGuest DEF Seated
  <2>2. \A p \in Seated' : \E m \in Bottom' .. Top' - 1 : philos_pid'[m] = p
    BY <1>5, <2>1, SeatsKept
  <2>3. QED
    BY <1>1, <2>2 DEF SeatInv
<1>8. QED
  BY <1>4, <1>6, <1>7

LEMMA CloseKillHouse ==
  ASSUME HouseInv, CloseKill
  PROVE  HouseInv'
<1> USE DEF HouseInv
<1>1. /\ UNCHANGED <<philos_amount, philos_pid, next_pid, number, right, i>>
      /\ Go(HOST, "close_kill", "close_fork") /\ i < MAX_PHILOS
  BY DEF CloseKill
<1>2. /\ pc[HOST] = "close_kill" /\ p_state[HOST] = "READY"
      /\ pc' \in [Proc -> Place] /\ pc'[HOST] = "close_fork"
      /\ \A q \in Guest : pc'[q] = pc[q] /\ pc'[q] \in GuestPlace
  BY <1>1, HostGo DEF HostPlace
<1>3. philos_amount \in Nat /\ Top = philos_amount /\ Top' = philos_amount /\ i \in Nat
  BY <1>1, <1>2, PhilosophersAssumption DEF TypeInv, TypeOK, Top
<1>4. Bottom = i /\ Bottom' = i + 1
  BY <1>1, <1>2 DEF Bottom
<1>5. /\ SemTypeOK(Sem, Proc)' /\ UNCHANGED <<open, value>> /\ p_state'[HOST] = "READY"
      /\ \A p \in Seated' : p \in Seated /\ (i < philos_amount => p # philos_pid[i])
  <2>1. CASE i < philos_amount
    <3>1. i \in 0 .. Top - 1
      BY <1>3, <2>1
    <3>2. PICK victim \in Guest : victim = philos_pid[i]
      BY <3>1 DEF TableInv
    <3>3. kill(victim, {}) /\ victim \in Proc /\ victim # HOST /\ HOST \in Proc /\ SemTypeOK(Sem, Proc)
      BY <2>1, <3>2, HostIsNoGuest DEF CloseKill, TypeInv, TypeOK
    <3>4. /\ SemTypeOK(Sem, Proc)' /\ UNCHANGED <<open, value>>
          /\ p_state' = [p_state EXCEPT ![victim] = "TERMINATED"]
      BY <3>3, KillAny
    <3>5. \A p \in Seated' : p \in Seated /\ p # victim
      BY <3>3, <3>4, HostIsNoGuest DEF Seated, SemTypeOK
    <3>6. p_state'[HOST] = "READY"
      BY <1>2, <3>3, <3>4 DEF SemTypeOK
    <3>7. QED
      BY <3>2, <3>4, <3>5, <3>6
  <2>2. CASE ~(i < philos_amount)
    <3>1. UNCHANGED sems
      BY <2>2 DEF CloseKill
    <3>2. QED
      BY <1>2, <2>2, <3>1 DEF sems, SemTypeOK, TypeInv, TypeOK, Seated
  <2>3. QED
    BY <2>1, <2>2
<1>6. TypeInv'
  BY <1>1, <1>2, <1>5 DEF TypeInv, TypeOK, HostPlace
<1>7. TableInv'
  <2>1. InTable(HOST) = TRUE /\ InTable(HOST)' = TRUE
    BY <1>2 DEF InTable
  <2>2. TableGuarded'
    BY <1>2, <1>5, <2>1, HostTable
  <2>3. QED
    BY <1>1, <1>2, <1>3, <1>5, <2>2 DEF TableInv
<1>8. SeatInv'
  <2>1. ASSUME NEW p \in Seated'
        PROVE  \E m \in Bottom' .. Top' - 1 : philos_pid'[m] = p
    <3>1. p \in Seated /\ (i < philos_amount => p # philos_pid[i])
      BY <1>5
    <3>2. PICK m \in i .. philos_amount - 1 : philos_pid[m] = p
      BY <1>3, <1>4, <3>1 DEF SeatInv
    <3>3. m # i
      BY <1>3, <3>1, <3>2
    <3>4. m \in Bottom' .. Top' - 1
      BY <1>3, <1>4, <3>2, <3>3
    <3>5. QED
      BY <1>1, <3>2, <3>4
  <2>2. QED
    BY <1>1, <1>2, <2>1 DEF SeatInv
<1>9. QED
  BY <1>6, <1>7, <1>8

LEMMA CloseForkHouse ==
  ASSUME HouseInv, CloseFork
  PROVE  HouseInv'
<1> USE DEF HouseInv
<1>1. /\ UNCHANGED <<philos_amount, philos_pid, next_pid, number, right>>
      /\ Go(HOST, "close_fork", "close_kill") /\ i' = i + 1
  BY DEF CloseFork
<1>2. /\ pc[HOST] = "close_fork" /\ p_state[HOST] = "READY"
      /\ pc' \in [Proc -> Place] /\ pc'[HOST] = "close_kill"
      /\ \A q \in Guest : pc'[q] = pc[q] /\ pc'[q] \in GuestPlace
  BY <1>1, HostGo DEF HostPlace
<1>3. i \in Nat /\ i < MAX_PHILOS /\ MAX_PHILOS \in Nat
  BY <1>2, PhilosophersAssumption DEF TypeInv, TypeOK
<1>4. PICK f \in Fork : f = i
  BY <1>3 DEF Fork
<1>5. semDestroy(f) /\ f \in Sem /\ f # PHILOS_STATE /\ PHILOS_STATE \in Sem /\ SemTypeOK(Sem, Proc)
  BY <1>4, TableIsNoFork DEF CloseFork, TypeInv, TypeOK
<1>6. /\ SemTypeOK(Sem, Proc)' /\ open' = open \ {f} /\ value' = [value EXCEPT ![f] = 0]
      /\ UNCHANGED p_state
  BY <1>5, DestroyAny
<1>7. Bottom' = Bottom /\ Top' = Top
  BY <1>1, <1>2 DEF Bottom, Top
<1>8. TypeInv'
  BY <1>1, <1>2, <1>3, <1>6 DEF TypeInv, TypeOK, HostPlace
<1>9. TableInv'
  <2>1. InTable(HOST) = TRUE /\ InTable(HOST)' = TRUE
    BY <1>2 DEF InTable
  <2>2. value'[PHILOS_STATE] = value[PHILOS_STATE]
    BY <1>5, <1>6 DEF SemTypeOK
  <2>3. TableGuarded'
    BY <1>2, <1>6, <2>1, <2>2, HostTable
  <2>4. QED
    BY <1>1, <1>2, <1>5, <1>6, <1>7, <2>3 DEF TableInv
<1>10. SeatInv'
  <2>1. \A p \in Seated' : \E m \in Bottom' .. Top' - 1 : philos_pid'[m] = p
    BY <1>1, <1>6, <1>7, SeatsKept DEF Seated
  <2>2. QED
    BY <1>1, <1>2, <2>1 DEF SeatInv
<1>11. QED
  BY <1>8, <1>9, <1>10

LEMMA CloseStateHouse ==
  ASSUME HouseInv, Go(HOST, "close_state", "end"), semDestroy(PHILOS_STATE),
         UNCHANGED <<philos_amount, philos_pid, next_pid, number, right, i>>
  PROVE  HouseInv'
<1> USE DEF HouseInv
<1>1. /\ pc[HOST] = "close_state" /\ p_state[HOST] = "READY"
      /\ pc' \in [Proc -> Place] /\ pc'[HOST] = "end"
      /\ \A q \in Guest : pc'[q] = pc[q] /\ pc'[q] \in GuestPlace
  BY HostGo DEF HostPlace
<1>2. SemTypeOK(Sem, Proc)' /\ UNCHANGED p_state
  BY TableIsNoFork, DestroyAny DEF TypeInv, TypeOK
<1>3. Bottom' = Bottom /\ Top' = Top
  BY <1>1 DEF Bottom, Top
<1>4. TypeInv'
  BY <1>1, <1>2 DEF TypeInv, TypeOK, HostPlace
<1>5. TableInv'
  BY <1>1, <1>3 DEF TableInv, TableGuarded
<1>6. SeatInv'
  <2>1. \A p \in Seated' : \E m \in Bottom' .. Top' - 1 : philos_pid'[m] = p
    BY <1>2, <1>3, SeatsKept DEF Seated
  <2>2. QED
    BY <1>1, <2>1 DEF SeatInv
<1>7. QED
  BY <1>4, <1>5, <1>6

(* The restaurant opens with nobody in it.                                 *)
LEMMA HouseInit ==
  ASSUME Init
  PROVE  HouseInv
<1>1. SemTypeOK(Sem, Proc) /\ open = {PHILOS_STATE} /\ value[PHILOS_STATE] = 1
      /\ \A p \in Guest : p_state[p] = "TERMINATED"
  BY TableIsNoFork, HostIsNoGuest DEF Init, InitSems, SemTypeOK
<1>2. pc \in [Proc -> Place] /\ pc[HOST] = "open" /\ \A p \in Guest : pc[p] = "new_own"
  BY HostIsNoGuest DEF Init, Place
<1>3. 0 \in Fork /\ HOST \in Proc
  BY PhilosophersAssumption, HostIsNoGuest DEF Fork
<1>4. philos_amount = INITIAL_PHILOS /\ next_pid = 1 /\ i = 0
  BY DEF Init
<1>5. TypeInv
  <2>1. TypeOK
    BY <1>1, <1>2, <1>3, PhilosophersAssumption DEF Init, TypeOK
  <2>2. QED
    BY <1>2, <1>4, <2>1, PhilosophersAssumption DEF TypeInv, HostPlace, GuestPlace
<1>6. TableInv
  <2>1. \A p \in Proc : ~InTable(p)
    BY <1>2 DEF InTable, Proc
  <2>2. Top = 0
    BY <1>2, <1>4 DEF Top
  <2>3. QED
    BY <1>1, <2>1, <2>2 DEF TableInv, TableGuarded
<1>7. SeatInv
  BY <1>1, <1>2, <1>4 DEF SeatInv, Seated
<1>8. QED
  BY <1>5, <1>6, <1>7 DEF HouseInv

LEMMA HouseNext ==
  ASSUME HouseInv, [Next]_vars
  PROVE  HouseInv'
<1>1. CASE Open
  BY <1>1, OpenHouse
<1>2. CASE Key
  BY <1>2, KeyHouse
<1>3. CASE Enter
  BY <1>3, EnterHouse
<1>4. CASE AddAmount \/ RemoveAmount
  BY <1>4, AmountHouse
<1>5. CASE AddSeat
  BY <1>5, AddSeatHouse
<1>6. CASE RemoveKill
  BY <1>6, RemoveKillHouse
<1>7. CASE Leave
  <2>1. /\ Go(HOST, "leave", "read") /\ semPost(PHILOS_STATE)
        /\ UNCHANGED <<philos_amount, philos_pid, next_pid, number, right, i>>
    BY <1>7 DEF Leave
  <2>2. QED
    BY <2>1, LeaveHouse
<1>8. CASE CloseKill
  BY <1>8, CloseKillHouse
<1>9. CASE CloseFork
  BY <1>9, CloseForkHouse
<1>10. CASE CloseLeave
  <2>1. UNCHANGED <<philos_amount, philos_pid, next_pid, number, right, i>>
    BY <1>10 DEF CloseLeave
  <2>2. CASE i = MAX_PHILOS /\ Go(HOST, "close_kill", "close_state") /\ semPost(PHILOS_STATE)
    BY <2>1, <2>2, LeaveHouse
  <2>3. CASE Go(HOST, "close_state", "end") /\ semDestroy(PHILOS_STATE)
    BY <2>1, <2>3, CloseStateHouse
  <2>4. QED
    BY <1>10, <2>2, <2>3 DEF CloseLeave
<1>11. CASE \E p \in Guest : Philosopher(p)
  BY <1>11, GuestHouse
<1>12. CASE UNCHANGED vars
  <2>1. TypeInv'
    BY <1>12 DEF HouseInv, TypeInv, TypeOK, vars, sems, SemTypeOK, Full
  <2>2. TableInv'
    BY <1>12 DEF HouseInv, TableInv, TableGuarded, InTable, Top, vars, sems
  <2>3. SeatInv'
    BY <1>12 DEF HouseInv, SeatInv, Seated, Bottom, Top, vars, sems
  <2>4. QED
    BY <2>1, <2>2, <2>3 DEF HouseInv
<1>13. QED
  BY <1>1, <1>2, <1>3, <1>4, <1>5, <1>6, <1>7, <1>8, <1>9, <1>10, <1>11, <1>12 DEF Next, Host

LEMMA House == Spec => []HouseInv
<1>1. Init => HouseInv
  BY HouseInit
<1>2. HouseInv /\ [Next]_vars => HouseInv'
  BY HouseNext
<1>3. QED
  BY <1>1, <1>2, PTL DEF Spec

(* Every variable has its type: no philosopher is seated at a place that   *)
(* the table does not have, and none asks for a fork that is no fork.      *)
THEOREM RestaurantTyped == Spec => []TypeOK
<1>1. HouseInv => TypeOK
  BY DEF HouseInv, TypeInv
<1>2. QED
  BY <1>1, House, PTL

(* PHILOS_STATE is a mutex for the host and the philosophers, for any      *)
(* number of them and whatever the user types: one at a time is inside,    *)
(* and killing philosophers never loses the permit.                        *)
THEOREM TableIsGuarded == Spec => []TableGuarded
<1>1. HouseInv => TableGuarded
  BY DEF HouseInv, TableInv
<1>2. QED
  BY <1>1, House, PTL

(* When initPhilosopher() returns, every philosopher it has ever created   *)
(* has been killed.                                                        *)
THEOREM NobodyIsLeft == Spec => []NobodyStays
<1>1. HouseInv => NobodyStays
  <2>1. SUFFICES ASSUME HouseInv, pc[HOST] = "end"
                 PROVE  Seated = {}
    BY DEF NobodyStays
  <2>2. Bottom = MAX_PHILOS /\ Top = philos_amount
    BY <2>1 DEF HouseInv, SeatInv, Bottom, Top
  <2>3. philos_amount \in Nat /\ MAX_PHILOS \in Nat /\ philos_amount <= MAX_PHILOS
    BY <2>1, PhilosophersAssumption DEF HouseInv, TypeInv, TypeOK
  <2>4. Bottom .. Top - 1 = {}
    BY <2>2, <2>3
  <2>5. QED
    BY <2>1, <2>4 DEF HouseInv, SeatInv
<1>2. QED
  BY <1>1, House, PTL

-----------------------------------------------------------------------------
(* The forks, until the first key: the host has seated, or is seating, the *)
(* first philosophers, and each has the two forks next to its place, which *)
(* it has created or found there before it asks for one.                   *)
EatingPlace == {"first", "second", "eat", "show", "put_own", "put_right"}

NextToIt ==
  /\ pc[HOST] \in {"open", "read"}
  /\ philos_amount = INITIAL_PHILOS
  /\ \A p \in Guest : p >= next_pid => pc[p] = "new_own" /\ p_state[p] = "TERMINATED"
  /\ \A p \in Guest : p < next_pid => number[p] = p - 1 /\ number[p] < philos_amount
  /\ \A p \in Guest : pc[p] # "new_own" => number[p] \in open
  /\ \A p \in Guest : pc[p] \notin {"new_own", "new_right"} => RightOf(number[p]) \in open
  /\ \A p \in Guest : pc[p] \in EatingPlace => right[p] = RightOf(number[p])

(* A fork has one permit or one owner.                                     *)
OneHand ==
  /\ \A f \in Fork : value[f] \in {0, 1}
  /\ \A p \in Guest : \A f \in Holds(p) : f \in open /\ value[f] = 0
  /\ \A p, q \in Guest : p # q => Holds(p) \cap Holds(q) = {}

ForkInv == NextToIt /\ OneHand

(* The forks of a philosopher are two.                                     *)
LEMMA RightIsOther ==
  ASSUME philos_amount \in Nat \ {0, 1}, NEW n \in 0 .. philos_amount - 1
  PROVE  RightOf(n) # n
<1>1. CASE n + 1 < philos_amount
  BY <1>1, ModSmall DEF RightOf
<1>2. CASE n + 1 = philos_amount
  <2>1. PICK m \in Nat \ {0, 1} : m = philos_amount
    OBVIOUS
  <2>2. m % m = m - m
    BY <2>1, ModOver
  <2>3. RightOf(n) = 0 /\ n # 0
    BY <1>2, <2>1, <2>2 DEF RightOf
  <2>4. QED
    BY <2>3
<1>3. QED
  BY <1>1, <1>2

(* What somebody else holds does not change.                               *)
LEMMA OthersHold ==
  ASSUME TypeInv, NEW p \in Guest, NEW q \in Guest, q # p, GuestStep(p), UNCHANGED number,
         right'[q] = right[q]
  PROVE  Holds(q)' = Holds(q)
<1>1. pc'[q] = pc[q] /\ number'[q] = number[q]
  BY HostIsNoGuest DEF GuestStep
<1>2. FirstFork(q)' = FirstFork(q)
  BY <1>1 DEF FirstFork
<1>3. QED
  BY <1>1, <1>2 DEF Holds

(* A hand takes a fork that is free, puts down one that it has, or leaves  *)
(* the forks alone but for a new one.                                      *)
LEMMA HandTakes ==
  ASSUME OneHand, SemTypeOK(Sem, Proc), NEW p \in Guest, NEW f \in Fork, f \in open, value[f] > 0,
         value' = [value EXCEPT ![f] = @ - 1], UNCHANGED open,
         Holds(p)' = Holds(p) \cup {f}, Holds(p) \subseteq Fork,
         \A q \in Guest \ {p} : Holds(q)' = Holds(q) /\ Holds(q) \subseteq Fork
  PROVE  OneHand'
<1>1. value[f] = 1 /\ \A q \in Guest : f \notin Holds(q)
  BY DEF OneHand
<1>2. value'[f] = 0 /\ \A g \in Fork \ {f} : value'[g] = value[g]
  BY <1>1, TableIsNoFork DEF SemTypeOK
<1>3. \A g \in Fork : value'[g] \in {0, 1}
  BY <1>2 DEF OneHand
<1>4. \A q \in Guest : \A g \in Holds(q)' : g \in open' /\ value'[g] = 0
  BY <1>1, <1>2 DEF OneHand
<1>5. \A q, r \in Guest : q # r => Holds(q)' \cap Holds(r)' = {}
  BY <1>1 DEF OneHand
<1>6. QED
  BY <1>3, <1>4, <1>5 DEF OneHand

LEMMA HandDrops ==
  ASSUME OneHand, SemTypeOK(Sem, Proc), NEW p \in Guest, NEW f \in Fork, f \in Holds(p),
         value' = [value EXCEPT ![f] = @ + 1], UNCHANGED open,
         Holds(p)' = Holds(p) \ {f}, Holds(p) \subseteq Fork,
         \A q \in Guest \ {p} : Holds(q)' = Holds(q) /\ Holds(q) \subseteq Fork
  PROVE  OneHand'
<1>1. value[f] = 0 /\ \A q \in Guest \ {p} : f \notin Holds(q)
  BY DEF OneHand
<1>2. value'[f] = 1 /\ \A g \in Fork \ {f} : value'[g] = value[g]
  BY <1>1, TableIsNoFork DEF SemTypeOK
<1>3. \A g \in Fork : value'[g] \in {0, 1}
  BY <1>2 DEF OneHand
<1>4. \A q \in Guest : \A g \in Holds(q)' : g \in open' /\ value'[g] = 0
  BY <1>1, <1>2 DEF OneHand
<1>5. \A q, r \in Guest : q # r => Holds(q)' \cap Holds(r)' = {}
  BY <1>1 DEF OneHand
<1>6. QED
  BY <1>3, <1>4, <1>5 DEF OneHand

LEMMA HandStays ==
  ASSUME OneHand, open \subseteq open', \A f \in Fork : f \in open => value'[f] = value[f],
         \A f \in Fork : f \notin open => value'[f] \in {0, 1},
         \A q \in Guest : Holds(q)' = Holds(q) /\ Holds(q) \subseteq Fork
  PROVE  OneHand'
  BY DEF OneHand

LEMMA HoldsForks ==
  ASSUME TypeInv, NEW p \in Guest
  PROVE  Holds(p) \subseteq Fork
  BY ForksTyped DEF Holds

(* A philosopher that takes a step has been seated, and has two forks.     *)
LEMMA ItsForks ==
  ASSUME TypeInv, NextToIt, NEW p \in Guest, p_state[p] = "READY"
  PROVE  /\ p < next_pid
         /\ number[p] \in Fork /\ RightOf(number[p]) \in Fork
         /\ RightOf(number[p]) # number[p]
<1>1. p \in Nat /\ next_pid \in Nat /\ p < next_pid
  <2>1. p \in Nat /\ next_pid \in Nat
    BY PhilosophersAssumption DEF TypeInv, TypeOK, Guest
  <2>2. ~(p >= next_pid)
    BY DEF NextToIt
  <2>3. QED
    BY <2>1, <2>2
<1>2. number[p] \in 0 .. philos_amount - 1 /\ philos_amount \in Nat \ {0, 1}
  BY <1>1, PhilosophersAssumption DEF NextToIt, TypeInv, TypeOK, Guest
<1>3. RightOf(number[p]) # number[p]
  BY <1>2, RightIsOther
<1>4. QED
  BY <1>1, <1>3, ForksTyped

(* Where a philosopher is next is next to its forks.                       *)
LEMMA StaysNextToIt ==
  ASSUME TypeInv, NextToIt, NEW p \in Guest, GuestStep(p),
         UNCHANGED <<philos_amount, next_pid, number>>,
         pc'[p] # "new_own" => number[p] \in open',
         pc'[p] \notin {"new_own", "new_right"} => RightOf(number[p]) \in open',
         pc'[p] \in EatingPlace => right'[p] = RightOf(number[p]),
         \A q \in Guest \ {p} : right'[q] = right[q]
  PROVE  NextToIt'
<1>1. \A n \in Fork : RightOf(n)' = RightOf(n)
  BY DEF RightOf
<1>2. \A q \in Guest : number[q] \in Fork /\ q \in Proc
  BY HostIsNoGuest DEF TypeInv, TypeOK
<1>3. \A q \in Guest : RightOf(number[q])' = RightOf(number[q])
  BY DEF RightOf
<1>4. pc'[HOST] = pc[HOST] /\ \A q \in Guest \ {p} : pc'[q] = pc[q]
  BY HostIsNoGuest DEF GuestStep
<1>5. p < next_pid
  BY ItsForks DEF GuestStep
<1>6. \A q \in Guest : q >= next_pid => pc'[q] = "new_own" /\ p_state'[q] = "TERMINATED"
  <2>1. p \in Nat /\ next_pid \in Nat /\ ~(p >= next_pid)
    BY <1>5, PhilosophersAssumption DEF TypeInv, TypeOK, Guest
  <2>2. \A q \in Guest : p_state'[q] = "TERMINATED" <=> p_state[q] = "TERMINATED"
    BY <1>2 DEF GuestStep
  <2>3. QED
    BY <1>4, <2>1, <2>2 DEF NextToIt
<1>7. open \subseteq open'
  BY DEF GuestStep
<1>8. \A q \in Guest : pc'[q] # "new_own" => number[q] \in open'
  BY <1>4, <1>7 DEF NextToIt
<1>9. \A q \in Guest : pc'[q] \notin {"new_own", "new_right"} => RightOf(number[q]) \in open'
  BY <1>4, <1>7 DEF NextToIt
<1>10. \A q \in Guest : pc'[q] \in EatingPlace => right'[q] = RightOf(number[q])
  BY <1>4 DEF NextToIt
<1>11. QED
  BY <1>3, <1>4, <1>6, <1>8, <1>9, <1>10 DEF NextToIt

LEMMA GuestForks ==
  ASSUME TypeInv, ForkInv, NEW p \in Guest, Philosopher(p)
  PROVE  ForkInv'
<1>1. GuestStep(p) /\ UNCHANGED <<philos_amount, philos_pid, next_pid, number, i>>
  BY PhilosopherStep
<1>2. PICK own \in Fork, other \in Fork :
        own = number[p] /\ other = RightOf(number[p]) /\ own # other
  BY <1>1, ItsForks DEF ForkInv, GuestStep
<1>3. /\ pc[p] # "new_own" => own \in open
      /\ pc[p] \notin {"new_own", "new_right"} => other \in open
      /\ pc[p] \in EatingPlace => right[p] = other
      /\ OneHand /\ NextToIt
  BY <1>2 DEF ForkInv, NextToIt
<1>4. SemTypeOK(Sem, Proc) /\ own \in Sem /\ other \in Sem /\ p \in Proc /\ right \in [Guest -> Fork]
      /\ own # PHILOS_STATE /\ other # PHILOS_STATE /\ PHILOS_STATE \in Sem
  BY TableIsNoFork, HostIsNoGuest DEF TypeInv, TypeOK
<1>5. \A q \in Guest : Holds(q) \subseteq Fork
  BY HoldsForks
<1>6. ASSUME \A q \in Guest \ {p} : right'[q] = right[q]
      PROVE  \A q \in Guest \ {p} : Holds(q)' = Holds(q) /\ Holds(q) \subseteq Fork
  BY <1>1, <1>5, <1>6, OthersHold
<1>7. ASSUME own \in open',
             pc'[p] # "new_right" => other \in open',
             pc'[p] \in EatingPlace => right'[p] = other,
             \A q \in Guest \ {p} : right'[q] = right[q]
      PROVE  NextToIt'
  <2>1. /\ number[p] \in open'
        /\ pc'[p] \notin {"new_own", "new_right"} => RightOf(number[p]) \in open'
        /\ pc'[p] \in EatingPlace => right'[p] = RightOf(number[p])
    BY <1>2, <1>7
  <2>2. QED
    BY <1>1, <1>3, <1>7, <2>1, StaysNextToIt
<1>8. CASE NewOwn(p) \/ NewRight(p)
  <2>1. PICK f \in {own, other}, from \in {"new_own", "new_right"}, to \in {"new_right", "look"} :
          /\ Go(p, from, to) /\ newSemaphore(f, 1) /\ UNCHANGED right
          /\ f = own <=> from = "new_own"
          /\ to = "look" <=> from = "new_right"
    <3>1. CASE NewOwn(p)
      BY <1>2, <3>1 DEF NewOwn
    <3>2. CASE NewRight(p)
      BY <1>2, <3>2 DEF NewRight
    <3>3. QED
      BY <1>8, <3>1, <3>2
  <2>2. pc[p] = from /\ pc'[p] = to
    BY <1>4, <2>1, GoTyped DEF Place
  <2>3. open' = open \cup {f} /\ value' = IF f \in open THEN value ELSE [value EXCEPT ![f] = 1]
    BY <1>4, <2>1, NewAny
  <2>4. own \in open' /\ (to = "look" => other \in open')
    BY <1>3, <2>1, <2>2, <2>3
  <2>5. NextToIt'
    BY <1>7, <2>1, <2>2, <2>4 DEF EatingPlace
  <2>6. Holds(p) = {} /\ Holds(p)' = {}
    BY <2>2 DEF Holds
  <2>7. \A g \in Fork : /\ g \in open => value'[g] = value[g]
                        /\ g \notin open => value'[g] \in {0, 1}
    BY <1>3, <1>4, <2>3, TableIsNoFork DEF OneHand, SemTypeOK
  <2>8. OneHand'
    BY <1>3, <1>5, <1>6, <2>1, <2>3, <2>6, <2>7, HandStays
  <2>9. QED
    BY <2>5, <2>8 DEF ForkInv
<1>9. CASE Look(p)
  <2>1. Go(p, "look", "first") /\ right' = [right EXCEPT ![p] = other] /\ UNCHANGED sems
    BY <1>2, <1>9 DEF Look
  <2>2. pc[p] = "look" /\ pc'[p] = "first"
    BY <1>4, <2>1, GoTyped DEF Place
  <2>3. right'[p] = other /\ \A q \in Guest \ {p} : right'[q] = right[q]
    BY <1>4, <2>1
  <2>4. NextToIt'
    BY <1>3, <1>7, <2>1, <2>2, <2>3 DEF sems
  <2>5. Holds(p) = {} /\ Holds(p)' = {}
    BY <2>2 DEF Holds
  <2>6. \A g \in Fork : value'[g] = value[g] /\ value[g] \in {0, 1}
    BY <1>3, <2>1 DEF OneHand, sems
  <2>7. OneHand'
    BY <1>3, <1>5, <1>6, <2>1, <2>3, <2>5, <2>6, HandStays DEF sems
  <2>8. QED
    BY <2>4, <2>7 DEF ForkInv
<1>10. CASE Take(p)
  <2>1. PICK f \in {own, other}, from \in {"first", "second"}, to \in {"second", "eat"} :
          /\ Wait(p, f, from, to)
          /\ f = IF from = "first" THEN FirstFork(p) ELSE SecondFork(p)
          /\ to = "second" <=> from = "first"
    <3>1. CASE Wait(p, FirstFork(p), "first", "second")
      <4>1. pc[p] = "first"
        BY <3>1 DEF Wait, Go
      <4>2. FirstFork(p) \in {own, other}
        BY <1>2, <1>3, <4>1 DEF FirstFork, EatingPlace
      <4>3. QED
        BY <3>1, <4>2
    <3>2. CASE Wait(p, SecondFork(p), "second", "eat")
      <4>1. pc[p] = "second"
        BY <3>2 DEF Wait, Go
      <4>2. SecondFork(p) \in {own, other}
        BY <1>2, <1>3, <4>1 DEF SecondFork, EatingPlace
      <4>3. QED
        BY <3>2, <4>2
    <3>3. QED
      BY <1>10, <3>1, <3>2 DEF Take
  <2>2. UNCHANGED right
    BY <1>10 DEF Take
  <2> DEFINE there == IF Returns(f, p) THEN to ELSE from
  <2>3. Go(p, from, there) /\ semWait(f, p) /\ f \in Sem /\ there \in Place
    BY <1>4, <2>1 DEF Wait, Place
  <2>4. pc[p] = from /\ p_state[p] = "READY" /\ pc'[p] = there
    <3> HIDE DEF there
    <3>1. QED
      BY <1>4, <2>3, GoTyped
  <2>5. own \in open /\ other \in open /\ right[p] = other /\ f \in open
    BY <1>3, <2>1, <2>4 DEF EatingPlace
  <2>6. /\ UNCHANGED open
        /\ value' = IF value[f] > 0 THEN [value EXCEPT ![f] = @ - 1] ELSE value
        /\ Returns(f, p) <=> value[f] > 0
    BY <1>4, <2>3, <2>4, <2>5, WaitAny
  <2>7. NextToIt'
    BY <1>7, <2>2, <2>5, <2>6
  <2>8. FirstFork(p)' = FirstFork(p)
    BY <1>1, <2>2 DEF FirstFork
  <2>9. OneHand'
    <3>1. CASE Returns(f, p)
      <4>1. pc'[p] = to /\ value[f] > 0 /\ value' = [value EXCEPT ![f] = @ - 1]
        BY <2>4, <2>6, <3>1
      <4>2. Holds(p)' = Holds(p) \cup {f}
        <5>1. CASE from = "first"
          BY <2>1, <2>4, <2>8, <4>1, <5>1 DEF Holds
        <5>2. CASE from = "second"
          <6>1. Holds(p) = {FirstFork(p)} /\ f = SecondFork(p) /\ Holds(p)' = {own, other}
            BY <1>1, <1>2, <2>1, <2>2, <2>4, <2>5, <4>1, <5>2 DEF Holds
          <6>2. {FirstFork(p), SecondFork(p)} = {own, other}
            BY <1>2, <2>5 DEF FirstFork, SecondFork
          <6>3. QED
            BY <6>1, <6>2
        <5>3. QED
          BY <5>1, <5>2
      <4>3. QED
        BY <1>3, <1>4, <1>5, <1>6, <2>2, <2>5, <2>6, <4>1, <4>2, HandTakes
    <3>2. CASE ~Returns(f, p)
      <4>1. pc'[p] = pc[p] /\ value' = value
        BY <2>4, <2>6, <3>2
      <4>2. Holds(p)' = Holds(p)
        BY <1>1, <2>2, <2>8, <4>1 DEF Holds
      <4>3. QED
        BY <1>3, <1>5, <1>6, <2>2, <2>6, <4>1, <4>2, HandStays DEF OneHand
    <3>3. QED
      BY <3>1, <3>2
  <2>10. QED
    BY <2>7, <2>9 DEF ForkInv
<1>11. CASE Eat(p)
  <2>1. pc[p] \in {"eat", "show"} /\ pc'[p] \in {"eat", "show", "put_own"} /\ UNCHANGED <<open, right>>
        /\ \A g \in Fork : value'[g] = value[g]
    <3>1. CASE Wait(p, PHILOS_STATE, "eat", "show")
      <4> DEFINE there == IF Returns(PHILOS_STATE, p) THEN "show" ELSE "eat"
      <4>1. Go(p, "eat", there) /\ semWait(PHILOS_STATE, p) /\ there \in Place
        BY <3>1 DEF Wait, Place
      <4>2. pc[p] = "eat" /\ pc'[p] = there /\ p_state[p] = "READY"
        <5> HIDE DEF there
        <5>1. QED
          BY <1>4, <4>1, GoTyped
      <4>3. UNCHANGED open /\ \A g \in Fork : value'[g] = value[g]
        BY <1>4, <4>1, <4>2, WaitAny, TableIsNoFork DEF SemTypeOK
      <4>4. QED
        BY <1>11, <4>2, <4>3 DEF Eat
    <3>2. CASE Go(p, "show", "put_own") /\ semPost(PHILOS_STATE)
      <4>1. pc[p] = "show" /\ pc'[p] = "put_own"
        BY <1>4, <3>2, GoTyped DEF Place
      <4>2. UNCHANGED open /\ \A g \in Fork : value'[g] = value[g]
        <5>1. /\ UNCHANGED open
              /\ value' = IF PHILOS_STATE \in open THEN [value EXCEPT ![PHILOS_STATE] = @ + 1] ELSE value
          BY <1>4, <3>2, PostAny
        <5>2. QED
          BY <1>4, <5>1, TableIsNoFork DEF SemTypeOK
      <4>3. QED
        BY <1>11, <4>1, <4>2 DEF Eat
    <3>3. QED
      BY <1>11, <3>1, <3>2 DEF Eat
  <2>2. NextToIt'
    BY <1>3, <1>7, <2>1 DEF EatingPlace
  <2>3. Holds(p)' = Holds(p)
    BY <1>1, <2>1 DEF Holds
  <2>4. OneHand'
    BY <1>3, <1>5, <1>6, <2>1, <2>3, HandStays DEF OneHand
  <2>5. QED
    BY <2>2, <2>4 DEF ForkInv
<1>12. CASE Put(p)
  <2>1. PICK f \in {own, other}, from \in {"put_own", "put_right"}, to \in {"put_right", "look"} :
          /\ Go(p, from, to) /\ semPost(f) /\ UNCHANGED right
          /\ f = own <=> from = "put_own"
          /\ to = "look" <=> from = "put_right"
    <3>1. CASE Go(p, "put_own", "put_right") /\ semPost(number[p])
      BY <1>2, <1>12, <3>1 DEF Put
    <3>2. CASE Go(p, "put_right", "look") /\ semPost(right[p])
      <4>1. pc[p] = "put_right"
        BY <3>2 DEF Go
      <4>2. right[p] = other
        BY <1>3, <4>1 DEF EatingPlace
      <4>3. QED
        BY <1>2, <1>12, <3>2, <4>2 DEF Put
    <3>3. QED
      BY <1>12, <3>1, <3>2 DEF Put
  <2>2. pc[p] = from /\ pc'[p] = to
    BY <1>4, <2>1, GoTyped DEF Place
  <2>3. own \in open /\ other \in open /\ right[p] = other /\ right'[p] = other
    BY <1>3, <2>1, <2>2 DEF EatingPlace
  <2>4. UNCHANGED open /\ value' = [value EXCEPT ![f] = @ + 1]
    BY <1>4, <2>1, <2>3, PostAny
  <2>5. NextToIt'
    BY <1>7, <2>1, <2>3, <2>4
  <2>6. f \in Holds(p) /\ Holds(p)' = Holds(p) \ {f}
    BY <1>1, <1>2, <2>1, <2>2, <2>3 DEF Holds
  <2>7. OneHand'
    BY <1>3, <1>4, <1>5, <1>6, <2>1, <2>4, <2>6, HandDrops
  <2>8. QED
    BY <2>5, <2>7 DEF ForkInv
<1>13. QED
  BY <1>8, <1>9, <1>10, <1>11, <1>12 DEF Philosopher

(* Seating the first philosophers, and the last step before the keyboard.  *)
LEMMA OpenForks ==
  ASSUME TypeInv, ForkInv, Open
  PROVE  ForkInv'
<1>1. UNCHANGED <<philos_amount, right, i>>
  BY DEF Open
<1>2. /\ philos_amount = INITIAL_PHILOS /\ INITIAL_PHILOS \in Nat /\ INITIAL_PHILOS <= MAX_PHILOS
      /\ INITIAL_PHILOS <= MaxGuests /\ MaxGuests \in Nat /\ MAX_PHILOS \in Nat
      /\ next_pid \in Nat \ {0} /\ Guest \subseteq Nat
  BY PhilosophersAssumption DEF ForkInv, NextToIt, TypeInv, TypeOK, Guest
<1>3. \A n \in Fork : RightOf(n)' = RightOf(n)
  BY <1>1 DEF RightOf
<1>4. CASE next_pid <= INITIAL_PHILOS
  <2>1. PICK n \in Fork : n = next_pid - 1
    BY <1>2, <1>4 DEF Fork
  <2>2. Go(HOST, "open", "open") /\ Seat(n) /\ next_pid <= MaxGuests
    BY <1>2, <1>4, <2>1 DEF Open
  <2>3. pc'[HOST] = "open" /\ \A q \in Guest : pc'[q] = pc[q]
    BY <2>2, HostGo DEF HostPlace
  <2>4. /\ UNCHANGED <<open, value>> /\ next_pid \in Guest /\ next_pid' = next_pid + 1
        /\ p_state' = [p_state EXCEPT ![next_pid] = "READY"]
        /\ number' = [number EXCEPT ![next_pid] = n]
    BY <2>2, SeatTyped
  <2>5. /\ number'[next_pid] = n /\ pc'[next_pid] = "new_own"
        /\ \A q \in Guest \ {next_pid} : number'[q] = number[q] /\ p_state'[q] = p_state[q]
    <3>1. pc[next_pid] = "new_own"
      BY <1>2, <2>4 DEF ForkInv, NextToIt
    <3>2. QED
      BY <2>3, <2>4, <3>1, HostIsNoGuest DEF TypeInv, TypeOK, SemTypeOK
  <2>6. \A q \in Guest : q # next_pid => RightOf(number[q])' = RightOf(number[q])
    BY <1>1, <2>5 DEF RightOf
  <2>7. NextToIt'
    <3>1. \A q \in Guest : q >= next_pid' => pc'[q] = "new_own" /\ p_state'[q] = "TERMINATED"
      BY <1>2, <2>3, <2>4, <2>5 DEF ForkInv, NextToIt
    <3>2. \A q \in Guest : q < next_pid' => number'[q] = q - 1 /\ number'[q] < philos_amount'
      BY <1>1, <1>2, <1>4, <2>1, <2>4, <2>5 DEF ForkInv, NextToIt
    <3>3. \A q \in Guest : pc'[q] # "new_own" => number'[q] \in open'
      BY <2>3, <2>4, <2>5 DEF ForkInv, NextToIt
    <3>4. \A q \in Guest : pc'[q] \notin {"new_own", "new_right"} => RightOf(number[q])' \in open'
      BY <2>3, <2>4, <2>5, <2>6 DEF ForkInv, NextToIt
    <3>5. \A q \in Guest : pc'[q] \in EatingPlace => right'[q] = RightOf(number[q])'
      BY <1>1, <2>3, <2>5, <2>6 DEF ForkInv, NextToIt, EatingPlace
    <3>6. QED
      BY <1>1, <1>2, <2>3, <3>1, <3>2, <3>3, <3>4, <3>5 DEF NextToIt
  <2>8. \A q \in Guest : Holds(q)' = Holds(q)
    <3>1. ASSUME NEW q \in Guest \ {next_pid}
          PROVE  Holds(q)' = Holds(q)
      <4>1. pc'[q] = pc[q] /\ number'[q] = number[q] /\ right'[q] = right[q]
        BY <1>1, <2>3, <2>5
      <4>2. FirstFork(q)' = FirstFork(q)
        BY <4>1 DEF FirstFork
      <4>3. QED
        BY <4>1, <4>2 DEF Holds
    <3>2. ASSUME NEW q \in Guest, q = next_pid
          PROVE  Holds(q)' = Holds(q)
      <4>1. pc'[q] = "new_own" /\ pc[q] = "new_own"
        BY <2>3, <2>5, <3>2
      <4>2. QED
        BY <4>1 DEF Holds
    <3>3. QED
      BY <3>1, <3>2
  <2>9. OneHand'
    BY <2>4, <2>8 DEF ForkInv, OneHand
  <2>10. QED
    BY <2>7, <2>9 DEF ForkInv
<1>5. CASE ~(next_pid <= INITIAL_PHILOS)
  <2>1. Go(HOST, "open", "read") /\ UNCHANGED <<sems, philos_pid, next_pid, number>>
    BY <1>5 DEF Open
  <2>2. pc'[HOST] = "read" /\ \A q \in Guest : pc'[q] = pc[q]
    BY <2>1, HostGo DEF HostPlace
  <2>3. \A q \in Guest : RightOf(number[q])' = RightOf(number[q]) /\ FirstFork(q)' = FirstFork(q)
    BY <1>1, <2>1 DEF RightOf, FirstFork
  <2>4. NextToIt'
    BY <1>1, <2>1, <2>2, <2>3 DEF ForkInv, NextToIt, sems
  <2>5. \A q \in Guest : Holds(q)' = Holds(q)
    BY <1>1, <2>1, <2>2, <2>3 DEF Holds
  <2>6. OneHand'
    BY <2>1, <2>5 DEF ForkInv, OneHand, sems
  <2>7. QED
    BY <2>4, <2>6 DEF ForkInv
<1>6. QED
  BY <1>4, <1>5

LEMMA ForkInit ==
  ASSUME Init
  PROVE  ForkInv
<1>1. /\ pc[HOST] = "open" /\ \A p \in Guest : pc[p] = "new_own" /\ p_state[p] = "TERMINATED"
      /\ philos_amount = INITIAL_PHILOS /\ next_pid = 1
  BY HostIsNoGuest DEF Init, InitSems
<1>2. \A f \in Fork : value[f] \in {0, 1}
  BY TableIsNoFork DEF Init, InitSems
<1>3. \A p \in Guest : Holds(p) = {}
  BY <1>1 DEF Holds
<1>4. \A p \in Guest : ~(p < next_pid)
  BY <1>1, PhilosophersAssumption DEF Guest
<1>5. QED
  BY <1>1, <1>2, <1>3, <1>4 DEF ForkInv, NextToIt, OneHand, EatingPlace

(* Without a key the host does nothing more than open.                     *)
LEMMA ForkNext ==
  ASSUME TypeInv, ForkInv, [Next]_vars, [~Key]_vars
  PROVE  ForkInv'
<1>1. CASE UNCHANGED vars
  <2>1. \A p \in Guest : Holds(p)' = Holds(p)
    BY <1>1 DEF Holds, FirstFork, vars
  <2>2. \A p \in Guest : RightOf(number[p])' = RightOf(number[p])
    BY <1>1 DEF RightOf, vars
  <2>3. NextToIt'
    BY <1>1, <2>2 DEF ForkInv, NextToIt, vars, sems
  <2>4. OneHand'
    BY <1>1, <2>1 DEF ForkInv, OneHand, vars, sems
  <2>5. QED
    BY <2>3, <2>4 DEF ForkInv
<1>2. CASE Open
  BY <1>2, OpenForks
<1>3. CASE \E p \in Guest : Philosopher(p)
  BY <1>3, GuestForks
<1>4. CASE Host /\ ~Open
  BY <1>4 DEF Host, Enter, Wait, AddAmount, AddSeat, RemoveAmount, RemoveKill, Leave, CloseKill,
              CloseFork, CloseLeave, Go, ForkInv, NextToIt
<1>5. QED
  BY <1>1, <1>2, <1>3, <1>4 DEF Next

(* No fork is in two hands until the user types the first key, for any     *)
(* number of philosophers: each creates both its forks, whoever comes      *)
(* first, and puts them down in another order than it took them.  (With a  *)
(* key it is false: a neighbour that has been announced and has not yet    *)
(* run has not created its fork, and sem_wait() comes back without one.)   *)
THEOREM ForksInOneHand == Spec /\ [][~Key]_vars => []ForksExclusive
<1>1. Init => ForkInv
  BY ForkInit
<1>2. TypeInv /\ ForkInv /\ [Next]_vars /\ [~Key]_vars => ForkInv'
  BY ForkNext
<1>3. HouseInv => TypeInv
  BY DEF HouseInv
<1>4. ForkInv => ForksExclusive
  BY DEF ForkInv, OneHand, ForksExclusive, Seated
<1>5. QED
  BY <1>1, <1>2, <1>3, <1>4, House, PTL DEF Spec
=============================================================================
