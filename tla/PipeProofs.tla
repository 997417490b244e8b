----------------------------- MODULE PipeProofs -----------------------------
(***************************************************************************)
(* What holds of a pipe for buffers of any size, any number of bytes and   *)
(* any lines at the prompt, and that no line is read with the words of an  *)
(* older one.                                                              *)
(***************************************************************************)
EXTENDS Pipeline, CommonProofs

-----------------------------------------------------------------------------
(* The inductive invariant of the pipe, in parts.                          *)

Sides == {WRITER, READER}

(* p1 is not there yet.                                                    *)
NotYet == p_state[WRITER] = "TERMINATED" /\ pc[WRITER] = "run"

ShellPlace  == {"prompt", "start", "create_writer", "create_reader", "wait", "waiting"}
WriterPlace == {"run", "wait_write", "wait_mutex", "put", "post_mutex", "tell", "hand", "close", "exit", "dead"}
ReaderPlace == {"run", "wait_read", "wait_mutex", "get", "post_mutex", "tell", "hand", "close", "exit", "dead"}

PlaceOK ==
  /\ pc \in [Proc -> Place]
  /\ pc[SHELL] \in ShellPlace /\ pc[WRITER] \in WriterPlace /\ pc[READER] \in ReaderPlace

KernelOK ==
  /\ SemTypeOK(Sem, Proc) /\ lost = {} /\ fd_open \in BOOLEAN
  /\ open = IF fd_open THEN Sem ELSE {}

(* Only the two sides sleep, where they ask.                               *)
Asking(s) == CASE s = "write_fd" -> "wait_write" [] s = "read_fd" -> "wait_read" [] s = "mutex_fd" -> "wait_mutex"

SleepOK == \A s \in Sem : \A p \in inside[s] : p \in Sides /\ pc[p] = Asking(s)

(* Before p1 there is nothing but an open descriptor, when the shell is    *)
(* about to create it.                                                     *)
NothingYet ==
  /\ NotYet => /\ sent = 0 /\ closing = FALSE /\ received = <<>>
               /\ readIdx = 0 /\ writeIdx = 0 /\ used = 0
               /\ p_state[READER] = "TERMINATED" /\ pc[READER] = "run"
               /\ reader_pid = NOBODY
               /\ fd_open <=> pc[SHELL] = "create_writer"
               /\ pc[SHELL] # "create_reader"
  /\ pc[SHELL] = "create_writer" => NotYet /\ writer_pid = SHELL

(* The descriptor belongs to p1 until it has closed it, and to p2 in its   *)
(* calls.                                                                  *)
OwnersOK ==
  /\ writer_pid \in {NOBODY, SHELL, WRITER} /\ reader_pid \in {NOBODY, READER}
  /\ ~NotYet /\ pc[WRITER] \notin {"exit", "dead"} => fd_open /\ writer_pid = WRITER
  /\ InCall(READER) => fd_open /\ reader_pid = READER
  /\ pc[WRITER] \in {"tell", "hand", "close", "exit", "dead"} => closing

(* Who has the processor without being READY is in its exit.               *)
Leaving == {"tell", "hand", "close", "exit"}

ExitOK ==
  /\ exiting \in {NOBODY, WRITER, READER, WRECK} /\ relisted \subseteq Proc /\ dropped \in BOOLEAN
  /\ exiting = WRITER => closing /\ pc[WRITER] # "run"
  /\ exiting = READER => pc[READER] \in Leaving

RingOK ==
  /\ buff \in Ring(BUFF_SIZE, Nat \cup {EOF})
  /\ readIdx \in 0 .. BUFF_SIZE - 1 /\ writeIdx \in 0 .. BUFF_SIZE - 1
  /\ used \in 0 .. BUFF_SIZE
  /\ writeIdx = Behind(BUFF_SIZE, readIdx, used)

(* A place of the ring is a permit to write, a byte, or promised to p1; a  *)
(* byte is a permit to read, or promised to p2.                            *)
Place1 == IF pc[WRITER] \in {"wait_mutex", "put"} THEN 1 ELSE 0
Byte2  == IF pc[READER] \in {"wait_mutex", "get"} THEN 1 ELSE 0

PermitsOK ==
  fd_open => /\ value["write_fd"] + used + Place1 = BUFF_SIZE
             /\ value["read_fd"] + Byte2 = used

SentOK ==
  /\ closing \in BOOLEAN /\ sent \in 0 .. MaxBytes /\ received \in Seq(Nat \cup {EOF})
  /\ pc[WRITER] \in {"wait_write", "wait_mutex", "put"} /\ ~closing => sent < MaxBytes

PInv == PlaceOK /\ KernelOK /\ SleepOK /\ NothingYet /\ OwnersOK /\ ExitOK /\ RingOK /\ PermitsOK /\ SentOK

-----------------------------------------------------------------------------
LEMMA Bounds == BUFF_SIZE \in Nat \ {0} /\ MaxBytes \in Nat
<1>1. BUFF_SIZE \in Nat \ {0} /\ MaxBytes \in 0 .. 4095
  BY PipeAssumption DEF PipeAssumption
<1>2. QED
  BY <1>1

LEMMA Names ==
  /\ Proc = {SHELL, WRITER, READER, JOB} /\ Sem = {"mutex_fd", "read_fd", "write_fd"}
  /\ SHELL = 0 /\ WRITER = 1 /\ READER = 2 /\ JOB = 3 /\ NOBODY = -1 /\ WRECK = -2
  BY DEF Proc, Sem, SHELL, WRITER, READER, JOB, NOBODY, WRECK

LEMMA InitPipe == Init => PInv
<1> SUFFICES ASSUME Init PROVE PInv
  OBVIOUS
<1> USE Bounds
<1>1. PlaceOK /\ SleepOK
  BY Names DEF Init, PipeInit, PlaceOK, SleepOK, Place, ShellPlace, WriterPlace, ReaderPlace
<1>2. KernelOK
  <2>1. SemTypeOK(Sem, Proc)
    <3>1. value \in [Sem -> Nat] /\ queue \in [Sem -> Seq(Proc)] /\ inside \in [Sem -> SUBSET Proc]
      BY DEF Init, PipeInit
    <3>2. p_state \in [Proc -> {"READY", "BLOCKED", "TERMINATED"}]
      BY DEF Init, PipeInit
    <3>3. QED
      BY <3>1, <3>2 DEF Init, PipeInit, SemTypeOK
  <2>2. QED
    BY <2>1 DEF Init, PipeInit, KernelOK
<1> USE Names
<1>6. NothingYet
  BY DEF Init, PipeInit, NothingYet, NotYet
<1>7. OwnersOK
  BY DEF Init, PipeInit, NotYet, OwnersOK, InCall
<1>8. ExitOK
  <2>1. exiting = NOBODY /\ relisted = {} /\ dropped = FALSE
    BY DEF Init, PipeInit
  <2>2. NOBODY \in {NOBODY, WRITER, READER, WRECK} /\ {} \subseteq Proc /\ FALSE \in BOOLEAN
    OBVIOUS
  <2>3. NOBODY # WRITER /\ NOBODY # READER
    OBVIOUS
  <2>4. QED
    BY <2>1, <2>2, <2>3 DEF ExitOK
<1>3. RingOK /\ PermitsOK
  <2>1. /\ buff = [k \in 0 .. BUFF_SIZE - 1 |-> 0] /\ readIdx = 0 /\ writeIdx = 0 /\ used = 0
        /\ fd_open = FALSE
    BY DEF Init, PipeInit
  <2>2. buff \in Ring(BUFF_SIZE, Nat \cup {EOF})
    BY <2>1 DEF Ring
  <2>3. RingOK
    BY <2>1, <2>2 DEF RingOK, Behind
  <2>4. QED
    BY <2>1, <2>3 DEF PermitsOK
<1>4. SentOK
  <2>1. closing = FALSE /\ sent = 0 /\ received = <<>> /\ pc[WRITER] = "run"
    BY DEF Init, PipeInit
  <2>2. 0 \in 0 .. MaxBytes /\ <<>> \in Seq(Nat \cup {EOF})
    OBVIOUS
  <2>3. QED
    BY <2>1, <2>2 DEF SentOK
<1>5. QED
  BY <1>1, <1>2, <1>3, <1>4, <1>6, <1>7, <1>8 DEF PInv

(* A step of the shell, or of a command beside the pipe.                   *)
LEMMA ElsewherePipe ==
  ASSUME PInv, UNCHANGED <<ring, owners, exits, open, value, lost, closing, sent, received>>,
         SemTypeOK(Sem, Proc)',
         \A s \in Sem : inside'[s] \subseteq inside[s],
         \A p \in Sides : p_state'[p] = "TERMINATED" <=> p_state[p] = "TERMINATED",
         pc' \in [Proc -> Place], \A p \in Sides : pc'[p] = pc[p],
         pc'[SHELL] \in ShellPlace,
         pc'[SHELL] = "create_writer" <=> pc[SHELL] = "create_writer",
         pc'[SHELL] = "create_reader" => pc[SHELL] = "create_reader"
  PROVE  PInv'
<1> USE DEF PInv
<1>1. /\ pc'[WRITER] = pc[WRITER] /\ pc'[READER] = pc[READER]
      /\ p_state'[WRITER] = "TERMINATED" <=> p_state[WRITER] = "TERMINATED"
      /\ p_state'[READER] = "TERMINATED" <=> p_state[READER] = "TERMINATED"
      /\ UNCHANGED <<buff, readIdx, writeIdx, used, fd_open, writer_pid, reader_pid>>
  BY DEF Sides, ring, owners
<1>2. PlaceOK' /\ KernelOK'
  BY <1>1 DEF PlaceOK, KernelOK
<1>3. SleepOK'
  BY <1>1 DEF SleepOK, Sides
<1>4. NothingYet' /\ OwnersOK'
  BY <1>1 DEF NothingYet, OwnersOK, NotYet, InCall
<1>5. RingOK' /\ PermitsOK' /\ SentOK' /\ ExitOK'
  BY <1>1 DEF RingOK, PermitsOK, SentOK, Place1, Byte2, ExitOK, exits
<1>6. QED
  BY <1>2, <1>3, <1>4, <1>5

LEMMA SetStateFacts ==
  ASSUME SemTypeOK(Sem, Proc), NEW p \in Proc, NEW st \in {"READY", "BLOCKED", "TERMINATED"}, setState(p, st)
  PROVE  /\ SemTypeOK(Sem, Proc)' /\ UNCHANGED <<open, value, queue, inside, lost>>
         /\ p_state' = [p_state EXCEPT ![p] = st]
<1>1. p_state' = [p_state EXCEPT ![p] = st] /\ UNCHANGED <<open, value, queue, inside, lost>>
  BY DEF setState
<1>2. QED
  BY <1>1 DEF SemTypeOK

LEMMA Types ==
  ASSUME PInv
  PROVE  /\ SemTypeOK(Sem, Proc)
         /\ value \in [Sem -> Nat] /\ inside \in [Sem -> SUBSET Proc]
         /\ p_state \in [Proc -> {"READY", "BLOCKED", "TERMINATED"}]
         /\ pc \in [Proc -> Place]
         /\ SHELL \in Proc /\ WRITER \in Proc /\ READER \in Proc /\ JOB \in Proc
         /\ "mutex_fd" \in Sem /\ "read_fd" \in Sem /\ "write_fd" \in Sem
  BY Names DEF PInv, KernelOK, SemTypeOK, PlaceOK

LEMMA GoFacts ==
  ASSUME PInv, NEW p \in Proc, NEW from, NEW to \in Place, Go(p, from, to)
  PROVE  /\ pc[p] = from
         /\ p_state[p] = "READY" \/ (p \in Sides /\ exiting = p)
         /\ pc' = [pc EXCEPT ![p] = to] /\ pc' \in [Proc -> Place]
         /\ pc'[p] = to /\ \A q \in Proc \ {p} : pc'[q] = pc[q]
<1>1. exiting \in {NOBODY, WRITER, READER, WRECK}
  BY DEF PInv, ExitOK
<1>2. p_state[p] = "READY" \/ (p \in Sides /\ exiting = p)
  BY <1>1, Names DEF Go, HasProcessor, CanRun, Sides
<1>3. QED
  BY <1>2, Types DEF Go

LEMMA ShellPipe ==
  ASSUME PInv, Enter \/ Refuse \/ StartOne \/ WaitPid \/ Waited
  PROVE  PInv'
<1> USE Names
<1>1. PICK from \in {"prompt", "start", "wait", "waiting"}, to \in {"prompt", "start", "wait", "waiting"} :
        Go(SHELL, from, to)
  BY DEF Enter, Refuse, StartOne, WaitPid, Waited, AfterStart
<1>2. /\ pc[SHELL] = from /\ pc' \in [Proc -> Place]
      /\ pc'[SHELL] = to /\ \A q \in Proc \ {SHELL} : pc'[q] = pc[q]
  <2>1. to \in Place /\ SHELL \in Proc
    BY DEF Place
  <2>2. QED
    BY <1>1, <2>1, GoFacts
<1>3. UNCHANGED <<ring, owners, exits, open, value, inside, lost, closing, sent, received>>
  BY DEF Enter, Refuse, StartOne, WaitPid, Waited, Unpiped, setState, waitPid, sems
<1>4. \/ UNCHANGED sems
      \/ setState(JOB, "READY")
      \/ setState(SHELL, "BLOCKED")
  BY DEF Enter, Refuse, StartOne, WaitPid, Waited, Unpiped, waitPid
<1>5. SemTypeOK(Sem, Proc)' /\ \A p \in Sides : p_state'[p] = p_state[p]
  <2>1. CASE UNCHANGED sems
    BY <2>1, Types DEF sems, SemTypeOK
  <2>2. CASE setState(JOB, "READY")
    BY <2>2, Types, SetStateFacts DEF Sides
  <2>3. CASE setState(SHELL, "BLOCKED")
    BY <2>3, Types, SetStateFacts DEF Sides
  <2>4. QED
    BY <1>4, <2>1, <2>2, <2>3
<1>6. \A p \in Sides : pc'[p] = pc[p]
  BY <1>2 DEF Sides
<1>7. QED
  BY <1>2, <1>3, <1>5, <1>6, ElsewherePipe DEF ShellPlace

LEMMA JobPipe ==
  ASSUME PInv, JobEnds
  PROVE  PInv'
<1> USE Names
<1>1. /\ UNCHANGED <<ring, owners, exits, pc, open, value, queue, closing, sent, received>>
      /\ lost' = lost \ {JOB}
      /\ inside' = [s \in DOMAIN inside |-> inside[s] \ {JOB}]
  BY DEF JobEnds, kill
<1>2. PICK woken \in {{}, {SHELL}} :
        p_state' = [q \in DOMAIN p_state |-> IF q = JOB THEN "TERMINATED"
                                             ELSE IF q \in woken THEN "READY" ELSE p_state[q]]
  BY DEF JobEnds, kill
<1>3. SemTypeOK(Sem, Proc)'
  <2>1. p_state' \in [Proc -> {"READY", "BLOCKED", "TERMINATED"}]
    BY <1>2, Types
  <2>2. inside' \in [Sem -> SUBSET Proc]
    BY <1>1, Types
  <2>3. QED
    BY <1>1, <2>1, <2>2, Types DEF SemTypeOK
<1>4. \A s \in Sem : inside'[s] \subseteq inside[s]
  BY <1>1, Types
<1>5. \A p \in Sides : p_state'[p] = p_state[p]
  BY <1>2, Types DEF Sides
<1>6. lost' = lost
  BY <1>1 DEF PInv, KernelOK
<1>7. QED
  BY <1>1, <1>3, <1>4, <1>5, <1>6, ElsewherePipe, Types DEF PInv, PlaceOK

(* The descriptor is opened, with as many permits as places.               *)
LEMMA OpenPipe ==
  ASSUME PInv, OpenFd
  PROVE  PInv'
<1> USE Names DEF PInv
<1>1. /\ pc[SHELL] = "start" /\ pc' \in [Proc -> Place]
      /\ pc'[SHELL] = "create_writer" /\ pc'[WRITER] = pc[WRITER] /\ pc'[READER] = pc[READER]
  <2>1. Go(SHELL, "start", "create_writer") /\ "create_writer" \in Place
    BY DEF OpenFd, Place
  <2>2. WRITER \in Proc \ {SHELL} /\ READER \in Proc \ {SHELL} /\ SHELL \in Proc
    BY Types
  <2>3. QED
    BY GoFacts, <2>1, <2>2
<1>2. /\ open' = Sem /\ value' = [s \in Sem |-> Permits(s)]
      /\ fd_open' = TRUE /\ writer_pid' = SHELL
      /\ UNCHANGED <<queue, inside, lost, p_state, ring, reader_pid, exits, closing, sent, received>>
      /\ NotYet
  BY DEF OpenFd, openFd, NotYet
<1>3. NotYet'
  BY <1>1, <1>2 DEF NotYet
<1>4. PlaceOK' /\ SleepOK' /\ SentOK' /\ RingOK'
  BY <1>1, <1>2 DEF PlaceOK, ShellPlace, SleepOK, Sides, SentOK, RingOK, ring
<1>5. KernelOK'
  <2>1. value' \in [Sem -> Nat]
    BY <1>2, Bounds DEF Permits
  <2>2. QED
    BY <1>2, <2>1 DEF KernelOK, SemTypeOK
<1>6. NothingYet'
  BY <1>1, <1>2, <1>3 DEF NothingYet, ring
<1>7. OwnersOK' /\ ExitOK'
  BY <1>1, <1>2, <1>3 DEF OwnersOK, NothingYet, InCall, NotYet, ExitOK, exits
<1>8. PermitsOK'
  <2>1. value'["write_fd"] = BUFF_SIZE /\ value'["read_fd"] = 0
    BY <1>2 DEF Permits
  <2>2. used' = 0 /\ Place1' = 0 /\ Byte2' = 0
    BY <1>1, <1>2 DEF NothingYet, ring, Place1, Byte2, NotYet
  <2>3. QED
    BY <2>1, <2>2, Bounds DEF PermitsOK
<1>9. QED
  BY <1>4, <1>5, <1>6, <1>7, <1>8

(* p1 becomes its owner.                                                   *)
LEMMA WriterCreated ==
  ASSUME PInv, CreateWriter
  PROVE  PInv'
<1> USE Names DEF PInv
<1>1. /\ pc[SHELL] = "create_writer" /\ pc' \in [Proc -> Place]
      /\ pc'[SHELL] = "create_reader" /\ pc'[WRITER] = pc[WRITER] /\ pc'[READER] = pc[READER]
  <2>1. Go(SHELL, "create_writer", "create_reader") /\ "create_reader" \in Place
    BY DEF CreateWriter, Place
  <2>2. WRITER \in Proc \ {SHELL} /\ READER \in Proc \ {SHELL} /\ SHELL \in Proc
    BY Types
  <2>3. QED
    BY GoFacts, <2>1, <2>2
<1>2. /\ SemTypeOK(Sem, Proc)' /\ UNCHANGED <<open, value, queue, inside, lost>>
      /\ p_state' = [p_state EXCEPT ![WRITER] = "READY"]
      /\ writer_pid' = WRITER
      /\ UNCHANGED <<ring, fd_open, reader_pid, exits, closing, sent, received>>
  BY SetStateFacts, Types DEF CreateWriter
<1>3. NotYet /\ fd_open /\ ~NotYet' /\ pc[WRITER] = "run"
  <2>1. NotYet /\ fd_open
    BY <1>1 DEF NothingYet
  <2>2. QED
    BY <1>2, <2>1, Types DEF NotYet
<1>4. PlaceOK' /\ KernelOK' /\ SleepOK' /\ RingOK'
  <2>1. PlaceOK'
    BY <1>1 DEF PlaceOK, ShellPlace
  <2>2. KernelOK'
    BY <1>2 DEF KernelOK
  <2>3. SleepOK'
    BY <1>1, <1>2 DEF SleepOK, Sides
  <2>4. RingOK'
    BY <1>2 DEF RingOK, ring
  <2>5. QED
    BY <2>1, <2>2, <2>3, <2>4
<1>5. NothingYet'
  BY <1>1, <1>3 DEF NothingYet
<1>6. OwnersOK' /\ ExitOK'
  BY <1>1, <1>2, <1>3 DEF OwnersOK, NothingYet, InCall, ExitOK, exits
<1>7. PermitsOK' /\ SentOK'
  BY <1>1, <1>2 DEF PermitsOK, SentOK, Place1, Byte2, ring
<1>8. QED
  BY <1>4, <1>5, <1>6, <1>7

LEMMA ReaderCreated ==
  ASSUME PInv, StartReader
  PROVE  PInv'
<1> USE Names DEF PInv
<1>1. /\ pc[SHELL] = "create_reader" /\ pc' \in [Proc -> Place]
      /\ pc'[SHELL] \in {"wait", "prompt"} /\ pc'[WRITER] = pc[WRITER] /\ pc'[READER] = pc[READER]
  <2>1. Go(SHELL, "create_reader", AfterStart) /\ AfterStart \in Place
    BY DEF StartReader, AfterStart, Place
  <2>2. WRITER \in Proc \ {SHELL} /\ READER \in Proc \ {SHELL} /\ SHELL \in Proc
    BY Types
  <2>3. AfterStart \in {"wait", "prompt"}
    BY DEF AfterStart
  <2>4. QED
    BY GoFacts, <2>1, <2>2, <2>3
<1>2. /\ SemTypeOK(Sem, Proc)' /\ UNCHANGED <<open, value, queue, inside, lost>>
      /\ p_state' = [p_state EXCEPT ![READER] = "READY"]
      /\ reader_pid' = IF fd_open THEN READER ELSE reader_pid
      /\ UNCHANGED <<ring, fd_open, writer_pid, exits, closing, sent, received>>
  BY SetStateFacts, Types DEF StartReader, createReader
<1>3. ~NotYet /\ ~NotYet'
  <2>1. ~NotYet
    BY <1>1 DEF NothingYet
  <2>2. QED
    BY <1>1, <1>2, <2>1, Types DEF NotYet
<1>4. PlaceOK' /\ KernelOK' /\ SleepOK' /\ RingOK'
  <2>1. PlaceOK'
    BY <1>1 DEF PlaceOK, ShellPlace
  <2>2. KernelOK'
    BY <1>2 DEF KernelOK
  <2>3. SleepOK'
    BY <1>1, <1>2 DEF SleepOK, Sides
  <2>4. RingOK'
    BY <1>2 DEF RingOK, ring
  <2>5. QED
    BY <2>1, <2>2, <2>3, <2>4
<1>5. NothingYet'
  BY <1>1, <1>3 DEF NothingYet
<1>6. OwnersOK' /\ ExitOK'
  BY <1>1, <1>2, <1>3 DEF OwnersOK, InCall, ExitOK, exits
<1>7. PermitsOK' /\ SentOK'
  BY <1>1, <1>2 DEF PermitsOK, SentOK, Place1, Byte2, ring
<1>8. QED
  BY <1>4, <1>5, <1>6, <1>7

-----------------------------------------------------------------------------
(* The two sides.                                                          *)

LEMMA Alive ==
  ASSUME PInv, NEW p \in Sides, p_state[p] = "READY" \/ exiting = p
  PROVE  ~NotYet
<1>1. exiting = READER => pc[READER] # "run"
  BY DEF PInv, ExitOK, Leaving
<1>2. QED
  BY <1>1, Names DEF PInv, NothingYet, NotYet, Sides, ExitOK

LEMMA NothingNow ==
  ASSUME PInv, ~NotYet, NotYet' => p_state[WRITER] = "TERMINATED" /\ pc[WRITER] = "run",
         pc'[SHELL] = pc[SHELL]
  PROVE  NothingYet' /\ ~NotYet'
  BY DEF PInv, NothingYet, NotYet

(* A side goes from one place to another.                                  *)
LEMMA SideGoes ==
  ASSUME PInv, NEW p \in Sides, NEW from, NEW to \in Place, Go(p, from, to),
         p = WRITER => to \in WriterPlace, p = READER => to \in ReaderPlace
  PROVE  /\ PlaceOK' /\ ~NotYet
         /\ pc[p] = from /\ pc'[p] = to /\ \A q \in Proc \ {p} : pc'[q] = pc[q]
<1>1. p \in Proc
  BY Names DEF Sides
<1>2. /\ pc[p] = from
      /\ p_state[p] = "READY" \/ exiting = p
      /\ pc' \in [Proc -> Place]
      /\ pc'[p] = to /\ \A q \in Proc \ {p} : pc'[q] = pc[q]
  BY <1>1, GoFacts
<1>3. PlaceOK'
  BY <1>2, Names DEF PInv, PlaceOK, Sides
<1>4. QED
  BY <1>2, <1>3, Alive

(* p1 begins to write a byte, p2 to read one.                              *)
LEMMA CallBegins ==
  ASSUME PInv, Write \/ Read
  PROVE  PInv'
<1> USE Names DEF PInv
<1>1. UNCHANGED <<sems, ring, owners, waits, exits, closing, sent, received>>
  BY DEF Write, Read
<1>2. KernelOK' /\ RingOK'
  BY <1>1 DEF KernelOK, SemTypeOK, RingOK, sems, ring, owners
<1>3. CASE Write
  <2>1. /\ PlaceOK' /\ ~NotYet /\ pc[WRITER] = "run" /\ pc'[WRITER] = "wait_write"
        /\ pc'[SHELL] = pc[SHELL] /\ pc'[READER] = pc[READER]
    BY <1>3, SideGoes DEF Write, Sides, Place, WriterPlace
  <2>2. NothingYet' /\ ~NotYet'
    BY <2>1, NothingNow DEF NotYet
  <2>3. SleepOK'
    BY <1>1, <2>1 DEF SleepOK, Sides, sems, Asking, Sem
  <2>4. OwnersOK' /\ ExitOK'
    BY <1>1, <2>1 DEF OwnersOK, owners, InCall, ExitOK, exits
  <2>5. PermitsOK' /\ SentOK'
    BY <1>1, <1>3, <2>1 DEF Write, PermitsOK, SentOK, Place1, Byte2, owners, ring, sems
  <2>6. QED
    BY <1>2, <2>1, <2>2, <2>3, <2>4, <2>5
<1>4. CASE Read
  <2>1. /\ PlaceOK' /\ ~NotYet /\ pc[READER] = "run" /\ pc'[READER] = "wait_read"
        /\ pc'[SHELL] = pc[SHELL] /\ pc'[WRITER] = pc[WRITER]
    BY <1>4, SideGoes DEF Read, Sides, Place, ReaderPlace
  <2>2. NothingYet' /\ ~NotYet'
    BY <1>1, <2>1, NothingNow DEF NotYet, sems
  <2>3. SleepOK'
    BY <1>1, <2>1 DEF SleepOK, Sides, sems, Asking, Sem
  <2>4. OwnersOK' /\ ExitOK'
    BY <1>1, <1>4, <2>1, <2>2 DEF Read, OwnersOK, owners, InCall, ExitOK, exits, Leaving
  <2>5. PermitsOK' /\ SentOK'
    BY <1>1, <2>1 DEF PermitsOK, SentOK, Place1, Byte2, owners, ring, sems
  <2>6. QED
    BY <1>2, <2>1, <2>2, <2>3, <2>4, <2>5
<1>5. QED
  BY <1>3, <1>4

(* One leaves the list and is marked.                                      *)
LEMMA SideDies ==
  ASSUME PInv, WriterDies \/ ReaderDies \/ GivesUp
  PROVE  PInv'
<1> USE Names DEF PInv
<1>1. PICK p \in Sides : /\ Die(p)
                         /\ p = WRITER => closing' = TRUE
                         /\ p = READER => closing' = closing
  BY DEF WriterDies, ReaderDies, GivesUp, Sides
<1>2. /\ PlaceOK' /\ ~NotYet /\ pc[p] = "run" /\ pc'[p] = "tell"
      /\ \A q \in Proc \ {p} : pc'[q] = pc[q]
  BY <1>1, SideGoes DEF Die, Place, WriterPlace, ReaderPlace
<1>3. /\ SemTypeOK(Sem, Proc)' /\ UNCHANGED <<open, value, inside, lost, ring, owners, sent, received>>
      /\ p_state' = [p_state EXCEPT ![p] = "TERMINATED"]
      /\ exiting' = p /\ relisted' \subseteq Proc /\ dropped' \in BOOLEAN
  <2>1. p \in Proc /\ setState(p, "TERMINATED")
    BY <1>1 DEF Die, Sides
  <2>2. QED
    BY <1>1, <2>1, SetStateFacts, Types DEF Die, ExitOK, Sides
<1>4. pc'[SHELL] = pc[SHELL]
  BY <1>2 DEF Sides
<1>5. NothingYet' /\ ~NotYet'
  <2>1. NotYet' => p_state[WRITER] = "TERMINATED" /\ pc[WRITER] = "run"
    BY <1>2, <1>3, Types DEF NotYet, Sides
  <2>2. QED
    BY <1>2, <1>4, <2>1, NothingNow
<1>6. KernelOK' /\ RingOK'
  BY <1>3 DEF KernelOK, RingOK, ring, owners
<1>7. SleepOK'
  <2>1. SUFFICES ASSUME NEW s \in Sem, NEW q \in inside[s]
                 PROVE  q \in Sides /\ pc'[q] = Asking(s)
    BY <1>3 DEF SleepOK
  <2>2. q \in Sides /\ pc[q] = Asking(s)
    BY DEF SleepOK
  <2>3. q # p
    BY <1>2, <2>2 DEF Asking
  <2>4. QED
    BY <1>2, <2>2, <2>3 DEF Sides
<1>8. CASE p = WRITER
  <2>1. pc[WRITER] = "run" /\ pc'[WRITER] = "tell" /\ pc'[READER] = pc[READER] /\ closing' = TRUE
    BY <1>1, <1>2, <1>8
  <2>2. OwnersOK' /\ ExitOK'
    BY <1>2, <1>3, <1>5, <1>8, <2>1 DEF OwnersOK, InCall, owners, ExitOK
  <2>3. PermitsOK' /\ SentOK'
    BY <1>3, <2>1 DEF PermitsOK, SentOK, Place1, Byte2, owners, ring
  <2>4. QED
    BY <1>2, <1>5, <1>6, <1>7, <2>2, <2>3
<1>9. CASE p = READER
  <2>1. pc[READER] = "run" /\ pc'[READER] = "tell" /\ pc'[WRITER] = pc[WRITER] /\ closing' = closing
    BY <1>1, <1>2, <1>9
  <2>2. OwnersOK' /\ ExitOK'
    BY <1>2, <1>3, <1>5, <1>9, <2>1 DEF OwnersOK, InCall, owners, ExitOK, Leaving
  <2>3. PermitsOK' /\ SentOK'
    BY <1>3, <2>1 DEF PermitsOK, SentOK, Place1, Byte2, owners, ring
  <2>4. QED
    BY <1>2, <1>5, <1>6, <1>7, <2>2, <2>3
<1>10. QED
  BY <1>8, <1>9 DEF Sides

(* The parent is told, and gets the keyboard.                              *)
LEMMA SideLeaves ==
  ASSUME PInv, NEW p \in Sides,
         TellParent(p) \/ HandKeyboard(p, IF p = WRITER THEN "wait_write" ELSE "close")
  PROVE  PInv'
<1> USE Names DEF PInv
<1>1. PICK from \in {"tell", "hand"}, to \in {"hand", "wait_write", "close"} :
        Go(p, from, to) /\ (p = WRITER => to # "close") /\ (p = READER => to # "wait_write")
  BY DEF TellParent, HandKeyboard, Sides
<1>2. /\ PlaceOK' /\ ~NotYet /\ pc[p] = from /\ pc'[p] = to
      /\ \A q \in Proc \ {p} : pc'[q] = pc[q]
  BY <1>1, SideGoes DEF Place, WriterPlace, ReaderPlace, Sides
<1>3. /\ SemTypeOK(Sem, Proc)'
      /\ UNCHANGED <<open, value, inside, lost, ring, owners, exits, closing, sent, received>>
      /\ p_state'[WRITER] = p_state[WRITER]
  <2>1. UNCHANGED <<ring, owners, exits, closing, sent, received>> /\ (setState(SHELL, "READY") \/ UNCHANGED sems)
    BY DEF TellParent, HandKeyboard
  <2>2. CASE setState(SHELL, "READY")
    BY <2>1, <2>2, SetStateFacts, Types
  <2>3. CASE UNCHANGED sems
    BY <2>1, <2>3, Types DEF sems, SemTypeOK
  <2>4. QED
    BY <2>1, <2>2, <2>3
<1>4. NothingYet' /\ ~NotYet'
  <2>1. pc'[SHELL] = pc[SHELL] /\ (pc'[WRITER] = "run" => pc[WRITER] = "run")
    BY <1>2 DEF Sides
  <2>2. NotYet' => p_state[WRITER] = "TERMINATED" /\ pc[WRITER] = "run"
    BY <1>3, <2>1 DEF NotYet
  <2>3. QED
    BY <1>2, <2>1, <2>2, NothingNow
<1>5. KernelOK' /\ RingOK'
  BY <1>3 DEF KernelOK, RingOK, ring, owners
<1>6. SleepOK'
  <2>1. SUFFICES ASSUME NEW s \in Sem, NEW q \in inside[s]
                 PROVE  q \in Sides /\ pc'[q] = Asking(s)
    BY <1>3 DEF SleepOK
  <2>2. q \in Sides /\ pc[q] = Asking(s)
    BY DEF SleepOK
  <2>3. q # p
    BY <1>2, <2>2 DEF Asking
  <2>4. QED
    BY <1>2, <2>2, <2>3 DEF Sides
<1>7. CASE p = WRITER
  <2>1. /\ pc[WRITER] \in {"tell", "hand"} /\ pc'[WRITER] \in {"hand", "wait_write"}
        /\ pc'[READER] = pc[READER] /\ closing
    BY <1>1, <1>2, <1>7 DEF OwnersOK
  <2>2. OwnersOK' /\ ExitOK'
    BY <1>2, <1>3, <1>4, <2>1 DEF OwnersOK, InCall, owners, ExitOK, exits
  <2>3. PermitsOK' /\ SentOK'
    BY <1>3, <2>1 DEF PermitsOK, SentOK, Place1, Byte2, owners, ring
  <2>4. QED
    BY <1>2, <1>4, <1>5, <1>6, <2>2, <2>3
<1>8. CASE p = READER
  <2>1. /\ pc[READER] \in {"tell", "hand"} /\ pc'[READER] \in {"hand", "close"}
        /\ pc'[WRITER] = pc[WRITER]
    BY <1>1, <1>2, <1>8
  <2>2. OwnersOK' /\ ExitOK'
    BY <1>2, <1>3, <1>4, <2>1 DEF OwnersOK, InCall, owners, ExitOK, exits, Leaving
  <2>3. PermitsOK' /\ SentOK'
    BY <1>3, <2>1 DEF PermitsOK, SentOK, Place1, Byte2, owners, ring
  <2>4. QED
    BY <1>2, <1>4, <1>5, <1>6, <2>2, <2>3
<1>9. QED
  BY <1>7, <1>8 DEF Sides

(* A tick takes the processor from who exits.                              *)
LEMMA TickPipe ==
  ASSUME PInv, Tick
  PROVE  PInv'
<1> USE Names DEF PInv
<1>1. /\ exiting \in Sides /\ exiting' = NOBODY
      /\ UNCHANGED <<ring, owners, pc, relisted, dropped, closing, sent, received>>
      /\ setState(exiting, "READY") \/ UNCHANGED sems
  BY DEF Tick, Sides
<1>2. exiting \in Proc /\ ~NotYet
  BY <1>1, Alive DEF Sides
<1>3. /\ SemTypeOK(Sem, Proc)' /\ UNCHANGED <<open, value, inside, lost>>
      /\ p_state' = p_state \/ p_state' = [p_state EXCEPT ![exiting] = "READY"]
  <2>1. CASE setState(exiting, "READY")
    BY <1>2, <2>1, SetStateFacts, Types
  <2>2. CASE UNCHANGED sems
    BY <2>2, Types DEF sems, SemTypeOK
  <2>3. QED
    BY <1>1, <2>1, <2>2
<1>4. NothingYet' /\ ~NotYet'
  <2>1. NotYet' => p_state[WRITER] = "TERMINATED" /\ pc[WRITER] = "run"
    BY <1>1, <1>2, <1>3, Types DEF NotYet, Sides
  <2>2. QED
    BY <1>1, <1>2, <2>1, NothingNow
<1>5. PlaceOK' /\ KernelOK' /\ RingOK' /\ SleepOK'
  BY <1>1, <1>3 DEF PlaceOK, KernelOK, RingOK, SleepOK, ring, owners
<1>6. OwnersOK' /\ ExitOK'
  BY <1>1, <1>2, <1>4 DEF OwnersOK, InCall, owners, ExitOK
<1>7. PermitsOK' /\ SentOK'
  BY <1>1, <1>3 DEF PermitsOK, SentOK, Place1, Byte2, owners, ring
<1>8. QED
  BY <1>4, <1>5, <1>6, <1>7

(* Who is in a call finds the descriptor.                                  *)
LEMMA CallFinds ==
  ASSUME PInv, ~NotYet, NEW p \in Sides, InCall(p)
  PROVE  fd_open /\ open = Sem
<1>1. CASE p = WRITER
  <2>1. pc[WRITER] \notin {"exit", "dead"}
    BY <1>1 DEF InCall
  <2>2. QED
    BY <2>1 DEF PInv, OwnersOK, KernelOK
<1>2. CASE p = READER
  <2>1. InCall(READER)
    BY <1>2
  <2>2. QED
    BY <2>1 DEF PInv, OwnersOK, KernelOK
<1>3. QED
  BY <1>1, <1>2 DEF Sides

(* A turn of a semWait().                                                  *)
LEMMA WaitPipe ==
  ASSUME PInv, WaitToWrite \/ WaitToRead
  PROVE  PInv'
<1> USE Names DEF PInv
<1>1. UNCHANGED <<ring, owners, waits, closing, sent, received>>
  BY DEF WaitToWrite, WaitToRead
<1>2. PICK p \in Sides, s \in Sem, to \in {"wait_mutex", "put", "get"} :
        /\ Wait(p, s, Asking(s), to)
        /\ \/ p = WRITER /\ s = "write_fd" /\ to = "wait_mutex"
           \/ p = WRITER /\ s = "mutex_fd" /\ to = "put"
           \/ p = READER /\ s = "read_fd" /\ to = "wait_mutex"
           \/ p = READER /\ s = "mutex_fd" /\ to = "get"
  BY DEF WaitToWrite, WaitToRead, Sides, Asking
<1> DEFINE next == IF Returns(s, p) THEN to ELSE Asking(s)
<1>3. /\ PlaceOK' /\ ~NotYet /\ pc[p] = Asking(s) /\ pc'[p] = next
      /\ \A q \in Proc \ {p} : pc'[q] = pc[q]
  <2>1. next \in Place /\ (p = WRITER => next \in WriterPlace) /\ (p = READER => next \in ReaderPlace)
    BY <1>2 DEF Asking, Place, WriterPlace, ReaderPlace
  <2>2. Go(p, Asking(s), next)
    BY <1>2 DEF Wait
  <2> HIDE DEF next
  <2>3. QED
    BY <2>1, <2>2, SideGoes
<1>4. InCall(p) /\ s \in open /\ fd_open /\ p \in Proc
  <2>1. InCall(p)
    BY <1>3 DEF InCall, Asking
  <2>2. QED
    BY <1>3, <2>1, CallFinds DEF Sides
<1>5. /\ SemTypeOK(Sem, Proc)'
      /\ UNCHANGED <<open, lost>>
      /\ \A q \in Proc : p_state'[q] = "TERMINATED" => p_state[q] = "TERMINATED"
      /\ Returns(s, p) <=> value[s] > 0
      /\ Returns(s, p) => /\ value' = [value EXCEPT ![s] = @ - 1]
                          /\ inside' = [inside EXCEPT ![s] = @ \ {p}]
                          /\ p_state' = p_state
      /\ ~Returns(s, p) => value' = value /\ inside' = [inside EXCEPT ![s] = @ \cup {p}]
  <2>1. semWait(s, p)
    BY <1>2 DEF Wait
  <2>2. QED
    BY <1>4, <2>1, Types, WaitFacts
<1>6. KernelOK' /\ RingOK'
  BY <1>1, <1>5 DEF KernelOK, RingOK, ring, owners
<1>7. NothingYet' /\ ~NotYet'
  <2>1. pc'[SHELL] = pc[SHELL]
    BY <1>3 DEF Sides
  <2>2. NotYet' => p_state[WRITER] = "TERMINATED" /\ pc[WRITER] = "run"
    <3>1. NotYet' => p_state[WRITER] = "TERMINATED"
      BY <1>5 DEF NotYet
    <3>2. pc'[WRITER] = "run" => pc[WRITER] = "run"
      BY <1>2, <1>3 DEF Sides, Asking
    <3>3. QED
      BY <3>1, <3>2 DEF NotYet
  <2>3. QED
    BY <1>3, <2>1, <2>2, NothingNow
<1>8. SleepOK'
  <2>1. SUFFICES ASSUME NEW r \in Sem, NEW q \in inside'[r]
                 PROVE  q \in Sides /\ pc'[q] = Asking(r)
    BY DEF SleepOK
  <2>2. CASE q # p
    <3>1. q \in inside[r]
      BY <1>4, <1>5, <2>2, Types
    <3>2. q \in Sides /\ pc[q] = Asking(r)
      BY <3>1 DEF SleepOK
    <3>3. QED
      BY <1>3, <2>2, <3>2 DEF Sides
  <2>3. CASE q = p
    <3>1. ~(r # s /\ p \in inside[r])
      <4>1. Asking(r) = Asking(s) => r = s
        BY DEF Asking
      <4>2. QED
        BY <1>3, <4>1 DEF SleepOK
    <3>2. r = s /\ ~Returns(s, p)
      BY <1>4, <1>5, <2>3, <3>1, Types
    <3>3. QED
      BY <1>3, <2>3, <3>2
  <2>4. QED
    BY <2>2, <2>3
<1>9. OwnersOK'
  BY <1>1, <1>2, <1>3, <1>7 DEF OwnersOK, InCall, owners, Asking, Sides
<1>10. PermitsOK'
  <2>1. value[s] \in Nat
    BY Types
  <2>2. CASE p = WRITER
    BY <1>1, <1>2, <1>3, <1>4, <1>5, <2>1, <2>2, Types DEF PermitsOK, Place1, Byte2, ring, owners, Asking
  <2>3. CASE p = READER
    BY <1>1, <1>2, <1>3, <1>4, <1>5, <2>1, <2>3, Types DEF PermitsOK, Place1, Byte2, ring, owners, Asking
  <2>4. QED
    BY <2>2, <2>3 DEF Sides
<1>11. SentOK'
  <2>1. pc'[WRITER] \in {"wait_write", "wait_mutex", "put"} => pc[WRITER] \in {"wait_write", "wait_mutex", "put"}
    BY <1>2, <1>3 DEF Asking, Sides
  <2>2. QED
    BY <1>1, <2>1 DEF SentOK
<1>13. ExitOK'
  <2>1. /\ exiting' = exiting \/ exiting' = NOBODY
        /\ relisted' \subseteq Proc /\ dropped' \in BOOLEAN
    BY <1>2, <1>4 DEF Wait, SleepInExit, exits, ExitOK
  <2>2. exiting # READER \/ p # READER
    BY <1>3 DEF ExitOK, Leaving, Asking
  <2>3. pc'[WRITER] = "run" => pc[WRITER] = "run"
    BY <1>2, <1>3 DEF Sides, Asking
  <2>4. pc'[READER] = pc[READER] \/ p = READER
    BY <1>3 DEF Sides
  <2>5. QED
    BY <1>1, <2>1, <2>2, <2>3, <2>4 DEF ExitOK
<1>12. QED
  BY <1>3, <1>6, <1>7, <1>8, <1>9, <1>10, <1>11, <1>13

(* A byte goes in, a byte comes out.                                       *)
LEMMA RingPlace ==
  ASSUME NEW r \in 0 .. BUFF_SIZE - 1, NEW n \in 0 .. BUFF_SIZE
  PROVE  /\ (r + n) % BUFF_SIZE = Behind(BUFF_SIZE, r, n)
         /\ Behind(BUFF_SIZE, r, n) \in 0 .. BUFF_SIZE - 1
  BY Bounds, BehindIs

LEMMA NextIs ==
  ASSUME NEW r \in 0 .. BUFF_SIZE - 1
  PROVE  NextIdx(r) = Behind(BUFF_SIZE, r, 1) /\ NextIdx(r) \in 0 .. BUFF_SIZE - 1
  BY Bounds, RingPlace DEF NextIdx

LEMMA BehindBehind ==
  ASSUME NEW r \in 0 .. BUFF_SIZE - 1, NEW n \in 0 .. BUFF_SIZE - 1
  PROVE  /\ Behind(BUFF_SIZE, Behind(BUFF_SIZE, r, n), 1) = Behind(BUFF_SIZE, r, n + 1)
         /\ Behind(BUFF_SIZE, Behind(BUFF_SIZE, r, 1), n) = Behind(BUFF_SIZE, r, n + 1)
  BY Bounds DEF Behind

(* A post of a side that is in a call.                                     *)
LEMMA PostPipe ==
  ASSUME PInv, NEW p \in Sides, ~NotYet, InCall(p), NEW s \in Sem, semPost(s)
  PROVE  /\ fd_open /\ SemTypeOK(Sem, Proc)' /\ UNCHANGED <<open, inside, lost>>
         /\ value' = [value EXCEPT ![s] = @ + 1]
         /\ NotYet' => p_state[WRITER] = "TERMINATED"
<1>1. fd_open /\ s \in open
  BY CallFinds
<1>2. /\ SemTypeOK(Sem, Proc)'
      /\ value' = [value EXCEPT ![s] = @ + 1]
      /\ UNCHANGED <<open, inside, lost>>
      /\ \A q \in Proc : p_state'[q] = "TERMINATED" <=> p_state[q] = "TERMINATED"
  BY <1>1, Types, PostFacts
<1>3. QED
  BY <1>1, <1>2, Types DEF NotYet

(* The sleepers are others than who is not asking.                         *)
LEMMA SleepersStay ==
  ASSUME PInv, NEW p \in Sides, inside' = inside, \A q \in Proc \ {p} : pc'[q] = pc[q],
         pc[p] \notin {"wait_write", "wait_read", "wait_mutex"}
  PROVE  SleepOK'
<1>1. SUFFICES ASSUME NEW s \in Sem, NEW q \in inside[s]
               PROVE  q \in Sides /\ pc'[q] = Asking(s)
  BY DEF SleepOK
<1>2. q \in Sides /\ pc[q] = Asking(s)
  BY DEF PInv, SleepOK
<1>3. q # p
  BY <1>2, Names DEF Asking
<1>4. QED
  BY <1>2, <1>3, Names DEF Sides

LEMMA PutPipe ==
  ASSUME PInv, Put
  PROVE  PInv' /\ used < BUFF_SIZE /\ fd_open
<1> USE Names DEF PInv
<1>1. /\ PlaceOK' /\ ~NotYet /\ pc[WRITER] = "put" /\ pc'[WRITER] = "post_mutex"
      /\ \A q \in Proc \ {WRITER} : pc'[q] = pc[q]
      /\ pc'[SHELL] = pc[SHELL] /\ pc'[READER] = pc[READER]
  BY SideGoes DEF Put, Sides, Place, WriterPlace
<1>2. /\ buff' = [buff EXCEPT ![writeIdx] = Byte]
      /\ writeIdx' = NextIdx(writeIdx)
      /\ used' = used + 1
      /\ sent' = IF closing THEN sent ELSE sent + 1
      /\ UNCHANGED <<readIdx, owners, waits, exits, closing, received>>
  BY DEF Put
<1>3. /\ fd_open /\ SemTypeOK(Sem, Proc)' /\ UNCHANGED <<open, inside, lost>>
      /\ value' = [value EXCEPT !["read_fd"] = @ + 1]
      /\ NotYet' => p_state[WRITER] = "TERMINATED"
  <2>1. InCall(WRITER) /\ semPost("read_fd") /\ WRITER \in Sides
    BY <1>1 DEF InCall, Put, Sides
  <2>2. QED
    BY <1>1, <2>1, PostPipe
<1>4. NothingYet' /\ ~NotYet'
  BY <1>1, <1>3, NothingNow DEF NotYet
<1>5. KernelOK'
  BY <1>2, <1>3 DEF KernelOK, owners
<1>6. SleepOK'
  BY <1>1, <1>3, SleepersStay DEF Sides
<1>7. OwnersOK' /\ ExitOK'
  BY <1>1, <1>2, <1>3, <1>4 DEF OwnersOK, owners, InCall, ExitOK, exits, Leaving
<1>8. used < BUFF_SIZE
  BY <1>1, <1>3, Bounds, Types DEF PermitsOK, Place1, RingOK
<1>9. PermitsOK'
  BY <1>1, <1>2, <1>3, Types DEF PermitsOK, Place1, Byte2, owners
<1>10. RingOK'
  <2>1. Byte \in Nat \cup {EOF}
    BY Bounds DEF Byte, SentOK
  <2>2. buff' \in Ring(BUFF_SIZE, Nat \cup {EOF})
    BY <1>2, <2>1 DEF RingOK, Ring
  <2>3. writeIdx' \in 0 .. BUFF_SIZE - 1 /\ writeIdx' = Behind(BUFF_SIZE, writeIdx, 1)
    BY <1>2, NextIs DEF RingOK
  <2>4. used \in 0 .. BUFF_SIZE - 1
    BY <1>8, Bounds DEF RingOK
  <2>5. writeIdx' = Behind(BUFF_SIZE, readIdx, used + 1)
    BY <2>3, <2>4, BehindBehind DEF RingOK
  <2>6. QED
    BY <1>2, <2>2, <2>3, <2>4, <2>5, Bounds DEF RingOK
<1>11. SentOK'
  BY <1>1, <1>2, Bounds DEF SentOK
<1>12. QED
  BY <1>1, <1>3, <1>4, <1>5, <1>6, <1>7, <1>8, <1>9, <1>10, <1>11

LEMMA GetPipe ==
  ASSUME PInv, Get
  PROVE  PInv' /\ used > 0 /\ fd_open
<1> USE Names DEF PInv
<1>1. /\ PlaceOK' /\ ~NotYet /\ pc[READER] = "get" /\ pc'[READER] = "post_mutex"
      /\ \A q \in Proc \ {READER} : pc'[q] = pc[q]
      /\ pc'[SHELL] = pc[SHELL] /\ pc'[WRITER] = pc[WRITER]
  BY SideGoes DEF Get, Sides, Place, ReaderPlace
<1>2. /\ received' = Append(received, buff[readIdx])
      /\ readIdx' = NextIdx(readIdx)
      /\ used' = used - 1
      /\ UNCHANGED <<buff, writeIdx, owners, waits, exits, closing, sent>>
  BY DEF Get
<1>3. /\ fd_open /\ SemTypeOK(Sem, Proc)' /\ UNCHANGED <<open, inside, lost>>
      /\ value' = [value EXCEPT !["write_fd"] = @ + 1]
      /\ NotYet' => p_state[WRITER] = "TERMINATED"
  <2>1. InCall(READER) /\ semPost("write_fd") /\ READER \in Sides
    BY <1>1 DEF InCall, Get, Sides
  <2>2. QED
    BY <1>1, <2>1, PostPipe
<1>4. NothingYet' /\ ~NotYet'
  BY <1>1, <1>3, NothingNow DEF NotYet
<1>5. KernelOK'
  BY <1>2, <1>3 DEF KernelOK, owners
<1>6. SleepOK'
  BY <1>1, <1>3, SleepersStay DEF Sides
<1>7. OwnersOK' /\ ExitOK'
  BY <1>1, <1>2, <1>3, <1>4 DEF OwnersOK, owners, InCall, ExitOK, exits, Leaving
<1>8. used > 0
  BY <1>1, <1>3, Bounds, Types DEF PermitsOK, Byte2, RingOK
<1>9. PermitsOK'
  BY <1>1, <1>2, <1>3, Types, SMTT(30) DEF PermitsOK, Place1, Byte2, owners
<1>10. RingOK'
  <2>1. readIdx' \in 0 .. BUFF_SIZE - 1 /\ readIdx' = Behind(BUFF_SIZE, readIdx, 1)
    BY <1>2, NextIs DEF RingOK
  <2>2. used - 1 \in 0 .. BUFF_SIZE - 1 /\ (used - 1) + 1 = used
    BY <1>8, Bounds DEF RingOK
  <2>3. writeIdx = Behind(BUFF_SIZE, readIdx', used - 1)
    BY <2>1, <2>2, BehindBehind DEF RingOK
  <2>4. QED
    BY <1>2, <2>1, <2>2, <2>3, Bounds DEF RingOK
<1>11. SentOK'
  <2>1. buff[readIdx] \in Nat \cup {EOF}
    BY DEF RingOK, Ring
  <2>2. received' \in Seq(Nat \cup {EOF})
    BY <1>2, <2>1 DEF SentOK
  <2>3. QED
    BY <1>1, <1>2, <2>2 DEF SentOK
<1>12. QED
  BY <1>1, <1>3, <1>4, <1>5, <1>6, <1>7, <1>8, <1>9, <1>10, <1>11

(* The last post of a call.                                                *)
LEMMA CallEnds ==
  ASSUME PInv, Written \/ HasRead
  PROVE  PInv'
<1> USE Names DEF PInv
<1>1. PICK p \in Sides, to \in {"run", "close"} :
        /\ Go(p, "post_mutex", to) /\ semPost("mutex_fd")
        /\ p = READER => to = "run"
        /\ p = WRITER => to = IF closing THEN "close" ELSE "run"
  BY DEF Written, HasRead, Sides
<1>2. UNCHANGED <<ring, owners, waits, exits, closing, sent, received>>
  BY DEF Written, HasRead
<1>3. /\ PlaceOK' /\ ~NotYet /\ pc[p] = "post_mutex" /\ pc'[p] = to
      /\ \A q \in Proc \ {p} : pc'[q] = pc[q]
  BY <1>1, SideGoes DEF Place, WriterPlace, ReaderPlace
<1>4. /\ fd_open /\ SemTypeOK(Sem, Proc)' /\ UNCHANGED <<open, inside, lost>>
      /\ value' = [value EXCEPT !["mutex_fd"] = @ + 1]
      /\ NotYet' => p_state[WRITER] = "TERMINATED"
  <2>1. InCall(p)
    BY <1>3 DEF InCall
  <2>2. QED
    BY <1>1, <1>3, <2>1, PostPipe
<1>5. NothingYet' /\ ~NotYet'
  <2>1. p = WRITER /\ ~closing => p_state[WRITER] = "READY"
    BY <1>1, GoFacts DEF ExitOK, Place
  <2>2. NotYet' => p # WRITER
    BY <1>1, <1>3, <1>4, <2>1 DEF NotYet
  <2>3. NotYet' => p_state[WRITER] = "TERMINATED" /\ pc[WRITER] = "run"
    BY <1>3, <1>4, <2>2 DEF NotYet, Sides
  <2>4. pc'[SHELL] = pc[SHELL]
    BY <1>3 DEF Sides
  <2>5. QED
    BY <1>3, <2>3, <2>4, NothingNow
<1>6. KernelOK' /\ RingOK'
  BY <1>2, <1>4 DEF KernelOK, RingOK, owners, ring
<1>7. SleepOK'
  BY <1>3, <1>4, SleepersStay
<1>8. value'["write_fd"] = value["write_fd"] /\ value'["read_fd"] = value["read_fd"]
  BY <1>4, Types
<1>9. CASE p = WRITER
  <2>1. /\ pc[WRITER] = "post_mutex" /\ pc'[WRITER] = IF closing THEN "close" ELSE "run"
        /\ pc'[READER] = pc[READER]
    BY <1>1, <1>3, <1>9
  <2>2. OwnersOK' /\ ExitOK'
    BY <1>2, <1>3, <1>4, <1>5, <2>1 DEF OwnersOK, owners, InCall, ExitOK, exits, Leaving
  <2>3. PermitsOK' /\ SentOK'
    BY <1>2, <1>8, <2>1 DEF PermitsOK, SentOK, Place1, Byte2, owners, ring
  <2>4. QED
    BY <1>3, <1>5, <1>6, <1>7, <2>2, <2>3
<1>10. CASE p = READER
  <2>1. pc[READER] = "post_mutex" /\ pc'[READER] = "run" /\ pc'[WRITER] = pc[WRITER]
    BY <1>1, <1>3, <1>10
  <2>2. OwnersOK' /\ ExitOK'
    BY <1>2, <1>3, <1>4, <1>5, <2>1 DEF OwnersOK, owners, InCall, ExitOK, exits, Leaving
  <2>3. PermitsOK' /\ SentOK'
    BY <1>2, <1>8, <2>1 DEF PermitsOK, SentOK, Place1, Byte2, owners, ring
  <2>4. QED
    BY <1>3, <1>5, <1>6, <1>7, <2>2, <2>3
<1>11. QED
  BY <1>9, <1>10 DEF Sides

(* One side closes its end.  The descriptor goes with the second one, and  *)
(* nobody is asleep in it then.                                            *)
LEMMA NobodyInside ==
  ASSUME PInv, NEW p \in Sides, ~NotYet, pc[p] = "close",
         \A q \in Sides \ {p} : ~InCall(q)
  PROVE  \A s \in Sem : inside[s] = {}
<1>1. SUFFICES ASSUME NEW s \in Sem, NEW q \in inside[s]
               PROVE  FALSE
  BY Types
<1>2. q \in Sides /\ pc[q] = Asking(s)
  BY DEF PInv, SleepOK
<1>3. q # p /\ InCall(q)
  BY <1>2, Names DEF Asking, InCall
<1>4. QED
  BY <1>2, <1>3

LEMMA ClosePipe ==
  ASSUME PInv, NEW p \in Sides, closeFd(p)
  PROVE  PInv' /\ (fd_open /\ ~fd_open' => closing /\ pc[WRITER] \in {"close", "exit", "dead"})
<1> USE Names DEF PInv
<1>1. /\ PlaceOK' /\ ~NotYet /\ pc[p] = "close" /\ pc'[p] = "exit"
      /\ \A q \in Proc \ {p} : pc'[q] = pc[q]
  BY SideGoes DEF closeFd, Place, WriterPlace, ReaderPlace
<1>2. /\ UNCHANGED <<ring, waits, exits, closing, sent, received, p_state>>
      /\ writer_pid' = IF writer_pid = p THEN NOBODY ELSE writer_pid
      /\ reader_pid' = IF reader_pid = p THEN NOBODY ELSE reader_pid
      /\ IF Unowned(writer_pid', reader_pid') THEN freeFd ELSE UNCHANGED <<sems, fd_open>>
  BY DEF closeFd, freeFd, sems
<1>3. pc'[WRITER] = "run" => pc[WRITER] = "run"
  BY <1>1 DEF Sides
<1>4. NothingYet' /\ ~NotYet'
  <2>1. pc'[SHELL] = pc[SHELL]
    BY <1>1 DEF Sides
  <2>2. QED
    BY <1>1, <1>2, <1>3, <2>1, NothingNow DEF NotYet
<1>5. RingOK'
  BY <1>2 DEF RingOK, ring
<1>6. SentOK'
  BY <1>1, <1>2 DEF SentOK, Sides
<1>10. ExitOK'
  BY <1>1, <1>2, <1>3 DEF ExitOK, exits, Leaving, Sides
<1>7. CASE ~Unowned(writer_pid', reader_pid')
  <2>1. UNCHANGED <<sems, fd_open>>
    BY <1>2, <1>7
  <2>2. KernelOK' /\ SleepOK'
    BY <1>1, <2>1, SleepersStay DEF KernelOK, SemTypeOK, sems
  <2>3. PermitsOK'
    BY <1>1, <1>2, <2>1 DEF PermitsOK, Place1, Byte2, ring, sems, Sides
  <2>4. OwnersOK'
    <3>1. CASE p = WRITER
      BY <1>1, <1>2, <1>4, <2>1, <3>1 DEF OwnersOK, InCall
    <3>2. CASE p = READER
      BY <1>1, <1>2, <1>4, <2>1, <3>2 DEF OwnersOK, InCall
    <3>3. QED
      BY <3>1, <3>2 DEF Sides
  <2>5. QED
    BY <1>1, <1>4, <1>5, <1>6, <1>10, <2>1, <2>2, <2>3, <2>4
<1>8. CASE Unowned(writer_pid', reader_pid')
  <2>1. freeFd /\ writer_pid' = NOBODY /\ reader_pid' = NOBODY
    BY <1>2, <1>8 DEF Unowned
  <2>2. pc[WRITER] \in {"close", "exit", "dead"} /\ pc'[WRITER] \in {"exit", "dead"}
    <3>1. CASE p = WRITER
      BY <1>1, <3>1
    <3>2. CASE p = READER
      BY <1>1, <1>2, <2>1, <3>2 DEF OwnersOK
    <3>3. QED
      BY <3>1, <3>2 DEF Sides
  <2>3. \A q \in Sides \ {p} : ~InCall(q)
    <3>1. CASE p = WRITER
      BY <1>1, <1>2, <2>1, <3>1 DEF OwnersOK, Sides
    <3>2. CASE p = READER
      BY <2>2, <3>2 DEF Sides, InCall
    <3>3. QED
      BY <3>1, <3>2 DEF Sides
  <2>4. \A s \in Sem : inside[s] = {}
    BY <1>1, <2>3, NobodyInside
  <2>5. /\ fd_open' = FALSE /\ open' = {}
        /\ value' = [s \in Sem |-> 0] /\ queue' = [s \in Sem |-> <<>>]
        /\ inside' = [s \in Sem |-> {}] /\ p_state' = p_state
        /\ lost' = lost \cup UNION {inside[s] : s \in Sem}
    BY <2>1 DEF freeFd
  <2>6. KernelOK'
    <3>1. lost' = {}
      BY <2>4, <2>5 DEF KernelOK
    <3>2. value' \in [Sem -> Nat] /\ queue' \in [Sem -> Seq(Proc)] /\ inside' \in [Sem -> SUBSET Proc]
      BY <2>5
    <3>3. SemTypeOK(Sem, Proc)'
      BY <2>5, <3>1, <3>2, Types DEF SemTypeOK
    <3>4. QED
      BY <2>5, <3>1, <3>3 DEF KernelOK
  <2>7. SleepOK' /\ PermitsOK'
    BY <2>5 DEF SleepOK, PermitsOK
  <2>8. ~InCall(READER)'
    <3>1. CASE p = WRITER
      BY <1>1, <2>3, <3>1 DEF InCall, Sides
    <3>2. CASE p = READER
      BY <1>1, <3>2 DEF InCall
    <3>3. QED
      BY <3>1, <3>2 DEF Sides
  <2>9. closing
    BY <2>2 DEF OwnersOK
  <2>10. OwnersOK'
    BY <1>2, <2>1, <2>2, <2>8, <2>9 DEF OwnersOK
  <2>11. QED
    BY <1>1, <1>4, <1>5, <1>6, <1>10, <2>2, <2>6, <2>7, <2>9, <2>10
<1>9. QED
  BY <1>7, <1>8

LEMMA ExitPipe ==
  ASSUME PInv, NEW p \in Sides, Exit(p)
  PROVE  PInv'
<1> USE Names DEF PInv
<1>1. /\ PlaceOK' /\ ~NotYet /\ pc[p] = "exit" /\ pc'[p] = "dead"
      /\ \A q \in Proc \ {p} : pc'[q] = pc[q]
  BY SideGoes DEF Exit, Place, WriterPlace, ReaderPlace
<1>2. /\ UNCHANGED <<ring, owners, waits, closing, sent, received, open, value, queue>>
      /\ p_state' = [q \in DOMAIN p_state |-> IF q = p THEN "TERMINATED"
                                              ELSE IF q \in {} THEN "READY" ELSE p_state[q]]
      /\ inside' = [s \in DOMAIN inside |-> inside[s] \ {p}]
      /\ lost' = lost \ {p}
  BY DEF Exit, kill
<1>3. /\ p_state' \in [Proc -> {"READY", "BLOCKED", "TERMINATED"}]
      /\ \A q \in Proc \ {p} : p_state'[q] = p_state[q]
  BY <1>2, Types
<1>4. inside' \in [Sem -> SUBSET Proc] /\ \A s \in Sem : inside'[s] = inside[s]
  <2>1. \A s \in Sem : p \notin inside[s]
    BY <1>1 DEF SleepOK, Asking
  <2>2. QED
    BY <1>2, <2>1, Types
<1>5. KernelOK'
  BY <1>2, <1>3, <1>4, Types DEF KernelOK, SemTypeOK, owners
<1>6. NothingYet' /\ ~NotYet'
  <2>1. pc'[SHELL] = pc[SHELL]
    BY <1>1 DEF Sides
  <2>2. NotYet' => p_state[WRITER] = "TERMINATED" /\ pc[WRITER] = "run"
    BY <1>1, <1>3 DEF NotYet
  <2>3. QED
    BY <1>1, <2>1, <2>2, NothingNow
<1>7. inside' = inside
  BY <1>4, Types
<1>8. SleepOK' /\ RingOK'
  BY <1>1, <1>2, <1>7, SleepersStay DEF RingOK, ring
<1>9. pc[WRITER] \in {"exit", "dead"} <=> pc'[WRITER] \in {"exit", "dead"}
  BY <1>1 DEF Sides
<1>10. OwnersOK'
  <2>1. InCall(READER)' <=> InCall(READER)
    BY <1>1 DEF Sides, InCall
  <2>2. pc[WRITER] \in {"close", "exit", "dead"} <=> pc'[WRITER] \in {"close", "exit", "dead"}
    BY <1>1 DEF Sides
  <2>3. QED
    BY <1>1, <1>2, <1>9, <2>1, <2>2 DEF OwnersOK, owners
<1>11. PermitsOK' /\ SentOK'
  BY <1>1, <1>2 DEF PermitsOK, SentOK, Place1, Byte2, owners, ring, Sides
<1>13. ExitOK'
  <2>1. exiting' \in {NOBODY, WRECK} /\ UNCHANGED <<relisted, dropped>>
    BY DEF Exit
  <2>2. QED
    BY <2>1 DEF ExitOK
<1>12. QED
  BY <1>1, <1>5, <1>6, <1>8, <1>10, <1>11, <1>13

LEMMA NextPipe == PInv /\ [Next]_vars => PInv'
<1> SUFFICES ASSUME PInv, [Next]_vars PROVE PInv'
  OBVIOUS
<1>1. CASE Enter \/ Refuse \/ StartOne \/ WaitPid \/ Waited
  BY <1>1, ShellPipe
<1>2. CASE OpenFd \/ StartWriter \/ StartReader
  BY <1>2, OpenPipe, WriterCreated, ReaderCreated DEF StartWriter
<1>3. CASE JobEnds
  BY <1>3, JobPipe
<1>4. CASE WriterDies \/ ReaderDies \/ GivesUp
  BY <1>4, SideDies
<1>5. CASE Writer
  BY <1>5, CallBegins, WaitPipe, PutPipe, CallEnds, SideLeaves, ClosePipe, ExitPipe DEF Writer, Sides
<1>6. CASE Reader
  BY <1>6, CallBegins, WaitPipe, GetPipe, CallEnds, SideLeaves, ClosePipe, ExitPipe DEF Reader, Sides
<1>9. CASE HandKeyboard(WRITER, "wait_write") \/ HandKeyboard(READER, "close")
  BY <1>9, SideLeaves, Names DEF Sides
<1>10. CASE Tick
  BY <1>10, TickPipe
<1>7. CASE UNCHANGED vars
  <2>1. /\ UNCHANGED <<ring, owners, exits, open, value, lost, closing, sent, received, pc>>
        /\ UNCHANGED <<queue, inside, p_state>>
    BY <1>7 DEF vars, pipeVars, sems
  <2>2. SemTypeOK(Sem, Proc)'
    BY <2>1, Types DEF SemTypeOK
  <2>3. pc \in [Proc -> Place] /\ pc[SHELL] \in ShellPlace
    BY DEF PInv, PlaceOK
  <2>4. QED
    BY <2>1, <2>2, <2>3, ElsewherePipe
<1>8. QED
  BY <1>1, <1>2, <1>3, <1>4, <1>5, <1>6, <1>7, <1>9, <1>10
     DEF Next, ShellGoesOn, WriterGoesOn, ReaderGoesOn, OrphanEnds, Interrupted

LEMMA PipeInductive == Spec => []PInv
<1>1. Init => PInv
  BY InitPipe
<1>2. PInv /\ [Next]_vars => PInv'
  BY NextPipe
<1>3. QED
  BY <1>1, <1>2, PTL DEF Spec

(* No sleeper is ever inside of a semaphore of a descriptor that is freed, *)
(* and no call of p1 or p2 meets a freed one.                              *)
THEOREM FreedUnderNobody == Spec => []NobodyInFreed
<1>1. PInv => NobodyInFreed
  <2> SUFFICES ASSUME PInv PROVE NobodyInFreed
    OBVIOUS
  <2>2. InCall(WRITER) => ~NotYet
    BY DEF InCall, NotYet
  <2>3. InCall(WRITER) => fd_open
    BY <2>2, CallFinds DEF Sides
  <2>4. InCall(READER) => fd_open
    BY DEF PInv, OwnersOK
  <2>5. QED
    BY <2>3, <2>4 DEF NobodyInFreed, PInv, KernelOK
<1>2. QED
  BY <1>1, PipeInductive, PTL

-----------------------------------------------------------------------------
(* The pipe implements the channel.                                        *)

Contents == IF fd_open THEN OnTheWay ELSE <<>>

LEMMA OnTheWayIs ==
  /\ OnTheWay = Slice(BUFF_SIZE, buff, readIdx, used)
  /\ OnTheWay' = Slice(BUFF_SIZE, buff', readIdx', used')
  BY DEF OnTheWay, Slice

LEMMA ContentsStay ==
  ASSUME UNCHANGED <<ring, fd_open>>
  PROVE  Contents' = Contents
  BY DEF Contents, OnTheWay, ring

LEMMA PutWrites ==
  ASSUME PInv, Put
  PROVE  Promise!Write \/ Promise!End
<1>1. used < BUFF_SIZE /\ fd_open /\ PInv'
  BY PutPipe
<1>2. /\ buff \in Ring(BUFF_SIZE, Nat \cup {EOF}) /\ readIdx \in 0 .. BUFF_SIZE - 1
      /\ used \in 0 .. BUFF_SIZE /\ used \in 0 .. BUFF_SIZE - 1
      /\ writeIdx = Behind(BUFF_SIZE, readIdx, used)
      /\ BUFF_SIZE \in Nat \ {0} /\ Byte \in Nat \cup {EOF}
  BY <1>1, Bounds DEF PInv, RingOK, Byte, SentOK
<1>3. /\ buff' = [buff EXCEPT ![writeIdx] = Byte] /\ used' = used + 1
      /\ sent' = (IF closing THEN sent ELSE sent + 1)
      /\ UNCHANGED <<readIdx, fd_open, closing, received>>
      /\ pc[WRITER] = "put" /\ pc'[WRITER] = "post_mutex"
  <2>1. pc[WRITER] = "put" /\ pc'[WRITER] = "post_mutex"
    BY SideGoes, Names DEF Put, Sides, Place, WriterPlace
  <2>2. QED
    BY <2>1 DEF Put, owners
<1>4. OnTheWay' = Append(OnTheWay, Byte)
  <2>1. Slice(BUFF_SIZE, WrittenAt(buff, Behind(BUFF_SIZE, readIdx, used), Byte), readIdx, used + 1)
          = Append(Slice(BUFF_SIZE, buff, readIdx, used), Byte)
    BY <1>2, SliceGrows, SMTT(30)
  <2>2. QED
    BY <1>2, <1>3, <2>1, OnTheWayIs DEF WrittenAt
<1>5. Len(OnTheWay) < BUFF_SIZE
  BY <1>1, <1>2, SliceIs, OnTheWayIs
<1>6. ~EndWritten /\ (EndWritten' <=> closing)
  BY <1>3 DEF EndWritten
<1>7. CASE closing
  <2>1. EndWritten' = TRUE
    BY <1>6, <1>7 DEF EndWritten
  <2>2. EndWritten = FALSE
    BY <1>6 DEF EndWritten
  <2>3. QED
    BY <1>1, <1>3, <1>4, <1>5, <1>7, <2>1, <2>2 DEF Promise!End, Promise!Room, Byte
<1>8. CASE ~closing
  <2>1. EndWritten' = EndWritten /\ ~EndWritten
    BY <1>6, <1>8 DEF EndWritten
  <2>2. QED
    BY <1>1, <1>3, <1>4, <1>5, <1>8, <2>1 DEF Promise!Write, Promise!Room, Byte
<1>9. QED
  BY <1>7, <1>8

LEMMA GetReads ==
  ASSUME PInv, Get
  PROVE  Promise!Read
<1>1. used > 0 /\ fd_open
  BY GetPipe
<1>2. /\ buff \in Ring(BUFF_SIZE, Nat \cup {EOF}) /\ readIdx \in 0 .. BUFF_SIZE - 1
      /\ used \in 1 .. BUFF_SIZE /\ BUFF_SIZE \in Nat \ {0}
  BY <1>1, Bounds DEF PInv, RingOK
<1>3. /\ received' = Append(received, buff[readIdx])
      /\ readIdx' = Behind(BUFF_SIZE, readIdx, 1) /\ used' = used - 1
      /\ UNCHANGED <<buff, fd_open, closing, sent>> /\ pc'[WRITER] = pc[WRITER]
  <2>1. pc'[WRITER] = pc[WRITER]
    BY SideGoes, Names DEF Get, Sides, Place, ReaderPlace
  <2>2. QED
    BY <1>2, <2>1, NextIs DEF Get, owners
<1>4. /\ OnTheWay # <<>> /\ Head(OnTheWay) = buff[readIdx] /\ OnTheWay' = Tail(OnTheWay)
  <2>1. /\ Slice(BUFF_SIZE, buff, readIdx, used) # <<>>
        /\ Head(Slice(BUFF_SIZE, buff, readIdx, used)) = buff[readIdx]
        /\ Slice(BUFF_SIZE, buff, Behind(BUFF_SIZE, readIdx, 1), used - 1)
             = Tail(Slice(BUFF_SIZE, buff, readIdx, used))
    BY <1>2, SliceShrinks
  <2>2. QED
    BY <1>3, <2>1, OnTheWayIs
<1>5. EndWritten' = EndWritten
  BY <1>3 DEF EndWritten
<1>6. QED
  BY <1>1, <1>3, <1>4, <1>5 DEF Promise!Read

LEMMA CloseFrees ==
  ASSUME PInv, NEW p \in Sides, closeFd(p)
  PROVE  Promise!Free \/ UNCHANGED <<Contents, sent, EndWritten, received>>
<1>1. UNCHANGED <<ring, closing, sent, received>>
  BY DEF closeFd
<1>2. EndWritten' = EndWritten
  <2>1. /\ pc[p] = "close" /\ pc'[p] = "exit" /\ \A q \in Proc \ {p} : pc'[q] = pc[q]
    BY SideGoes DEF closeFd, Place, WriterPlace, ReaderPlace
  <2>2. QED
    BY <1>1, <2>1, Names DEF EndWritten, Sides
<1>3. CASE fd_open /\ ~fd_open'
  <2>1. EndWritten
    BY <1>3, ClosePipe DEF EndWritten
  <2>2. QED
    BY <1>1, <1>2, <1>3, <2>1 DEF Promise!Free
<1>4. CASE fd_open' = fd_open
  BY <1>1, <1>2, <1>4, ContentsStay
<1>5. fd_open' = FALSE \/ fd_open' = fd_open
  BY DEF closeFd, freeFd
<1>6. QED
  BY <1>3, <1>4, <1>5 DEF PInv, KernelOK

(* Every other step leaves the channel as it is.                           *)
LEMMA OthersStutter ==
  ASSUME PInv, PInv', [Next]_vars, ~Put, ~Get, ~closeFd(WRITER), ~closeFd(READER)
  PROVE  UNCHANGED <<Contents, sent, EndWritten, received>>
<1> USE Names
<1>1. CASE OpenFd
  <2>1. used = 0 /\ UNCHANGED <<ring, sent, received, closing>> /\ ~closing /\ fd_open = FALSE
    <3>1. NotYet /\ pc[SHELL] = "start" /\ UNCHANGED <<ring, sent, received, closing>>
      BY <1>1 DEF OpenFd, NotYet, Go, openFd
    <3>2. QED
      BY <3>1 DEF PInv, NothingYet, KernelOK
  <2>2. Contents = <<>> /\ Contents' = <<>>
    <3>1. OnTheWay' = <<>>
      BY <2>1 DEF OnTheWay, ring
    <3>2. QED
      BY <2>1, <3>1 DEF Contents
  <2>3. QED
    BY <2>1, <2>2 DEF EndWritten
<1>2. CASE ~OpenFd /\ ~UNCHANGED vars
  <2>1. UNCHANGED <<ring, fd_open, sent, received>>
    BY <1>2 DEF Next, Enter, ShellGoesOn, Refuse, StartOne, StartWriter, CreateWriter, StartReader, createReader,
                WaitPid, waitPid, Waited, Unpiped, JobEnds, WriterGoesOn, ReaderGoesOn, WriterDies, ReaderDies, GivesUp, Die,
                TellParent, HandKeyboard, OrphanEnds, Interrupted, Tick, Writer, Reader, Write, WaitToWrite, Written, Read, WaitToRead, HasRead, Exit, owners
  <2>2. EndWritten' = EndWritten
    <3>1. CASE WriterDies
      <4>1. pc[WRITER] = "run" /\ pc'[WRITER] = "tell"
        BY <3>1, SideGoes DEF WriterDies, Die, Sides, Place, WriterPlace
      <4>2. QED
        BY <4>1 DEF EndWritten
    <3>7. CASE TellParent(WRITER) \/ HandKeyboard(WRITER, "wait_write")
      <4>1. PICK from \in {"tell", "hand"}, to \in {"hand", "wait_write"} : Go(WRITER, from, to)
        BY <3>7 DEF TellParent, HandKeyboard
      <4>2. pc[WRITER] = from /\ pc'[WRITER] = to
        BY <4>1, SideGoes DEF Sides, Place, WriterPlace
      <4>3. QED
        BY <4>2 DEF EndWritten
    <3>2. CASE Written
      <4>1. /\ pc[WRITER] = "post_mutex" /\ pc'[WRITER] = IF closing THEN "close" ELSE "run"
            /\ closing' = closing
        BY <3>2, SideGoes DEF Written, Sides, Place, WriterPlace
      <4>2. QED
        BY <4>1 DEF EndWritten
    <3>3. CASE Write \/ WaitToWrite
      <4>1. PICK from \in {"run", "wait_write", "wait_mutex"}, to \in {"wait_write", "wait_mutex", "put"} :
              Go(WRITER, from, to)
        BY <3>3 DEF Write, WaitToWrite, Wait
      <4>2. pc[WRITER] = from /\ pc'[WRITER] = to
        BY <4>1, SideGoes DEF Sides, Place, WriterPlace
      <4>3. QED
        BY <4>2 DEF EndWritten
    <3>4. CASE Exit(WRITER)
      <4>1. pc[WRITER] = "exit" /\ pc'[WRITER] = "dead" /\ closing' = closing
        BY <3>4, SideGoes DEF Exit, Sides, Place, WriterPlace
      <4>2. QED
        BY <4>1 DEF EndWritten
    <3>5. CASE ~(WriterDies \/ Written \/ Write \/ WaitToWrite \/ Exit(WRITER)
                 \/ TellParent(WRITER) \/ HandKeyboard(WRITER, "wait_write"))
      <4>1. closing' = closing
        BY <1>2, <3>5 DEF Next, Enter, ShellGoesOn, Refuse, StartOne, StartWriter, CreateWriter, StartReader,
             createReader, WaitPid, waitPid, Waited, Unpiped, JobEnds, WriterGoesOn, ReaderGoesOn, ReaderDies, GivesUp,
             TellParent, HandKeyboard, OrphanEnds, Interrupted, Tick, Writer, Reader, Read, WaitToRead, HasRead, Exit
      <4>2. pc' = pc \/ \E p \in {SHELL, READER}, from \in Place, to \in Place : Go(p, from, to)
        BY <1>2, <3>5 DEF Next, Enter, ShellGoesOn, Refuse, StartOne, StartWriter, CreateWriter, StartReader,
             createReader, WaitPid, waitPid, Waited, JobEnds, WriterGoesOn, ReaderGoesOn, ReaderDies, GivesUp, Die,
             TellParent, HandKeyboard, OrphanEnds, Interrupted, Tick,
             Writer, Reader, Read, WaitToRead, HasRead, Exit, Wait, AfterStart, Place
      <4>3. pc'[WRITER] = pc[WRITER]
        BY <4>2, GoFacts
      <4>4. QED
        BY <4>1, <4>3 DEF EndWritten
    <3>6. QED
      BY <3>1, <3>2, <3>3, <3>4, <3>5, <3>7
  <2>3. QED
    BY <2>1, <2>2, ContentsStay
<1>3. CASE UNCHANGED vars
  <2>1. UNCHANGED <<ring, fd_open, sent, received, closing, pc>>
    BY <1>3 DEF vars, pipeVars, owners
  <2>2. QED
    BY <2>1, ContentsStay DEF EndWritten
<1>4. QED
  BY <1>1, <1>2, <1>3

(* Whatever the size of the buffer and however much p1 writes, less than   *)
(* cat and filter take, what p2 reads are the bytes of p1 in their order,  *)
(* with an end after the last one, and never more than fit are on their    *)
(* way.                                                                    *)
THEOREM PipeIsChannel == Spec => BoundedFifo
<1>1. Init => Promise!Init
  <2>1. Init => fd_open = FALSE /\ sent = 0 /\ closing = FALSE /\ received = <<>>
    BY DEF Init, PipeInit
  <2>2. QED
    BY <2>1 DEF Promise!Init, EndWritten
<1>2. PInv /\ PInv' /\ [Next]_vars => [Promise!Next]_<<Contents, sent, EndWritten, received>>
  BY PutWrites, GetReads, CloseFrees, OthersStutter DEF Promise!Next, Sides
<1>3. QED
  BY <1>1, <1>2, PipeInductive, PTL DEF Spec, BoundedFifo, Promise!Spec, Contents

-----------------------------------------------------------------------------
(* A line is read by itself.                                               *)

LEMMA Counted ==
  ASSUME NEW typed \in Lines
  PROVE  /\ typed \in Seq(STRING) /\ \A k \in 1 .. Len(typed) : typed[k] # NONE
         /\ Count(typed) \in Nat /\ Count(typed) <= Len(typed) /\ Count(typed) <= MAX_ARGS
         /\ MAX_ARGS \in Nat
<1>1. typed \in Seq(STRING \ {NONE}) /\ MAX_ARGS \in Nat
  BY PipelineAssumption, CommandLineAssumption DEF PipelineAssumption, CommandLineAssumption
<1>2. \A k \in 1 .. Len(typed) : typed[k] \in STRING \ {NONE}
  BY <1>1, ElementOfSeq
<1>3. typed \in Seq(STRING) /\ Len(typed) \in Nat
  BY <1>1, SeqDef
<1>4. QED
  BY <1>1, <1>2, <1>3 DEF Count

(* The words from a on, as a copy of them and as a part of the line.       *)
LEMMA SamePart ==
  ASSUME NEW typed \in Lines, NEW array, NEW a \in Nat, NEW n \in Nat, a + n <= Count(typed),
         \A k \in 1 .. n : array[k] = typed[a + k]
  PROVE  Words(array, n) = SubSeq(SubSeq(typed, 1, Count(typed)), a + 1, a + n)
<1> DEFINE words == SubSeq(typed, 1, Count(typed))
           part == SubSeq(words, a + 1, a + n)
<1>1. words \in Seq(STRING) /\ Len(words) = Count(typed) /\ \A k \in 1 .. Count(typed) : words[k] = typed[k]
  BY Counted, SubSeqProperties
<1>2. part \in Seq(STRING) /\ Len(part) = n /\ \A k \in 1 .. n : part[k] = words[a + k]
  <2>1. a + 1 \in 1 .. Len(words) + 1 /\ a + n \in (a + 1) - 1 .. Len(words)
    BY <1>1, Counted
  <2> HIDE DEF words
  <2>2. QED
    BY <1>1, <2>1, SubSeqProperties
<1>3. \A k \in 1 .. n : part[k] = array[k]
  BY <1>1, <1>2, Counted
<1>4. Words(array, n) = [k \in 1 .. n |-> part[k]]
  BY <1>3 DEF Words
<1> HIDE DEF part
<1>5. Words(array, n) \in Seq(STRING) /\ Len(Words(array, n)) = n
      /\ \A k \in 1 .. n : Words(array, n)[k] = part[k]
  <2>1. \A k \in 1 .. n : part[k] \in STRING
    BY <1>2, ElementOfSeq
  <2>2. QED
    BY <1>4, <2>1
<1>6. Words(array, n) = part
  BY <1>2, <1>5, SeqEqual
<1>7. QED
  BY <1>6 DEF part

LEMMA BarFound ==
  ASSUME NEW array, NEW n \in Nat, {k \in 1 .. n : array[k] = "|"} # {}
  PROVE  /\ FirstBar(array, n) \in 1 .. n /\ array[FirstBar(array, n)] = "|"
         /\ \A j \in 1 .. FirstBar(array, n) - 1 : array[j] # "|"
<1> DEFINE bars == {k \in 1 .. n : array[k] = "|"}
<1>1. \E k \in bars : \A j \in bars : k <= j
  <2>1. bars \in SUBSET Nat /\ bars # {}
    OBVIOUS
  <2> HIDE DEF bars
  <2>2. QED
    BY <2>1, LeastExists
<1>2. FirstBar(array, n) = CHOOSE k \in bars : \A j \in bars : k <= j
  BY DEF FirstBar
<1>3. FirstBar(array, n) \in bars /\ \A j \in bars : FirstBar(array, n) <= j
  BY <1>1, <1>2
<1>4. QED
  BY <1>3

LEMMA ReadAlone ==
  ASSUME NEW old, NEW typed \in Lines
  PROVE  prepareCommands(parseArgs(old, typed), Count(typed)) \subseteq Meaning(typed)
<1> DEFINE n == Count(typed)
           array == parseArgs(old, typed)
           words == SubSeq(typed, 1, n)
           pipe == hasPipe(array, n)
           bars == {k \in 1 .. n : array[k] = "|"}
<1>1. /\ n \in Nat /\ n <= Len(typed) /\ n <= MAX_ARGS /\ MAX_ARGS \in Nat
      /\ \A k \in 1 .. n : typed[k] # NONE
      /\ Len(words) = n /\ \A k \in 1 .. n : words[k] = typed[k]
  BY Counted, SubSeqProperties
<1>2. \A k \in 1 .. n : array[k] = typed[k]
  BY <1>1 DEF parseArgs
<1>3. Words(array, n) = words
  <2>1. Words(array, n) = SubSeq(words, 0 + 1, 0 + n)
    <3>1. 0 \in Nat /\ 0 + n <= n /\ \A k \in 1 .. n : array[k] = typed[0 + k]
      BY <1>1, <1>2
    <3> HIDE DEF array
    <3>2. QED
      BY <1>1, <3>1, SamePart
  <2>2. SubSeq(words, 1, n) = words
    BY <1>1, Counted, SubSeqProperties, SeqEqual
  <2>3. QED
    BY <1>1, <2>1, <2>2
<1>4. pipe = FirstBar(array, n)
  BY DEF hasPipe
<1>8. Meaning(typed) =
        IF Cuts(words) = {} THEN {<<c>> : c \in getCommand(words)}
        ELSE UNION {Around(words, k) : k \in Cuts(words)}
  BY DEF Meaning
<1> HIDE DEF array, words, n
<1>5. CASE ~(pipe > 1)
  <2>1. Cuts(words) = {}
    <3>1. SUFFICES ASSUME NEW k \in Cuts(words)
                   PROVE  FALSE
      OBVIOUS
    <3>2. k \in 2 .. n /\ k \in bars /\ words[k] = "|" /\ \A j \in 1 .. k - 1 : words[j] # "|"
      BY <1>1, <1>2 DEF Cuts
    <3>3. pipe \in 1 .. n /\ array[pipe] = "|"
      BY <1>1, <1>4, <3>2, BarFound
    <3>4. pipe = 1 /\ words[1] = "|"
      BY <1>1, <1>2, <1>5, <3>3
    <3>5. QED
      BY <3>2, <3>4
  <2>2. Meaning(typed) = {<<c>> : c \in getCommand(words)}
    BY <1>8, <2>1
  <2>3. prepareCommands(array, n) = {<<c>> : c \in getCommand(Words(array, n))}
    BY <1>5 DEF prepareCommands
  <2>4. QED
    BY <1>3, <2>2, <2>3 DEF array, n
<1>6. CASE pipe > 1
  <2>1. pipe \in 2 .. n /\ array[pipe] = "|" /\ \A j \in 1 .. pipe - 1 : array[j] # "|"
    <3>1. bars # {}
      BY <1>4, <1>6 DEF FirstBar
    <3>2. QED
      BY <1>1, <1>4, <1>6, <3>1, BarFound
  <2>2. pipe \in Cuts(words)
    BY <1>1, <1>2, <2>1 DEF Cuts
  <2>3. Words(array, pipe - 1) = SubSeq(words, 1, pipe - 1)
    <3> DEFINE m == pipe - 1
    <3>1. m \in Nat /\ 0 \in Nat /\ 0 + m = m /\ 0 + 1 = 1 /\ 0 + m <= n
          /\ \A k \in 1 .. m : array[k] = typed[0 + k]
      BY <1>1, <1>2, <2>1
    <3> HIDE DEF m
    <3>2. Words(array, m) = SubSeq(words, 0 + 1, 0 + m)
      BY <3>1, SamePart DEF words, n
    <3>3. QED
      BY <3>1, <3>2 DEF m
  <2>4. Words(argAux(array, pipe), n - pipe) = SubSeq(words, pipe + 1, n)
    <3>1. n - pipe \in Nat /\ pipe + (n - pipe) = n /\ pipe \in Nat
      BY <1>1, <2>1
    <3>2. \A k \in 1 .. n - pipe : argAux(array, pipe)[k] = typed[pipe + k]
      <4>1. SUFFICES ASSUME NEW k \in 1 .. n - pipe
                     PROVE  argAux(array, pipe)[k] = typed[pipe + k]
        OBVIOUS
      <4>2. \A j \in 1 .. k : pipe + j \in 1 .. n /\ pipe + j <= MAX_ARGS
        BY <1>1, <2>1
      <4>3. \A j \in 1 .. k : array[pipe + j] = typed[pipe + j] /\ typed[pipe + j] # NONE
        BY <1>1, <1>2, <4>2
      <4>4. k \in 1 .. MAX_ARGS /\ k \in 1 .. k
        BY <1>1, <2>1
      <4> HIDE DEF pipe
      <4>5. QED
        BY <4>2, <4>3, <4>4 DEF argAux
    <3> DEFINE m == n - pipe
    <3> HIDE DEF pipe, m
    <3>3. Words(argAux(array, pipe), m) = SubSeq(words, pipe + 1, pipe + m)
      <4>1. m \in Nat /\ pipe \in Nat /\ pipe + m <= n
        BY <1>1, <3>1 DEF m
      <4>2. \A k \in 1 .. m : argAux(array, pipe)[k] = typed[pipe + k]
        BY <3>2 DEF m
      <4>3. QED
        BY <4>1, <4>2, SamePart, ZenonT(40) DEF words, n
    <3>4. QED
      BY <3>1, <3>3 DEF m
  <2>5. prepareCommands(array, n) = getCommand(Words(array, pipe - 1))
                                    \X getCommand(Words(argAux(array, pipe), n - pipe))
    BY <1>6 DEF prepareCommands
  <2>6. Meaning(typed) = UNION {Around(words, k) : k \in Cuts(words)}
    BY <1>8, <2>2
  <2>7. prepareCommands(array, n) = Around(words, pipe)
    <3>1. Len(words) = n
      BY <1>1
    <3> HIDE DEF pipe, words, array, n
    <3>2. QED
      BY <2>3, <2>4, <2>5, <3>1 DEF Around
  <2> HIDE DEF pipe
  <2>8. QED
    BY <2>2, <2>6, <2>7 DEF array, n
<1>7. QED
  BY <1>5, <1>6

(* However long the lines are and whatever the older ones have left in     *)
(* arguments, the shell starts what the new line says by itself.           *)
THEOREM LinesReadAlone == Spec => []LineAlone
<1>1. Init => LineAlone
  BY Names DEF Init, PipeInit, LineAlone
<1>2. LineAlone /\ PInv /\ [Next]_vars => LineAlone'
  <2> SUFFICES ASSUME LineAlone, PInv, [Next]_vars PROVE LineAlone'
    OBVIOUS
  <2>1. CASE Enter
    BY <2>1, ReadAlone DEF Enter, LineAlone
  <2>2. CASE ~Enter
    <3>1. UNCHANGED <<line, commands>>
      BY <2>2 DEF Next, vars, prompt, ShellGoesOn, Refuse, StartOne, OpenFd, StartWriter, Started, StartReader,
           WaitPid, Waited, JobEnds, HandOver, WriterGoesOn, ReaderGoesOn, OrphanEnds, Interrupted, Running
    <3>2. pc'[SHELL] # "prompt" => pc[SHELL] # "prompt"
      <4>1. \/ pc' = pc
            \/ \E p \in Sides, from \in Place, to \in Place : Go(p, from, to)
            \/ \E from \in Place \ {"prompt"}, to \in Place : Go(SHELL, from, to)
        BY <2>2 DEF Next, vars, pipeVars, ShellGoesOn, Refuse, StartOne, OpenFd, StartWriter, CreateWriter, StartReader,
             WaitPid, Waited, JobEnds, WriterGoesOn, ReaderGoesOn, WriterDies, ReaderDies, GivesUp, Die, TellParent,
             HandKeyboard, OrphanEnds, Interrupted, Tick, Writer, Reader,
             Write, WaitToWrite, Put, Written, Read, WaitToRead, Get, HasRead, closeFd, Exit, Wait, AfterStart,
             Place, Sides
      <4>2. QED
        BY <4>1, GoFacts, Names DEF Sides
    <3>3. QED
      BY <3>1, <3>2 DEF LineAlone
  <2>3. QED
    BY <2>1, <2>2
<1>3. QED
  BY <1>1, <1>2, PipeInductive, PTL DEF Spec
-----------------------------------------------------------------------------
(* The waits of the shell.  Only the two sides are ever in a queue; told   *)
(* has those whose deaths have ended a wait; and the shell, when it waits  *)
(* for a pipe, has been told of as many as it has waits behind it.         *)

Closed == {"hand", "close", "exit", "dead"}

QueueOK == queue \in [Sem -> Seq(Sides)]

DeathsOK ==
  /\ told \subseteq {WRITER, READER, JOB}
  /\ WRITER \in told => closing /\ pc[WRITER] # "tell"
  /\ closing => pc[WRITER] # "run"
  /\ READER \in told => pc[READER] \in Closed

Both == Len(commands) = 2 /\ Runnable /\ Foreground

(* A job that ends in between counts for all.                              *)
Enough(k) ==
  \/ JOB \in told
  \/ (k \in 1 .. 2 => told # {}) /\ (k = 2 => WRITER \in told /\ READER \in told)

Behind2 == IF p_state[SHELL] = "BLOCKED" THEN 1 - waits_left ELSE 2 - waits_left

WaitsOK ==
  /\ waits_left \in 0 .. 2
  /\ p_state[SHELL] = "BLOCKED" => pc[SHELL] = "waiting"
  /\ pc[SHELL] \in {"create_writer", "create_reader"} => Len(commands) = 2
  /\ pc[SHELL] = "wait" => waits_left \in 1 .. 2 /\ (Both => Enough(2 - waits_left))
  /\ pc[SHELL] = "waiting" => waits_left \in 0 .. 1 /\ (Both => waiting_pid = ANY /\ Enough(Behind2))
  /\ Both /\ pc[SHELL] = "prompt" => Enough(2)

WInv == QueueOK /\ DeathsOK /\ WaitsOK

LEMMA PostsAside ==
  ASSUME PInv, QueueOK, NEW s \in Sem, semPost(s)
  PROVE  QueueOK' /\ p_state'[SHELL] = p_state[SHELL]
<1> USE Names
<1>1. CASE s \notin open
  BY <1>1 DEF semPost, sems, QueueOK
<1>2. CASE s \in open /\ LiveEntries(s) = {}
  <2>1. queue' = [queue EXCEPT ![s] = <<>>] /\ p_state' = p_state
    BY <1>2 DEF semPost, releaseFirstP
  <2>2. QED
    BY <2>1 DEF QueueOK
<1>3. CASE s \in open /\ LiveEntries(s) # {}
  <2> DEFINE n == First(LiveEntries(s))
  <2>1. queue[s] \in Seq(Sides) /\ Len(queue[s]) \in Nat
    BY DEF QueueOK
  <2>2. n \in 1 .. Len(queue[s])
    <3>1. LiveEntries(s) \subseteq 1 .. Len(queue[s])
      BY DEF LiveEntries
    <3>2. QED
      BY <1>3, <2>1, <3>1, FirstInSet
  <2>3. /\ p_state' = [p_state EXCEPT ![queue[s][n]] = "READY"]
        /\ queue' = [queue EXCEPT ![s] = SubSeq(@, n + 1, Len(@))]
    BY <1>3 DEF semPost, releaseFirstP, Released
  <2> HIDE DEF n
  <2>4. queue[s][n] \in Sides
    BY <2>1, <2>2, ElementOfSeq
  <2>5. SubSeq(queue[s], n + 1, Len(queue[s])) \in Seq(Sides)
    BY <2>1, <2>2, SubSeqProperties
  <2>6. QueueOK'
    BY <2>3, <2>5 DEF QueueOK
  <2>7. QED
    BY <2>3, <2>4, <2>6, Types DEF Sides
<1>4. QED
  BY <1>1, <1>2, <1>3

LEMMA WaitsAside ==
  ASSUME PInv, QueueOK, NEW s \in Sem, NEW p \in Sides, semWait(s, p)
  PROVE  QueueOK' /\ p_state'[SHELL] = p_state[SHELL]
<1> USE Names
<1>1. CASE UNCHANGED <<queue, p_state>>
  BY <1>1 DEF QueueOK
<1>2. CASE queue' = [queue EXCEPT ![s] = Append(@, p)] /\ p_state' = [p_state EXCEPT ![p] = "BLOCKED"]
  <2>1. Append(queue[s], p) \in Seq(Sides)
    BY DEF QueueOK
  <2>2. QED
    BY <1>2, <2>1, Types DEF QueueOK, Sides
<1>3. QED
  BY <1>1, <1>2 DEF semWait, sems

(* A step after which the shell has been told of nobody more.              *)
LEMMA CalmStep ==
  ASSUME WInv, QueueOK', UNCHANGED <<commands, waits_left, waits>>, closing => closing',
         pc'[SHELL] = pc[SHELL], p_state'[SHELL] = p_state[SHELL],
         closing' => pc'[WRITER] # "run",
         WRITER \in told => pc'[WRITER] # "tell",
         pc[READER] \in Closed => pc'[READER] \in Closed
  PROVE  WInv'
<1>1. DeathsOK'
  BY DEF WInv, DeathsOK, waits
<1>2. (Both' <=> Both) /\ Behind2' = Behind2 /\ \A k : Enough(k)' <=> Enough(k)
  BY DEF Both, Runnable, Foreground, Behind2, Enough, waits
<1>3. WaitsOK'
  BY <1>2 DEF WInv, WaitsOK, waits
<1>4. QED
  BY <1>1, <1>3 DEF WInv

Quiet ==
  \/ Write \/ WaitToWrite \/ Put \/ Written \/ HandKeyboard(WRITER, "wait_write")
  \/ Read \/ WaitToRead \/ Get \/ HasRead \/ HandKeyboard(READER, "close")
  \/ \E p \in Sides : closeFd(p) \/ Exit(p)

LEMMA SidesCalm ==
  ASSUME PInv, WInv, Quiet, UNCHANGED <<commands, waits_left>>
  PROVE  WInv'
<1> USE Names
<1>1. PICK p \in Sides, from, to \in Place :
        /\ Go(p, from, to)
        /\ p = WRITER => to \in WriterPlace \ {"tell"} /\ (closing => to # "run")
        /\ p = READER => to \in ReaderPlace /\ (from \in Closed => to \in Closed)
  BY DEF Quiet, Write, WaitToWrite, Put, Written, HandKeyboard, Read, WaitToRead, Get, HasRead, closeFd, Exit,
     Wait, Place, WriterPlace, ReaderPlace, Sides, Closed
<1>2. pc[p] = from /\ pc'[p] = to /\ \A q \in Proc \ {p} : pc'[q] = pc[q]
  BY <1>1, SideGoes
<1>3. UNCHANGED <<waits, closing>>
  BY DEF Quiet, Write, WaitToWrite, Put, Written, HandKeyboard, Read, WaitToRead, Get, HasRead, closeFd, Exit
<1>4. QueueOK' /\ p_state'[SHELL] = p_state[SHELL]
  <2>1. CASE Write \/ Read \/ \E q \in Sides, dest \in Place : HandKeyboard(q, dest)
    BY <2>1 DEF Write, Read, HandKeyboard, sems, WInv, QueueOK
  <2>2. CASE WaitToWrite \/ WaitToRead
    <3>1. \E s \in Sem, q \in Sides : semWait(s, q)
      BY <2>2 DEF WaitToWrite, WaitToRead, Wait, Sides
    <3>2. QED
      BY <3>1, WaitsAside DEF WInv
  <2>3. CASE Put \/ Written \/ Get \/ HasRead
    <3>1. \E s \in Sem : semPost(s)
      BY <2>3 DEF Put, Written, Get, HasRead
    <3>2. QED
      BY <3>1, PostsAside DEF WInv
  <2>4. CASE \E q \in Sides : closeFd(q)
    <3>1. UNCHANGED p_state /\ (UNCHANGED queue \/ queue' = [s \in Sem |-> <<>>])
      BY <2>4 DEF closeFd, freeFd, sems
    <3>2. <<>> \in Seq(Sides)
      OBVIOUS
    <3>3. QED
      BY <3>1, <3>2 DEF WInv, QueueOK
  <2>5. CASE \E q \in Sides : Exit(q)
    <3>1. PICK q \in Sides : kill(q, {})
      BY <2>5 DEF Exit
    <3>2. QED
      BY <3>1, Types DEF kill, WInv, QueueOK, Sides
  <2>6. QED
    BY <2>1, <2>2, <2>3, <2>4, <2>5 DEF Quiet, Sides, Place
<1>5. /\ closing => pc'[WRITER] # "run"
      /\ WRITER \in told => pc'[WRITER] # "tell"
      /\ pc[READER] \in Closed => pc'[READER] \in Closed
  BY <1>1, <1>2 DEF Sides, WInv, DeathsOK
<1>6. pc'[SHELL] = pc[SHELL]
  BY <1>2 DEF Sides
<1>7. QED
  BY <1>3, <1>4, <1>5, <1>6, CalmStep

(* Who begins to die has told nobody yet, and a tick tells nobody.         *)
LEMMA DyingCalm ==
  ASSUME PInv, WInv, WriterDies \/ ReaderDies \/ GivesUp, UNCHANGED <<commands, waits_left>>
  PROVE  WInv'
<1> USE Names
<1>1. PICK p \in Sides : Die(p) /\ (p = WRITER => closing') /\ (p = READER => closing' = closing)
  BY DEF WriterDies, ReaderDies, GivesUp, Sides
<1>2. pc[p] = "run" /\ pc'[p] = "tell" /\ \A q \in Proc \ {p} : pc'[q] = pc[q]
  BY <1>1, SideGoes DEF Die, Place, WriterPlace, ReaderPlace
<1>3. QueueOK' /\ p_state'[SHELL] = p_state[SHELL] /\ UNCHANGED waits
  BY <1>1, Types DEF Die, setState, Sides, WInv, QueueOK
<1>4. closing \in BOOLEAN /\ (closing => pc[WRITER] # "run") /\ pc[WRITER] \in Place
  BY Types DEF PInv, SentOK, WInv, DeathsOK
<1>5. /\ closing => closing'
      /\ closing' => pc'[WRITER] # "run"
      /\ WRITER \in told => pc'[WRITER] # "tell"
      /\ pc[READER] \in Closed => pc'[READER] \in Closed
      /\ pc'[SHELL] = pc[SHELL]
  <2>1. CASE p = WRITER
    BY <1>1, <1>2, <1>4, <2>1 DEF WInv, DeathsOK
  <2>2. CASE p = READER
    BY <1>1, <1>2, <1>4, <2>2 DEF WInv, DeathsOK, Closed
  <2>3. QED
    BY <2>1, <2>2 DEF Sides
<1>6. QED
  BY <1>3, <1>5, CalmStep

LEMMA TickCalm ==
  ASSUME PInv, WInv, Tick, UNCHANGED <<commands, waits_left>>
  PROVE  WInv'
<1> USE Names
<1>1. UNCHANGED <<pc, waits, closing, queue>>
  BY DEF Tick, setState, sems
<1>2. p_state'[SHELL] = p_state[SHELL]
  BY Types DEF Tick, setState, sems
<1>3. QueueOK' /\ (closing => pc[WRITER] # "run") /\ (WRITER \in told => pc[WRITER] # "tell")
  BY <1>1 DEF WInv, QueueOK, DeathsOK
<1>4. QED
  BY <1>1, <1>2, <1>3, CalmStep

LEMMA DeathCounts ==
  ASSUME PInv, WInv, NEW p \in {WRITER, READER, JOB}, Tell(p),
         p = WRITER => closing /\ pc[WRITER] = "tell", p = READER => pc[READER] = "tell" /\ pc'[READER] \in Closed,
         closing' = closing, closing' => pc'[WRITER] # "run",
         p = WRITER \/ WRITER \in told => pc'[WRITER] # "tell",
         pc[READER] \in Closed => pc'[READER] \in Closed,
         queue' = queue, UNCHANGED <<commands, waits_left>>, pc'[SHELL] = pc[SHELL],
         p_state'[SHELL] = IF Notified(p) THEN "READY" ELSE p_state[SHELL]
  PROVE  WInv'
<1> USE Names
<1>1. QueueOK'
  BY DEF WInv, QueueOK
<1>2. waiting_pid' = waiting_pid /\ told' = IF Notified(p) THEN told \cup {p} ELSE told
  BY DEF Tell
<1>3. DeathsOK'
  BY <1>2 DEF WInv, DeathsOK
<1>4. p = WRITER \/ p = READER => p \notin told
  BY DEF WInv, DeathsOK, Closed
<1>5. Both' <=> Both
  BY DEF Both, Runnable, Foreground
<1>6. CASE Notified(p)
  <2>1. p_state[SHELL] = "BLOCKED" /\ pc[SHELL] = "waiting" /\ waits_left \in 0 .. 1
    BY <1>6 DEF Notified, WInv, WaitsOK
  <2>2. Both => waiting_pid = ANY /\ Enough(1 - waits_left)
    BY <2>1 DEF WInv, WaitsOK, Behind2
  <2>3. Behind2' = 2 - waits_left
    BY <1>6 DEF Behind2
  <2>4. Enough(1 - waits_left) => Enough(2 - waits_left)'
    <3>1. told' = told \cup {p} /\ told \subseteq {WRITER, READER, JOB}
      BY <1>2, <1>6 DEF WInv, DeathsOK
    <3>2. CASE waits_left = 1
      BY <3>1, <3>2 DEF Enough
    <3>3. CASE waits_left = 0
      <4>1. SUFFICES ASSUME told # {}, JOB \notin told, p # JOB
                     PROVE  WRITER \in told' /\ READER \in told'
        BY <3>1, <3>3 DEF Enough
      <4>2. p \notin told /\ \E q \in told : q \in {WRITER, READER}
        BY <1>4, <3>1, <4>1
      <4>3. QED
        BY <3>1, <4>1, <4>2
    <3>4. QED
      BY <2>1, <3>2, <3>3
  <2>5. WaitsOK'
    BY <1>2, <1>5, <1>6, <2>1, <2>2, <2>3, <2>4 DEF WInv, WaitsOK
  <2>6. QED
    BY <1>1, <1>3, <2>5 DEF WInv
<1>7. CASE ~Notified(p)
  <2>1. Behind2' = Behind2 /\ \A k : Enough(k)' <=> Enough(k)
    BY <1>2, <1>7 DEF Behind2, Enough
  <2>2. WaitsOK'
    BY <1>2, <1>5, <1>7, <2>1 DEF WInv, WaitsOK
  <2>3. QED
    BY <1>1, <1>3, <2>2 DEF WInv
<1>8. QED
  BY <1>6, <1>7

LEMMA DeathsKeep ==
  ASSUME PInv, WInv, TellParent(WRITER) \/ TellParent(READER) \/ JobEnds, UNCHANGED <<commands, waits_left>>
  PROVE  WInv'
<1> USE Names
<1>1. /\ closing => pc[WRITER] # "run"
      /\ WRITER \in told => pc[WRITER] # "tell"
      /\ pc[WRITER] = "tell" => closing
  BY DEF WInv, DeathsOK, PInv, OwnersOK
<1>2. ASSUME NEW p \in Sides, TellParent(p) PROVE WInv'
  <2>1. pc[p] = "tell" /\ pc'[p] = "hand" /\ \A q \in Proc \ {p} : pc'[q] = pc[q]
    BY <1>2, SideGoes DEF TellParent, Place, WriterPlace, ReaderPlace
  <2>2. /\ Tell(p) /\ queue' = queue /\ closing' = closing
        /\ p_state'[SHELL] = IF Notified(p) THEN "READY" ELSE p_state[SHELL]
    BY <1>2, Types DEF TellParent, setState, sems
  <2>3. pc'[SHELL] = pc[SHELL] /\ (p = WRITER => pc'[READER] = pc[READER])
        /\ (p = READER => pc'[WRITER] = pc[WRITER])
    BY <2>1 DEF Sides
  <2>4. /\ closing' => pc'[WRITER] # "run"
        /\ p = WRITER \/ WRITER \in told => pc'[WRITER] # "tell"
    BY <1>1, <2>1, <2>2, <2>3 DEF Sides
  <2>5. /\ p = READER => pc[READER] = "tell" /\ pc'[READER] \in Closed
        /\ p = WRITER => closing /\ pc[WRITER] = "tell"
        /\ pc[READER] \in Closed => pc'[READER] \in Closed
    BY <1>1, <2>1, <2>3 DEF Sides, Closed
  <2>6. QED
    BY <2>2, <2>3, <2>4, <2>5, DeathCounts DEF Sides
<1>3. CASE JobEnds
  <2>1. Tell(JOB) /\ queue' = queue /\ pc' = pc /\ closing' = closing
    BY <1>3 DEF JobEnds, kill
  <2>2. p_state'[SHELL] = IF Notified(JOB) THEN "READY" ELSE p_state[SHELL]
    BY <1>3, Types DEF JobEnds, kill
  <2>3. QED
    BY <1>1, <2>1, <2>2, DeathCounts
<1>4. QED
  BY <1>2, <1>3 DEF Sides

(* What the shell does by itself leaves the two sides alone.               *)
LEMMA ShellAside ==
  ASSUME PInv, WInv, NEW from, NEW to \in Place, Go(SHELL, from, to),
         queue' = queue, closing' = closing, told' \subseteq told
  PROVE  /\ QueueOK' /\ DeathsOK' /\ pc[SHELL] = from /\ pc'[SHELL] = to /\ p_state[SHELL] = "READY"
<1> USE Names
<1>1. /\ pc[SHELL] = from /\ pc'[SHELL] = to /\ p_state[SHELL] = "READY"
      /\ pc'[WRITER] = pc[WRITER] /\ pc'[READER] = pc[READER]
  <2>1. SHELL \in Proc /\ SHELL \notin Sides /\ WRITER \in Proc \ {SHELL} /\ READER \in Proc \ {SHELL}
    BY DEF Sides
  <2>2. pc[SHELL] = from /\ pc'[SHELL] = to /\ p_state[SHELL] = "READY" /\ \A q \in Proc \ {SHELL} : pc'[q] = pc[q]
    BY <2>1, GoFacts
  <2>3. QED
    BY <2>1, <2>2
<1>2. QueueOK' /\ DeathsOK'
  BY <1>1 DEF WInv, QueueOK, DeathsOK
<1>3. QED
  BY <1>1, <1>2

LEMMA ShellKeeps ==
  ASSUME PInv, WInv, Enter \/ ShellGoesOn
  PROVE  WInv'
<1> USE Names DEF Place
<1>1. CASE Enter
  <2>1. /\ Go(SHELL, "prompt", "start") /\ UNCHANGED <<queue, closing, told, waits_left, p_state>>
    BY <1>1 DEF Enter, Unpiped, sems, waits
  <2>2. QueueOK' /\ DeathsOK' /\ pc'[SHELL] = "start" /\ p_state[SHELL] = "READY"
    BY <2>1, ShellAside
  <2>3. WaitsOK'
    BY <2>1, <2>2 DEF WInv, WaitsOK
  <2>4. QED
    BY <2>2, <2>3 DEF WInv
<1>2. CASE Refuse
  <2>1. /\ Go(SHELL, "start", "prompt") /\ UNCHANGED <<queue, closing, told, waits_left, p_state, commands>>
        /\ ~Runnable
    BY <1>2 DEF Refuse, Unpiped, sems, waits, prompt
  <2>2. QueueOK' /\ DeathsOK' /\ pc'[SHELL] = "prompt" /\ p_state[SHELL] = "READY"
    BY <2>1, ShellAside
  <2>3. ~Both'
    BY <2>1 DEF Both, Runnable
  <2>4. WaitsOK'
    BY <2>1, <2>2, <2>3 DEF WInv, WaitsOK
  <2>5. QED
    BY <2>2, <2>4 DEF WInv
<1>3. CASE StartOne
  <2>1. /\ Go(SHELL, "start", AfterStart) /\ UNCHANGED <<queue, closing, told, commands>>
        /\ waits_left' = Waits /\ Len(commands) = 1
        /\ setState(JOB, "READY")
    BY <1>3 DEF StartOne, Started, setState, waits, prompt
  <2>2. AfterStart \in Place /\ (AfterStart = "wait" \/ AfterStart = "prompt") /\ Waits \in 0 .. 1
        /\ (AfterStart = "wait" => Waits = 1)
    BY <2>1 DEF AfterStart, Waits
  <2>3. QueueOK' /\ DeathsOK' /\ pc'[SHELL] = AfterStart /\ p_state[SHELL] = "READY"
    BY <2>1, <2>2, ShellAside
  <2>4. ~Both' /\ p_state'[SHELL] = "READY"
    BY <2>1, <2>3, Types DEF Both, setState
  <2>5. WaitsOK'
    BY <2>1, <2>2, <2>3, <2>4 DEF WaitsOK
  <2>6. QED
    BY <2>3, <2>5 DEF WInv
<1>4. CASE OpenFd
  <2>1. /\ Go(SHELL, "start", "create_writer") /\ UNCHANGED <<queue, closing, waits_left, p_state, commands>>
        /\ told' = {} /\ Len(commands) = 2
    BY <1>4 DEF OpenFd, openFd, prompt
  <2>2. QueueOK' /\ DeathsOK' /\ pc'[SHELL] = "create_writer" /\ p_state[SHELL] = "READY"
    BY <2>1, ShellAside
  <2>3. WaitsOK'
    BY <2>1, <2>2 DEF WInv, WaitsOK
  <2>4. QED
    BY <2>2, <2>3 DEF WInv
<1>5. CASE StartWriter
  <2>1. /\ Go(SHELL, "create_writer", "create_reader") /\ UNCHANGED <<queue, closing, told, waits_left, commands>>
        /\ setState(WRITER, "READY")
    BY <1>5 DEF StartWriter, CreateWriter, Started, setState, waits, prompt
  <2>2. /\ QueueOK' /\ DeathsOK' /\ pc[SHELL] = "create_writer" /\ pc'[SHELL] = "create_reader"
        /\ p_state[SHELL] = "READY"
    BY <2>1, ShellAside
  <2>3. p_state'[SHELL] = "READY"
    BY <2>1, <2>2, Types DEF setState
  <2>4. WaitsOK'
    BY <2>1, <2>2, <2>3 DEF WInv, WaitsOK
  <2>5. QED
    BY <2>2, <2>4 DEF WInv
<1>6. CASE StartReader
  <2>1. /\ Go(SHELL, "create_reader", AfterStart) /\ UNCHANGED <<queue, closing, told, commands>>
        /\ setState(READER, "READY") /\ waits_left' = Waits
    BY <1>6 DEF StartReader, createReader, setState, waits, prompt
  <2>2. AfterStart \in Place
    BY DEF AfterStart
  <2>3. /\ QueueOK' /\ DeathsOK' /\ pc[SHELL] = "create_reader" /\ pc'[SHELL] = AfterStart
        /\ p_state[SHELL] = "READY"
    BY <2>1, <2>2, ShellAside
  <2>4. Len(commands) = 2
    BY <2>3 DEF WInv, WaitsOK
  <2>5. /\ Foreground => Waits = 2 /\ AfterStart = "wait"
        /\ ~Foreground => Waits = 0 /\ AfterStart = "prompt"
    BY <2>4 DEF AfterStart, Waits
  <2>6. /\ p_state'[SHELL] = "READY"
        /\ Both' => Foreground
    BY <2>1, <2>3, Types DEF Both, Foreground, setState
  <2>7. Enough(0)'
    BY DEF Enough
  <2>8. WaitsOK'
    BY <2>1, <2>3, <2>5, <2>6, <2>7 DEF WaitsOK
  <2>9. QED
    BY <2>3, <2>8 DEF WInv
<1>7. CASE WaitPid
  <2>1. /\ Go(SHELL, "wait", "waiting") /\ UNCHANGED <<queue, closing, told, commands>>
        /\ waiting_pid' = Awaited /\ setState(SHELL, "BLOCKED") /\ waits_left' = waits_left - 1
    BY <1>7 DEF WaitPid, waitPid, setState, prompt
  <2>2. QueueOK' /\ DeathsOK' /\ pc[SHELL] = "wait" /\ pc'[SHELL] = "waiting"
    BY <2>1, ShellAside
  <2>3. p_state'[SHELL] = "BLOCKED"
    BY <2>1, Types DEF setState
  <2>4. waits_left \in 1 .. 2 /\ (Both => Enough(2 - waits_left))
    BY <2>2 DEF WInv, WaitsOK
  <2>5. Behind2' = 2 - waits_left /\ waits_left' \in 0 .. 1
    BY <2>1, <2>3, <2>4 DEF Behind2
  <2>6. (Both' <=> Both) /\ (Both => Awaited = ANY)
    <3>1. Both' <=> Both
      BY <2>1 DEF Both, Runnable, Foreground
    <3>2. ASSUME Both PROVE Awaited = ANY
      <4>1. Len(commands) = 2
        BY <3>2 DEF Both
      <4>2. Len(commands) # 1
        <5> HIDE DEF Both
        <5>1. QED
          BY <4>1
      <4>3. QED
        BY <4>2, Zenon DEF Awaited
    <3>3. QED
      BY <3>1, <3>2, Zenon
  <2>7. Enough(2 - waits_left) => Enough(Behind2)'
    <3>1. UNCHANGED told /\ Behind2' = 2 - waits_left
      BY <2>1, <2>5
    <3> HIDE DEF Behind2
    <3>2. QED
      BY <3>1, Zenon DEF Enough
  <2>8. WaitsOK'
    <3>1. Both' => waiting_pid' = ANY /\ Enough(Behind2)'
      BY <2>1, <2>4, <2>6, <2>7
    <3>2. waits_left' \in 0 .. 2
      BY <2>5
    <3> HIDE DEF Behind2, Both
    <3>3. QED
      BY <2>2, <2>5, <3>1, <3>2 DEF WaitsOK
  <2>9. QED
    BY <2>2, <2>8 DEF WInv
<1>8. CASE Waited
  <2> DEFINE to == IF waits_left > 0 THEN "wait" ELSE "prompt"
  <2>1. /\ Go(SHELL, "waiting", to) /\ to \in Place
        /\ UNCHANGED <<queue, closing, told, commands, waits_left, p_state>>
    BY <1>8 DEF Waited, Unpiped, sems, waits, prompt
  <2> HIDE DEF to
  <2>2. QueueOK' /\ DeathsOK' /\ pc[SHELL] = "waiting" /\ pc'[SHELL] = to /\ p_state[SHELL] = "READY"
    BY <2>1, ShellAside
  <2>3. waits_left \in 0 .. 1 /\ (Both => Enough(2 - waits_left))
    BY <2>2 DEF WInv, WaitsOK, Behind2
  <2>4. (Both' <=> Both) /\ (Enough(2 - waits_left)' <=> Enough(2 - waits_left))
    BY <2>1 DEF Both, Runnable, Foreground, Enough
  <2>5. WaitsOK'
    BY <2>1, <2>2, <2>3, <2>4 DEF WaitsOK, to
  <2>6. QED
    BY <2>2, <2>5 DEF WInv
<1>9. QED
  BY <1>1, <1>2, <1>3, <1>4, <1>5, <1>6, <1>7, <1>8 DEF ShellGoesOn

LEMMA WaitsInductive == Spec => []WInv
<1>1. Init => WInv
  <2> SUFFICES ASSUME Init PROVE WInv
    OBVIOUS
  <2> USE Names
  <2>1. <<>> \in Seq(Sides)
    OBVIOUS
  <2>2. QueueOK
    BY <2>1 DEF Init, PipeInit, QueueOK
  <2>3. DeathsOK
    BY DEF Init, PipeInit, DeathsOK
  <2>4. WaitsOK
    BY DEF Init, PipeInit, WaitsOK, Both
  <2>5. QED
    BY <2>2, <2>3, <2>4 DEF WInv
<1>2. PInv /\ WInv /\ [Next]_vars => WInv'
  <2> SUFFICES ASSUME PInv, WInv, [Next]_vars PROVE WInv'
    OBVIOUS
  <2>1. CASE Enter \/ ShellGoesOn
    BY <2>1, ShellKeeps
  <2>2. CASE JobEnds \/ WriterGoesOn \/ ReaderGoesOn \/ OrphanEnds \/ Interrupted
    <3>1. UNCHANGED <<commands, waits_left>>
      BY <2>2 DEF JobEnds, WriterGoesOn, ReaderGoesOn, OrphanEnds, Interrupted, HandOver, Running, prompt
    <3>2. \/ JobEnds \/ TellParent(WRITER) \/ TellParent(READER)
          \/ Quiet \/ WriterDies \/ ReaderDies \/ GivesUp \/ Tick
      BY <2>2 DEF WriterGoesOn, ReaderGoesOn, OrphanEnds, Interrupted, Writer, Reader, Quiet, Sides
    <3>3. QED
      BY <3>1, <3>2, DeathsKeep, SidesCalm, DyingCalm, TickCalm
  <2>4. CASE UNCHANGED vars
    <3>1. UNCHANGED <<queue, commands, waits_left, waits, closing, pc, p_state>>
      BY <2>4 DEF vars, pipeVars, sems, prompt
    <3>2. QueueOK' /\ (closing => pc[WRITER] # "run") /\ (WRITER \in told => pc[WRITER] # "tell")
      BY <3>1 DEF WInv, QueueOK, DeathsOK
    <3>3. QED
      BY <3>1, <3>2, CalmStep
  <2>5. QED
    BY <2>1, <2>2, <2>4 DEF Next
<1>3. QED
  BY <1>1, <1>2, PipeInductive, PTL DEF Spec

(* Whatever the sizes, and whenever the sides and the job end: the prompt  *)
(* is back after a pipe in the foreground when both sides have ended, or a *)
(* job has ended in the meantime.                                          *)
THEOREM PromptIsLate == Spec => []PromptMeansDone
<1>1. WInv => PromptMeansDone
  <2> SUFFICES ASSUME WInv, pc[SHELL] = "prompt", Both, JOB \notin told
               PROVE  Ended(WRITER) /\ Ended(READER)
    BY DEF PromptMeansDone, Both
  <2>1. WRITER \in told /\ READER \in told
    BY DEF WInv, WaitsOK, Enough
  <2>2. QED
    BY <2>1, Names DEF WInv, DeathsOK, Ended, Closed
<1>2. QED
  BY <1>1, WaitsInductive, PTL
-----------------------------------------------------------------------------
(* The variables of the prompt.                                            *)

PromptOK ==
  /\ line \in Lines \cup {<<>>} /\ lines \in 0 .. MaxLines
  /\ DOMAIN arguments = 1 .. MAX_ARGS
  /\ Len(commands) \in 0 .. 2
  /\ keyboard \in {SHELL, WRITER, JOB}
  /\ waiting_pid \in {NOT_WAITING, ANY, JOB}

(* One command, or the two of a pipe.                                      *)
LEMMA OneOrTwo ==
  ASSUME NEW array, NEW argc, NEW found \in prepareCommands(array, argc)
  PROVE  Len(found) \in 0 .. 2
<1> DEFINE pipe == hasPipe(array, argc)
           left == getCommand(Words(array, pipe - 1))
           right == getCommand(Words(argAux(array, pipe), argc - pipe))
           alone == getCommand(Words(array, argc))
<1>1. prepareCommands(array, argc) = IF pipe > 1 THEN left \X right ELSE {<<c>> : c \in alone}
  BY DEF prepareCommands
<1> HIDE DEF pipe, left, right, alone
<1>2. CASE found \in left \X right
  <2>1. PICK c \in left, d \in right : found = <<c, d>>
    BY <1>2
  <2>2. Len(<<c, d>>) = 2
    OBVIOUS
  <2>3. QED
    BY <2>1, <2>2
<1>3. CASE found \in {<<c>> : c \in alone}
  <2>1. PICK c \in alone : found = <<c>>
    BY <1>3
  <2>2. Len(<<c>>) = 1
    OBVIOUS
  <2>3. QED
    BY <2>1, <2>2
<1>4. QED
  BY <1>1, <1>2, <1>3

LEMMA PromptStays ==
  ASSUME PromptOK, UNCHANGED <<prompt, waiting_pid>>, keyboard' \in {keyboard, SHELL, WRITER, JOB}
  PROVE  PromptOK'
BY DEF PromptOK, prompt

LEMMA PromptKeeps ==
  ASSUME PromptOK, [Next]_vars
  PROVE  PromptOK'
<1>1. CASE Enter
  <2>1. PICK typed \in Lines :
          /\ line' = typed /\ arguments' = parseArgs(arguments, typed)
          /\ commands' \in prepareCommands(arguments', Count(typed))
    BY <1>1 DEF Enter
  <2>2. lines < MaxLines /\ lines' = lines + 1 /\ keyboard' = keyboard /\ waiting_pid' = waiting_pid
    BY <1>1 DEF Enter, Unpiped, waits
  <2>3. lines' \in 0 .. MaxLines
    BY <2>2, PipelineAssumption DEF PromptOK, PipelineAssumption
  <2>4. DOMAIN arguments' = 1 .. MAX_ARGS
    BY <2>1 DEF parseArgs
  <2>5. Len(commands') \in 0 .. 2
    BY <2>1, OneOrTwo
  <2>6. QED
    BY <2>1, <2>2, <2>3, <2>4, <2>5 DEF PromptOK
<1>2. CASE WaitPid
  <2>1. waiting_pid' \in {ANY, JOB} /\ UNCHANGED <<prompt, keyboard>>
    BY <1>2 DEF WaitPid, waitPid, Awaited
  <2>2. QED
    BY <2>1 DEF PromptOK, prompt
<1>3. CASE ShellGoesOn /\ ~WaitPid
  <2>1. UNCHANGED <<prompt, waiting_pid>>
    BY <1>3 DEF ShellGoesOn, Refuse, StartOne, OpenFd, openFd, StartWriter, CreateWriter, StartReader, createReader,
       Waited, Started, Unpiped, waits
  <2>2. keyboard' \in {keyboard, SHELL, WRITER, JOB}
    BY <1>3 DEF ShellGoesOn, Refuse, StartOne, OpenFd, StartWriter, StartReader, Waited, Started
  <2>3. QED
    BY <2>1, <2>2, PromptStays
<1>4. CASE JobEnds \/ WriterGoesOn \/ ReaderGoesOn \/ OrphanEnds \/ Interrupted
  <2>1. UNCHANGED <<prompt, waiting_pid>>
    BY <1>4 DEF JobEnds, WriterGoesOn, ReaderGoesOn, OrphanEnds, Interrupted, WriterDies, ReaderDies, GivesUp, Tick,
       Die, TellParent, Tell, HandKeyboard, HandOver, Running, Writer, Reader,
       Write, WaitToWrite, Put, Written, Read, WaitToRead, Get, HasRead, closeFd, Exit, waits
  <2>2. keyboard' \in {keyboard, SHELL, WRITER, JOB}
    BY <1>4 DEF JobEnds, WriterGoesOn, ReaderGoesOn, OrphanEnds, Interrupted, HandOver, Running
  <2>3. QED
    BY <2>1, <2>2, PromptStays
<1>5. CASE UNCHANGED vars
  BY <1>5, PromptStays DEF vars, pipeVars, waits
<1>6. QED
  BY <1>1, <1>2, <1>3, <1>4, <1>5 DEF Next

(* Type correctness, with buffers of any size, any number of bytes that    *)
(* PipeAssumption allows, and whatever the user types.                     *)
THEOREM PipelineTyped == Spec => []TypeOK
<1>1. Init => PromptOK
  <2> SUFFICES ASSUME Init PROVE PromptOK
    OBVIOUS
  <2>1. MaxLines \in Nat
    BY PipelineAssumption DEF PipelineAssumption
  <2>2. Len(commands) = 0
    BY DEF Init
  <2>3. QED
    BY <2>1, <2>2, Names DEF Init, PipeInit, PromptOK, NOT_WAITING
<1>2. PromptOK /\ [Next]_vars => PromptOK'
  BY PromptKeeps
<1>3. PInv /\ WInv /\ PromptOK => TypeOK
  <2> SUFFICES ASSUME PInv, WInv, PromptOK PROVE TypeOK
    OBVIOUS
  <2> USE DEF PInv
  <2>1. SemTypeOK(Sem, Proc) /\ fd_open \in BOOLEAN /\ pc \in [Proc -> Place]
    BY DEF KernelOK, PlaceOK
  <2>2. /\ buff \in [0 .. BUFF_SIZE - 1 -> Nat \cup {EOF}]
        /\ readIdx \in 0 .. BUFF_SIZE - 1 /\ writeIdx \in 0 .. BUFF_SIZE - 1 /\ used \in 0 .. BUFF_SIZE
    BY DEF RingOK, Ring
  <2>3. writer_pid \in {NOBODY, SHELL, WRITER} /\ reader_pid \in {NOBODY, READER}
    BY DEF OwnersOK
  <2>4. told \subseteq Proc /\ waits_left \in 0 .. 2
    BY Names DEF WInv, DeathsOK, WaitsOK
  <2>5. closing \in BOOLEAN /\ sent \in 0 .. MaxBytes /\ received \in Seq(Nat \cup {EOF})
    BY DEF SentOK
  <2>8. exiting \in {NOBODY, WRITER, READER, WRECK} /\ relisted \subseteq Proc /\ dropped \in BOOLEAN
    BY DEF ExitOK
  <2>6. PipeTypeOK
    BY <2>1, <2>2, <2>3, <2>4, <2>5, <2>8 DEF PipeTypeOK, PromptOK
  <2>7. QED
    BY <2>4, <2>6 DEF TypeOK, PromptOK
<1>4. QED
  BY <1>1, <1>2, <1>3, PipeInductive, WaitsInductive, PTL DEF Spec
=============================================================================
