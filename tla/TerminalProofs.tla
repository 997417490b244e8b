--------------------------- MODULE TerminalProofs ---------------------------
(***************************************************************************)
(* What holds of the terminal for buffers of any size and any keyboard     *)
(* whose keys send one byte each.                                          *)
(***************************************************************************)
EXTENDS Terminal, CommonProofs

OneByteKeys == E_KEYS \notin Strokes

-----------------------------------------------------------------------------
(* The inductive invariant, in parts.                                      *)

KernelOK == SemTypeOK(Sem, Proc) /\ open = Sem /\ lost = {}

RingOK ==
  /\ buff \in [0 .. BUFF_SIZE - 1 -> Code]
  /\ readIdx \in 0 .. BUFF_SIZE - 1 /\ writeIdx \in 0 .. BUFF_SIZE - 1
  /\ used \in 0 .. BUFF_SIZE

(* The owner of the foreground is the reader; the shell asks for a key     *)
(* between two commands only, and is never killed.                         *)
OwnerOK ==
  /\ reader_pid \in {SHELL, COMMAND} /\ fg_pid = reader_pid
  /\ pc \in [Proc -> Place]
  /\ SHELL \in inside[read_fd_0] => pc[SHELL] = "read"
  /\ p_state[SHELL] # "TERMINATED"

IInv == KernelOK /\ RingOK /\ OwnerOK /\ PermitsMatch /\ ReaderAsks

-----------------------------------------------------------------------------
(* Arithmetic of the ring.                                                 *)

LEMMA Size == BUFF_SIZE \in Nat \ {0} /\ UsedSpan \in Nat /\ UsedSpan > BUFF_SIZE
  BY TerminalAssumption DEF TerminalAssumption

LEMMA PlaceBehind ==
  ASSUME NEW r \in 0 .. BUFF_SIZE - 1, NEW n \in 0 .. BUFF_SIZE
  PROVE  /\ (r + n) % BUFF_SIZE = Behind(BUFF_SIZE, r, n)
         /\ Behind(BUFF_SIZE, r, n) \in 0 .. BUFF_SIZE - 1
  BY Size, BehindIs

LEMMA NextIs ==
  ASSUME NEW r \in 0 .. BUFF_SIZE - 1
  PROVE  NextIdx(r) = Behind(BUFF_SIZE, r, 1) /\ NextIdx(r) \in 0 .. BUFF_SIZE - 1
  BY Size, PlaceBehind DEF NextIdx

-----------------------------------------------------------------------------
(* Each step keeps the invariant.                                          *)

LEMMA Kernel ==
  ASSUME KernelOK
  PROVE  /\ read_fd_0 \in open /\ value[read_fd_0] \in Nat
         /\ value \in [Sem -> Nat] /\ inside \in [Sem -> SUBSET Proc]
         /\ p_state \in [Proc -> {"READY", "BLOCKED", "TERMINATED"}]
         /\ Sem = {read_fd_0} /\ Proc = {SHELL, COMMAND, JOB}
  BY DEF KernelOK, SemTypeOK, Sem, Proc

(* A byte is written.                                                      *)
LEMMA WriteKeeps ==
  ASSUME IInv, NEW code \in Code, write(code)
  PROVE  IInv'
<1> USE DEF IInv
<1>1. /\ buff' = [buff EXCEPT ![writeIdx] = code]
      /\ writeIdx' = NextIdx(writeIdx)
      /\ UNCHANGED <<running, clearing>>
  BY DEF write
<1>2. writeIdx' \in 0 .. BUFF_SIZE - 1 /\ writeIdx' = Behind(BUFF_SIZE, writeIdx, 1)
  BY <1>1, NextIs DEF RingOK
<1>3. writeIdx = Behind(BUFF_SIZE, readIdx, used)
  BY PlaceBehind DEF RingOK, PermitsMatch
<1>4. CASE HasRoom
  <2>1. used' = used + 1 /\ semPost(read_fd_0) /\ readIdx' = readIdx /\ used < BUFF_SIZE
    BY <1>4 DEF write, HasRoom
  <2>2. /\ SemTypeOK(Sem, Proc)'
        /\ value' = [value EXCEPT ![read_fd_0] = @ + 1]
        /\ UNCHANGED <<open, inside, lost>>
        /\ \A p \in Proc : p_state'[p] = "TERMINATED" <=> p_state[p] = "TERMINATED"
    BY <2>1, Kernel, PostFacts DEF KernelOK
  <2>3. KernelOK' /\ value'[read_fd_0] = used'
    BY <2>1, <2>2, Kernel DEF KernelOK, PermitsMatch
  <2>4. RingOK'
    BY <1>1, <1>2, <2>1, Size DEF RingOK
  <2>5. writeIdx' = Behind(BUFF_SIZE, readIdx, used + 1)
    BY <1>2, <1>3, <2>1, Size DEF Behind, RingOK
  <2>6. PermitsMatch'
    BY <1>1, <2>1, <2>3, <2>4, <2>5, PlaceBehind DEF PermitsMatch, RingOK
  <2>7. OwnerOK' /\ ReaderAsks'
    BY <1>1, <2>2, Kernel DEF OwnerOK, ReaderAsks, running
  <2>8. QED
    BY <2>3, <2>4, <2>6, <2>7
<1>5. CASE ~HasRoom
  <2>1. readIdx' = writeIdx' /\ UNCHANGED <<sems, used>> /\ used = BUFF_SIZE
    BY <1>1, <1>5, Size DEF write, HasRoom, OldestGone, RingOK
  <2>2. RingOK'
    BY <1>1, <1>2, <2>1, Size DEF RingOK
  <2>3. writeIdx' = Behind(BUFF_SIZE, readIdx', used')
    BY <1>2, <2>1, Size DEF Behind
  <2>4. PermitsMatch'
    BY <1>1, <2>1, <2>2, <2>3, PlaceBehind DEF PermitsMatch, RingOK, sems
  <2>5. KernelOK' /\ OwnerOK' /\ ReaderAsks'
    BY <1>1, <2>1 DEF KernelOK, SemTypeOK, OwnerOK, ReaderAsks, running, sems
  <2>6. QED
    BY <2>2, <2>4, <2>5
<1>6. QED
  BY <1>4, <1>5

(* A death.                                                                *)
LEMMA KilledKeeps ==
  ASSUME IInv, NEW p \in {COMMAND, JOB}, killed(p), UNCHANGED <<open, queue, lost>>,
         value' \in [Sem -> Nat]
  PROVE  KernelOK' /\ OwnerOK' /\ ReaderAsks'
<1> USE DEF IInv
<1>1. /\ p_state' = [p_state EXCEPT ![p] = "TERMINATED",
                                    ![SHELL] = IF p = COMMAND /\ pc[SHELL] = "waiting" THEN "READY" ELSE @]
      /\ inside' = [inside EXCEPT ![read_fd_0] = @ \ {p}]
      /\ pc' = [pc EXCEPT ![p] = "dead"]
      /\ reader_pid' = (IF p = COMMAND THEN SHELL ELSE reader_pid)
      /\ fg_pid' = IF p = COMMAND THEN SHELL ELSE fg_pid
  BY DEF killed, Heir
<1>2. p \in Proc /\ p # SHELL /\ SHELL # COMMAND /\ JOB # COMMAND /\ SHELL \in Proc
  BY DEF Proc, SHELL, COMMAND, JOB
<1>3. KernelOK'
  BY <1>1, <1>2, Kernel DEF KernelOK, SemTypeOK
<1>4. OwnerOK'
  <2>1. p_state'[SHELL] # "TERMINATED"
    BY <1>1, <1>2, Kernel DEF OwnerOK
  <2>2. pc' \in [Proc -> Place] /\ pc'[SHELL] = pc[SHELL]
    BY <1>1, <1>2 DEF OwnerOK, Place
  <2>3. inside'[read_fd_0] \subseteq inside[read_fd_0]
    BY <1>1, Kernel
  <2>4. reader_pid' \in {SHELL, COMMAND} /\ fg_pid' = reader_pid'
    BY <1>1 DEF OwnerOK
  <2>5. QED
    BY <2>1, <2>2, <2>3, <2>4 DEF OwnerOK
<1>5. ReaderAsks'
  <2>1. CASE p = COMMAND
    BY <1>1, <1>2, <2>1, Kernel DEF ReaderAsks, OwnerOK
  <2>2. CASE p = JOB
    BY <1>1, <1>2, <2>2, Kernel DEF ReaderAsks, OwnerOK
  <2>3. QED
    BY <2>1, <2>2
<1>6. QED
  BY <1>3, <1>4, <1>5

(* ctrl-C finds a permit for each byte, and nobody is put to sleep.        *)
LEMMA CtrlCKeeps ==
  ASSUME IInv, ctrl_C
  PROVE  IInv'
<1> USE DEF IInv
<1>1. used <= value[read_fd_0]
  BY Kernel DEF PermitsMatch
<1>2. /\ readIdx' = writeIdx /\ used' = 0
      /\ UNCHANGED <<open, lost, buff, writeIdx, queue, clearing>>
      /\ value' = [value EXCEPT ![read_fd_0] = 0]
  BY <1>1, Kernel DEF ctrl_C, PermitsLeft, PermitsMatch
<1>3. RingOK'
  BY <1>2, Size DEF RingOK
<1>4. PermitsMatch'
  <2>1. writeIdx = Behind(BUFF_SIZE, writeIdx, 0)
    BY Size DEF Behind, RingOK
  <2>2. (readIdx' + used') % BUFF_SIZE = writeIdx
    BY <1>2, <2>1, PlaceBehind, Size DEF RingOK
  <2>3. QED
    BY <1>2, <2>2, Kernel DEF PermitsMatch
<1>5. value' \in [Sem -> Nat]
  BY <1>2, Kernel
<1>6. CASE fg_pid = SHELL
  <2>1. UNCHANGED <<p_state, inside, running>>
    BY <1>1, <1>6 DEF ctrl_C
  <2>2. KernelOK' /\ OwnerOK' /\ ReaderAsks'
    BY <1>2, <1>5, <2>1 DEF KernelOK, SemTypeOK, OwnerOK, ReaderAsks, running
  <2>3. QED
    BY <1>3, <1>4, <2>2
<1>7. CASE fg_pid # SHELL
  <2>1. killed(COMMAND)
    BY <1>1, <1>7 DEF ctrl_C, OwnerOK
  <2>2. QED
    BY <1>2, <1>3, <1>4, <1>5, <2>1, KilledKeeps
<1>8. QED
  BY <1>6, <1>7

LEMMA KeyKeeps ==
  ASSUME IInv, NEW key \in Strokes, keyboardHandler(key)
  PROVE  IInv'
<1>1. CASE ctrl_C
  BY <1>1, CtrlCKeeps
<1>2. CASE write(EOF)
  BY <1>2, WriteKeeps DEF Code
<1>3. CASE write(key)
  BY <1>3, WriteKeeps DEF Code
<1>4. CASE UNCHANGED <<sems, stdin, running, clearing>>
  BY <1>4 DEF IInv, KernelOK, SemTypeOK, RingOK, OwnerOK, PermitsMatch, ReaderAsks, sems, stdin, running
<1>5. QED
  BY <1>1, <1>2, <1>3, <1>4 DEF keyboardHandler

(* A byte is read, by the reader.                                          *)
LEMMA ReadKeeps ==
  ASSUME IInv, OneByteKeys, NEW p \in {SHELL, COMMAND}, readOnFile(p)
  PROVE  IInv'
<1> USE DEF IInv
<1>1. /\ pc[p] = "read" /\ p = reader_pid /\ semWait(read_fd_0, p)
      /\ UNCHANGED <<buff, writeIdx, reader_pid, fg_pid, clearing>>
  BY DEF readOnFile, ReaderAsks
<1>2. p \in Proc /\ SHELL \in Proc
  BY DEF Proc
<1>3. /\ SemTypeOK(Sem, Proc)'
      /\ UNCHANGED <<open, lost>>
      /\ \A q \in Proc : p_state'[q] = "TERMINATED" => p_state[q] = "TERMINATED"
      /\ Returns(read_fd_0, p) <=> value[read_fd_0] > 0
      /\ Returns(read_fd_0, p) => /\ value' = [value EXCEPT ![read_fd_0] = @ - 1]
                                  /\ inside' = [inside EXCEPT ![read_fd_0] = @ \ {p}]
                                  /\ p_state' = p_state
      /\ ~Returns(read_fd_0, p) => /\ value' = value
                                   /\ inside' = [inside EXCEPT ![read_fd_0] = @ \cup {p}]
  BY <1>1, <1>2, Kernel, WaitFacts DEF KernelOK
<1>4. KernelOK'
  BY <1>3 DEF KernelOK
<1>5. ReaderAsks'
  <2>1. inside'[read_fd_0] \subseteq {reader_pid}
    BY <1>1, <1>3, Kernel DEF ReaderAsks
  <2>2. reader_pid \in Proc
    BY <1>1, <1>2
  <2>3. QED
    BY <1>1, <1>3, <2>1, <2>2 DEF ReaderAsks
<1>6. CASE ~Returns(read_fd_0, p)
  <2>1. UNCHANGED <<readIdx, used, pc>> /\ value' = value
    BY <1>3, <1>6 DEF readOnFile
  <2>2. RingOK' /\ PermitsMatch'
    BY <1>1, <2>1 DEF RingOK, PermitsMatch
  <2>3. OwnerOK'
    BY <1>1, <1>2, <1>3, <1>6, <2>1, Kernel DEF OwnerOK
  <2>4. QED
    BY <1>4, <1>5, <2>2, <2>3
<1>7. CASE Returns(read_fd_0, p)
  <2>1. value[read_fd_0] = used /\ used > 0 /\ used \in 0 .. BUFF_SIZE
    BY <1>3, <1>7 DEF PermitsMatch, RingOK
  <2>2. Taken = 1
    <3>1. buff[readIdx] \in Code
      BY DEF RingOK
    <3>2. E_KEYS \notin Code
      BY DEF OneByteKeys, Code, E_KEYS, EOF, NUL, Down
    <3>3. QED
      BY <3>1, <3>2 DEF Taken, FirstByte
  <2>3. /\ readIdx' = (readIdx + 1) % BUFF_SIZE
        /\ used' = (used - 1) % UsedSpan
    BY <1>7, <2>2 DEF readOnFile
  <2>4. used' = used - 1 /\ used' \in 0 .. BUFF_SIZE
    BY <2>1, <2>3, Size, ModSmall
  <2>5. readIdx' = Behind(BUFF_SIZE, readIdx, 1) /\ readIdx' \in 0 .. BUFF_SIZE - 1
    <3>1. 1 \in 0 .. BUFF_SIZE /\ readIdx \in 0 .. BUFF_SIZE - 1
      BY Size DEF RingOK
    <3>2. QED
      BY <2>3, <3>1, PlaceBehind
  <2>6. RingOK'
    BY <1>1, <2>4, <2>5 DEF RingOK
  <2>7. Behind(BUFF_SIZE, Behind(BUFF_SIZE, readIdx, 1), used - 1) = Behind(BUFF_SIZE, readIdx, used)
    BY <2>1, Size DEF Behind, RingOK
  <2>8. PermitsMatch'
    <3>1. writeIdx = Behind(BUFF_SIZE, readIdx, used)
      BY PlaceBehind DEF RingOK, PermitsMatch
    <3>2. writeIdx' = (readIdx' + used') % BUFF_SIZE
      BY <1>1, <2>4, <2>5, <2>7, <3>1, PlaceBehind
    <3>3. value'[read_fd_0] = used'
      BY <1>3, <1>7, <2>1, <2>4, Kernel
    <3>4. QED
      BY <1>1, <3>2, <3>3 DEF PermitsMatch
  <2>9. pc' \in [Proc -> Place]
    <3>1. CASE Delivered = {}
      BY <1>7, <3>1 DEF readOnFile, OwnerOK
    <3>2. CASE Delivered # {}
      <4>1. PICK c \in Delivered : IF p = SHELL THEN shellHears(c) ELSE commandHears(c)
        BY <1>7, <3>2 DEF readOnFile
      <4>2. CASE shellHears(c)
        BY <4>2 DEF shellHears, OwnerOK, Place
      <4>3. CASE commandHears(c)
        BY <4>3 DEF commandHears, OwnerOK, Place
      <4>4. QED
        BY <4>1, <4>2, <4>3
    <3>3. QED
      BY <3>1, <3>2
  <2>10. OwnerOK'
    <3>1. SHELL \notin inside'[read_fd_0]
      BY <1>1, <1>3, <1>7, Kernel DEF ReaderAsks
    <3>2. p_state' = p_state
      BY <1>3, <1>7
    <3>3. QED
      BY <1>1, <2>9, <3>1, <3>2 DEF OwnerOK
  <2>11. QED
    BY <1>4, <1>5, <2>6, <2>8, <2>10
<1>8. QED
  BY <1>6, <1>7

(* The shell starts something, or waits for it.                            *)
LEMMA ShellKeeps ==
  ASSUME IInv, StartNothing \/ StartJob \/ StartCommand \/ WaitPid \/ Waited
  PROVE  IInv'
<1> USE DEF IInv
<1>1. /\ UNCHANGED <<stdin, clearing, open, value, queue, inside, lost>>
      /\ pc[SHELL] \in {"start", "wait", "waiting"}
  BY DEF StartNothing, StartJob, StartCommand, WaitPid, Waited, Step, setState, sems
<1>2. RingOK' /\ PermitsMatch'
  BY <1>1 DEF stdin, RingOK, PermitsMatch
<1>3. SHELL \notin inside[read_fd_0]
  BY <1>1 DEF OwnerOK
<1>4. SHELL \in Proc /\ COMMAND \in Proc /\ JOB \in Proc /\ SHELL # COMMAND /\ SHELL # JOB /\ JOB # COMMAND
  BY DEF Proc, SHELL, COMMAND, JOB
<1>5. CASE StartNothing \/ Waited
  <2>1. UNCHANGED <<sems, reader_pid, fg_pid>> /\ pc' = [pc EXCEPT ![SHELL] = "read"]
    BY <1>5 DEF StartNothing, Waited, Step
  <2>2. QED
    BY <1>1, <1>2, <1>3, <2>1 DEF KernelOK, SemTypeOK, OwnerOK, ReaderAsks, Place, sems
<1>6. CASE StartJob
  <2>1. /\ p_state' = [p_state EXCEPT ![JOB] = "READY"]
        /\ UNCHANGED <<reader_pid, fg_pid>> /\ pc' = [pc EXCEPT ![SHELL] = "read"]
    BY <1>6 DEF StartJob, Step, setState
  <2>2. KernelOK'
    BY <1>1, <2>1 DEF KernelOK, SemTypeOK
  <2>3. OwnerOK' /\ ReaderAsks'
    BY <1>1, <1>3, <1>4, <2>1, Kernel DEF OwnerOK, ReaderAsks, Place
  <2>4. QED
    BY <1>2, <2>2, <2>3
<1>7. CASE StartCommand
  <2>1. /\ p_state' = [p_state EXCEPT ![COMMAND] = "READY"]
        /\ reader_pid' = COMMAND /\ fg_pid' = COMMAND
        /\ pc' = [pc EXCEPT ![SHELL] = "wait", ![COMMAND] = IF program' = "other" THEN "run" ELSE "read"]
    BY <1>7 DEF StartCommand, setState
  <2>2. KernelOK'
    BY <1>1, <2>1 DEF KernelOK, SemTypeOK
  <2>3. OwnerOK'
    BY <1>1, <1>3, <1>4, <2>1, Kernel DEF OwnerOK, Place
  <2>4. ReaderAsks'
    BY <1>1, <1>3, <1>4, <2>1, Kernel DEF OwnerOK, ReaderAsks
  <2>5. QED
    BY <1>2, <2>2, <2>3, <2>4
<1>8. CASE WaitPid
  <2>1. /\ p_state' = [p_state EXCEPT ![SHELL] = "BLOCKED"]
        /\ UNCHANGED <<reader_pid, fg_pid>> /\ pc' = [pc EXCEPT ![SHELL] = "waiting"]
    BY <1>8 DEF WaitPid, Step, setState
  <2>2. KernelOK'
    BY <1>1, <2>1 DEF KernelOK, SemTypeOK
  <2>3. OwnerOK' /\ ReaderAsks'
    BY <1>1, <1>3, <1>4, <2>1, Kernel DEF OwnerOK, ReaderAsks, Place
  <2>4. QED
    BY <1>2, <2>2, <2>3
<1>9. QED
  BY <1>5, <1>6, <1>7, <1>8

LEMMA ExitKeeps ==
  ASSUME IInv, CommandExits \/ JobExits
  PROVE  IInv'
<1>1. PICK p \in {COMMAND, JOB} : Exit(p)
  BY DEF CommandExits, JobExits
<1>2. killed(p) /\ UNCHANGED <<open, value, queue, lost, stdin, clearing>>
  BY <1>1 DEF Exit
<1>3. KernelOK' /\ OwnerOK' /\ ReaderAsks'
  BY <1>2, KilledKeeps, Kernel DEF IInv
<1>4. RingOK' /\ PermitsMatch'
  BY <1>2 DEF IInv, RingOK, PermitsMatch, stdin
<1>5. QED
  BY <1>3, <1>4 DEF IInv

LEMMA InitKeeps == Init => IInv
<1> SUFFICES ASSUME Init PROVE IInv
  OBVIOUS
<1>1. KernelOK
  BY DEF Init, KernelOK, SemTypeOK, Sem
<1>2. RingOK
  BY Size DEF Init, RingOK, Code
<1>3. OwnerOK /\ ReaderAsks
  BY DEF Init, OwnerOK, ReaderAsks, Place, Sem, Proc
<1>4. PermitsMatch
  <2>1. 0 \in 0 .. BUFF_SIZE - 1 /\ 0 + 0 = 0
    BY Size
  <2>2. (0 + 0) % BUFF_SIZE = 0
    BY <2>1, Size, ModSmall
  <2>3. QED
    BY <2>2 DEF Init, PermitsMatch, Sem
<1>5. QED
  BY <1>1, <1>2, <1>3, <1>4 DEF IInv

LEMMA NextKeeps == OneByteKeys /\ IInv /\ [Next]_vars => IInv'
<1> SUFFICES ASSUME OneByteKeys, IInv, [Next]_vars PROVE IInv'
  OBVIOUS
<1>1. CASE Press
  BY <1>1, KeyKeeps DEF Press
<1>2. CASE readOnFile(SHELL) \/ readOnFile(COMMAND)
  BY <1>2, ReadKeeps
<1>3. CASE StartNothing \/ StartJob \/ StartCommand \/ WaitPid \/ Waited
  BY <1>3, ShellKeeps
<1>4. CASE CommandExits \/ JobExits
  BY <1>4, ExitKeeps
<1>5. CASE UNCHANGED vars
  BY <1>5 DEF vars, IInv, KernelOK, SemTypeOK, RingOK, OwnerOK, PermitsMatch, ReaderAsks,
              sems, stdin, running
<1>6. QED
  BY <1>1, <1>2, <1>3, <1>4, <1>5 DEF Next, Shell, Command

LEMMA Inductive ==
  ASSUME OneByteKeys
  PROVE  Spec => []IInv
<1>1. Init => IInv
  BY InitKeeps
<1>2. IInv /\ [Next]_vars => IInv'
  BY NextKeeps
<1>3. QED
  BY <1>1, <1>2, PTL DEF Spec

-----------------------------------------------------------------------------
(* Whatever the size of the buffer, and however keys, ctrl-C and processes *)
(* meet, clearSTDIN() finds a permit for each byte that is typed ahead, if *)
(* no key sends two.                                                       *)
THEOREM ClearNeverSleeps ==
  ASSUME OneByteKeys
  PROVE  Spec => []PermitsMatch
<1>1. IInv => PermitsMatch
  BY DEF IInv
<1>2. QED
  BY <1>1, Inductive, PTL

(* Nobody but the reader is in the call that waits for a key, and the      *)
(* reader is alive, if no key sends two bytes.                             *)
THEOREM ReaderAlwaysAsks ==
  ASSUME OneByteKeys
  PROVE  Spec => []ReaderAsks
<1>1. IInv => ReaderAsks
  BY DEF IInv
<1>2. QED
  BY <1>1, Inductive, PTL

-----------------------------------------------------------------------------
(* stdin implements the type-ahead.                                        *)

(* The steps of the type-ahead, as the ring sees them.                     *)
LEMMA PendingIs ==
  Pending = Slice(BUFF_SIZE, buff, readIdx, used) /\ Pending' = Slice(BUFF_SIZE, buff', readIdx', used')
  BY DEF Pending, Slice

LEMMA PressPresses ==
  ASSUME IInv, NEW code \in Strokes \cup {EOF}, write(code)
  PROVE  Promise!Press
<1> USE DEF IInv
<1>1. /\ buff \in Ring(BUFF_SIZE, Code) /\ readIdx \in 0 .. BUFF_SIZE - 1 /\ writeIdx \in 0 .. BUFF_SIZE - 1
      /\ used \in 0 .. BUFF_SIZE /\ code \in Code /\ BUFF_SIZE \in Nat \ {0}
  BY Size DEF RingOK, Ring, Code
<1>2. writeIdx = Behind(BUFF_SIZE, readIdx, used)
  BY PlaceBehind DEF RingOK, PermitsMatch
<1>3. Len(Slice(BUFF_SIZE, buff, readIdx, used)) = used
  BY <1>1, SliceIs
<1>4. CASE HasRoom
  <2>1. used < BUFF_SIZE /\ used' = used + 1 /\ readIdx' = readIdx /\ buff' = [buff EXCEPT ![writeIdx] = code]
    BY <1>4 DEF write, HasRoom
  <2>2. Slice(BUFF_SIZE, buff', readIdx', used') = Append(Slice(BUFF_SIZE, buff, readIdx, used), code)
    <3>1. used \in 0 .. BUFF_SIZE - 1
      BY <1>1, <2>1
    <3>2. Slice(BUFF_SIZE, WrittenAt(buff, Behind(BUFF_SIZE, readIdx, used), code), readIdx, used + 1)
            = Append(Slice(BUFF_SIZE, buff, readIdx, used), code)
      BY <1>1, <3>1, SliceGrows
    <3>3. QED
      BY <1>2, <2>1, <3>2 DEF WrittenAt
  <2>3. QED
    BY <1>3, <2>1, <2>2, PendingIs DEF Promise!Press
<1>5. CASE ~HasRoom
  <2>1. used = BUFF_SIZE /\ ~(used < BUFF_SIZE)
    BY <1>1, <1>5 DEF HasRoom
  <2>2. writeIdx = readIdx
    BY <1>1, <1>2, <2>1 DEF Behind
  <2>3. used' = BUFF_SIZE /\ readIdx' = Behind(BUFF_SIZE, readIdx, 1) /\ buff' = [buff EXCEPT ![readIdx] = code]
    BY <1>1, <1>5, <2>1, <2>2, NextIs DEF write, OldestGone
  <2>4. Slice(BUFF_SIZE, buff', readIdx', used') = Append(Tail(Slice(BUFF_SIZE, buff, readIdx, used)), code)
    <3>1. Slice(BUFF_SIZE, WrittenAt(buff, readIdx, code), Behind(BUFF_SIZE, readIdx, 1), BUFF_SIZE)
            = Append(Tail(Slice(BUFF_SIZE, buff, readIdx, BUFF_SIZE)), code)
      BY <1>1, SliceTurns
    <3>2. QED
      BY <2>1, <2>3, <3>1 DEF WrittenAt
  <2>5. QED
    BY <1>3, <2>1, <2>4, PendingIs DEF Promise!Press
<1>6. QED
  BY <1>4, <1>5

LEMMA ReadReads ==
  ASSUME IInv, IInv', OneByteKeys, NEW p \in {SHELL, COMMAND}, readOnFile(p)
  PROVE  Promise!Read \/ UNCHANGED Pending
<1> USE DEF IInv
<1>1. buff' = buff
  BY DEF readOnFile
<1>2. CASE ~Returns(read_fd_0, p)
  BY <1>1, <1>2, PendingIs DEF readOnFile
<1>3. CASE Returns(read_fd_0, p)
  <2>1. /\ buff \in Ring(BUFF_SIZE, Code) /\ readIdx \in 0 .. BUFF_SIZE - 1 /\ used \in 0 .. BUFF_SIZE
        /\ 1 \in 0 .. BUFF_SIZE
    BY Size DEF RingOK, Ring
  <2>2. buff[readIdx] \in Code /\ E_KEYS \notin Code
    BY DEF RingOK, OneByteKeys, Code, E_KEYS, EOF, NUL, Down
  <2>3. Taken = 1
    BY <2>2 DEF Taken, FirstByte
  <2>4. value[read_fd_0] > 0 /\ used = value[read_fd_0]
    <3>1. p \in Proc /\ semWait(read_fd_0, p)
      BY DEF Proc, readOnFile
    <3>2. QED
      BY <1>3, <3>1, Kernel, WaitFacts DEF KernelOK, PermitsMatch
  <2>5. readIdx' = Behind(BUFF_SIZE, readIdx, 1) /\ used' = (used - 1) % UsedSpan
    BY <1>3, <2>1, <2>3, PlaceBehind DEF readOnFile
  <2>6. used' = used - 1 /\ used \in 1 .. BUFF_SIZE
    BY <2>1, <2>4, <2>5, Size, ModSmall
  <2>7. /\ Slice(BUFF_SIZE, buff, readIdx, used) # <<>>
        /\ Slice(BUFF_SIZE, buff', readIdx', used') = Tail(Slice(BUFF_SIZE, buff, readIdx, used))
    <3>1. /\ Slice(BUFF_SIZE, buff, readIdx, used) # <<>>
          /\ Slice(BUFF_SIZE, buff, Behind(BUFF_SIZE, readIdx, 1), used - 1)
               = Tail(Slice(BUFF_SIZE, buff, readIdx, used))
      BY <2>1, <2>6, Size, SliceShrinks
    <3>2. QED
      BY <1>1, <2>5, <2>6, <3>1
  <2>8. QED
    BY <1>1, <2>7, PendingIs DEF Promise!Read
<1>4. QED
  BY <1>2, <1>3

LEMMA StepSteps ==
  OneByteKeys /\ IInv /\ IInv' /\ [Next]_vars => [Promise!Next]_Pending
<1> SUFFICES ASSUME OneByteKeys, IInv, IInv', [Next]_vars PROVE [Promise!Next]_Pending
  OBVIOUS
<1>1. CASE Press
  <2>1. PICK key \in Strokes : keyboardHandler(key)
    BY <1>1 DEF Press
  <2>2. CASE ctrl_C
    <3>1. used' = 0
      BY <2>2, CtrlCKeeps, Kernel DEF ctrl_C, IInv, PermitsMatch
    <3>2. Pending' = <<>>
      BY <3>1 DEF Pending
    <3>3. QED
      BY <3>2 DEF Promise!Next, Promise!Forget
  <2>3. CASE write(EOF) \/ write(key)
    BY <2>3, PressPresses DEF Promise!Next
  <2>4. CASE UNCHANGED stdin
    BY <2>4 DEF stdin, Pending
  <2>5. QED
    BY <2>1, <2>2, <2>3, <2>4 DEF keyboardHandler
<1>2. CASE readOnFile(SHELL) \/ readOnFile(COMMAND)
  BY <1>2, ReadReads DEF Promise!Next
<1>3. CASE UNCHANGED stdin
  BY <1>3 DEF stdin, Pending
<1>4. Next => Press \/ readOnFile(SHELL) \/ readOnFile(COMMAND) \/ UNCHANGED stdin
  BY DEF Next, Shell, Command, StartNothing, StartJob, StartCommand, WaitPid, Waited, Step,
         CommandExits, JobExits, Exit
<1>5. QED
  BY <1>1, <1>2, <1>3, <1>4 DEF vars

(* The detailed terminal keeps what TypeAhead promises: the keys are read  *)
(* in their order and once, and only the oldest gives way in a full ring,  *)
(* if no key sends two bytes.                                              *)
THEOREM StdinIsTypeAhead ==
  ASSUME OneByteKeys
  PROVE  Spec => TypeAheadKept
<1>1. Init => Promise!Init
  BY DEF Init, Promise!Init, Pending
<1>2. IInv /\ IInv' /\ [Next]_vars => [Promise!Next]_Pending
  BY StepSteps
<1>3. QED
  BY <1>1, <1>2, Inductive, PTL DEF Spec, TypeAheadKept, Promise!Spec

-----------------------------------------------------------------------------
(* The line of the shell, for keyboards without a tab: shell() does not    *)
(* look at the end of the line for a tab.                                  *)
NoTab == \A key \in Strokes : key.name = "tab" => key.release

Text(b, n) == [k \in 1 .. n |-> b[k - 1]]

(* Nothing but the byte that has just come is left behind the line.        *)
LineOK ==
  /\ buffer \in [Cells -> Char] /\ idx \in Cells
  /\ \A k \in Cells : k > idx => buffer[k] = NUL
  /\ LineShown

ModeOK ==
  /\ ctrl_enabled \in BOOLEAN /\ ctrl_press \in BOOLEAN
  /\ program \in {"none", "cat", "wc", "other"} /\ i \in 0 .. CHAIN

(* Texts: as long as they say, one longer, one shorter.                    *)
LEMMA TextIs ==
  ASSUME NEW b \in [Cells -> Char], NEW n \in 0 .. LINE
  PROVE  Text(b, n) \in Seq(Char) /\ Len(Text(b, n)) = n
<1>1. n \in Nat /\ \A k \in 1 .. n : k - 1 \in Cells
  BY TerminalAssumption DEF Cells
<1>2. QED
  BY <1>1 DEF Text

LEMMA TextEqual ==
  ASSUME NEW b, NEW n \in Nat, NEW s \in Seq(Char), Len(s) = n,
         \A k \in 1 .. n : s[k] = b[k - 1], Text(b, n) \in Seq(Char)
  PROVE  s = Text(b, n)
<1>1. Len(Text(b, n)) = n /\ \A k \in 1 .. n : Text(b, n)[k] = b[k - 1]
  BY DEF Text
<1>2. QED
  BY <1>1, SeqEqual

LEMMA TextSame ==
  ASSUME NEW b, NEW c, NEW n \in Nat, \A k \in 1 .. n : c[k - 1] = b[k - 1]
  PROVE  Text(c, n) = Text(b, n)
  BY DEF Text

(* print() stops behind the byte that has just come.                       *)
LEMMA PrintsOne ==
  ASSUME NEW b \in [Cells -> Char], NEW n \in Cells, n + 1 < LINE, b[n] # NUL, b[n + 1] = NUL
  PROVE  Printed(b, n) \in Seq(Char) /\ Len(Printed(b, n)) = 1 /\ Printed(b, n)[1] = b[n]
<1> DEFINE Ends(k) == /\ k >= n /\ (k = LINE \/ b[k] = NUL)
                      /\ \A j \in n .. k - 1 : b[j] # NUL
           end == CHOOSE k \in Cells \cup {LINE} : Ends(k)
<1>1. n \in Nat /\ LINE \in Nat /\ n + 1 \in Cells /\ Cells \subseteq Nat
  BY TerminalAssumption DEF Cells
<1>2. Ends(n + 1)
  BY <1>1
<1>3. \A k \in Cells \cup {LINE} : Ends(k) => k = n + 1
  <2>1. SUFFICES ASSUME NEW k \in Cells \cup {LINE}, Ends(k), k # n + 1
                 PROVE  FALSE
    OBVIOUS
  <2>2. k \in Nat /\ k >= n /\ k # n
    BY <1>1, <2>1
  <2>3. n + 1 \in n .. k - 1
    BY <1>1, <2>1, <2>2
  <2>4. QED
    BY <2>1, <2>3
<1>4. end = n + 1
  <2> HIDE DEF Ends
  <2>1. end \in Cells \cup {LINE} /\ Ends(end)
    BY <1>1, <1>2
  <2>2. QED
    BY <1>3, <2>1
<1>5. Printed(b, n) = [k \in 1 .. end - n |-> b[n + k - 1]]
  BY DEF Printed
<1> HIDE DEF end
<1>6. Printed(b, n) = [k \in 1 .. 1 |-> b[n + k - 1]]
  BY <1>1, <1>4, <1>5
<1>7. \A k \in 1 .. 1 : b[n + k - 1] \in Char
  BY <1>1
<1>8. QED
  BY <1>1, <1>6, <1>7

LEMMA TextGrows ==
  ASSUME NEW b \in [Cells -> Char], NEW n \in Cells, n + 1 < LINE, b[n] # NUL, b[n + 1] = NUL
  PROVE  Text(b, n) \o Printed(b, n) = Text(b, n + 1)
<1> DEFINE s == Text(b, n)
           t == Printed(b, n)
<1>1. n \in 0 .. LINE /\ n + 1 \in 0 .. LINE /\ n \in Nat /\ n + 1 \in Nat
  BY TerminalAssumption DEF Cells
<1>2. s \in Seq(Char) /\ Len(s) = n /\ Text(b, n + 1) \in Seq(Char)
  BY <1>1, TextIs
<1>3. \A k \in 1 .. n : s[k] = b[k - 1]
  BY DEF Text
<1>4. t \in Seq(Char) /\ Len(t) = 1 /\ t[1] = b[n]
  BY PrintsOne
<1> HIDE DEF s, t
<1>5. /\ s \o t \in Seq(Char) /\ Len(s \o t) = n + 1
      /\ \A k \in 1 .. n + 1 : (s \o t)[k] = IF k <= n THEN s[k] ELSE t[k - n]
  <2>1. /\ s \o t \in Seq(Char) /\ Len(s \o t) = Len(s) + Len(t)
        /\ \A k \in 1 .. Len(s) + Len(t) : (s \o t)[k] = IF k <= Len(s) THEN s[k] ELSE t[k - Len(s)]
    BY <1>2, <1>4, ConcatProperties
  <2>2. QED
    BY <1>2, <1>4, <2>1
<1>6. \A k \in 1 .. n + 1 : (s \o t)[k] = b[k - 1]
  <2>1. ASSUME NEW k \in 1 .. n + 1
        PROVE  (s \o t)[k] = b[k - 1]
    <3>1. CASE k <= n
      BY <1>1, <1>3, <1>5, <3>1
    <3>2. CASE k = n + 1
      <4>1. k - n = 1 /\ k - 1 = n /\ ~(k <= n)
        BY <1>1, <3>2
      <4>2. QED
        BY <1>4, <1>5, <4>1
    <3>3. k <= n \/ k = n + 1
      BY <1>1
    <3>4. QED
      BY <3>1, <3>2, <3>3
  <2>2. QED
    BY <2>1
<1>7. s \o t = Text(b, n + 1)
  BY <1>1, <1>2, <1>5, <1>6, TextEqual
<1>8. QED
  BY <1>7 DEF s, t

LEMMA TextShrinks ==
  ASSUME NEW b \in [Cells -> Char], NEW n \in Cells, n > 0
  PROVE  Text(b, n) # <<>> /\ SubSeq(Text(b, n), 1, Len(Text(b, n)) - 1) = Text(b, n - 1)
<1> DEFINE s == Text(b, n)
<1>1. n \in 0 .. LINE /\ n - 1 \in 0 .. LINE /\ n \in Nat /\ n - 1 \in Nat
  BY TerminalAssumption DEF Cells
<1>2. s \in Seq(Char) /\ Len(s) = n /\ Text(b, n - 1) \in Seq(Char)
  BY <1>1, TextIs
<1>3. \A k \in 1 .. n : s[k] = b[k - 1]
  BY DEF Text
<1> HIDE DEF s
<1>4. /\ SubSeq(s, 1, n - 1) \in Seq(Char) /\ Len(SubSeq(s, 1, n - 1)) = n - 1
      /\ \A k \in 1 .. n - 1 : SubSeq(s, 1, n - 1)[k] = s[k]
  <2>1. \A k \in 1 .. n - 1 : s[k] \in Char
    BY <1>1, <1>2
  <2>2. /\ SubSeq(s, 1, n - 1) \in Seq(Char)
        /\ Len(SubSeq(s, 1, n - 1)) = IF 1 <= n - 1 THEN (n - 1) - 1 + 1 ELSE 0
        /\ \A k \in 1 .. (n - 1) - 1 + 1 : SubSeq(s, 1, n - 1)[k] = s[1 + k - 1]
    BY <1>1, <2>1, SubSeqProperties
  <2>3. QED
    BY <1>1, <2>2
<1>5. \A k \in 1 .. n - 1 : SubSeq(s, 1, n - 1)[k] = b[k - 1]
  BY <1>1, <1>3, <1>4
<1>6. SubSeq(s, 1, n - 1) = Text(b, n - 1)
  BY <1>1, <1>2, <1>4, <1>5, TextEqual
<1>7. s # <<>>
  BY <1>1, <1>2
<1>8. QED
  BY <1>2, <1>6, <1>7 DEF s

(* What comes from the keyboard is a character, and never 0.               *)
LEMMA DeliveredIs ==
  ASSUME RingOK, OneByteKeys, NoTab, NEW c \in Delivered
  PROVE  c \in Char /\ c # NUL /\ (c.name = "tab" => c.release)
<1>1. FirstByte \in Code
  BY DEF RingOK, FirstByte
<1>2. FirstByte # E_KEYS
  <2>1. E_KEYS \notin Code
    BY DEF OneByteKeys, Code, E_KEYS, EOF, NUL, Down
  <2>2. QED
    BY <1>1, <2>1
<1>3. c \in Code /\ c # NUL
  BY <1>1, <1>2 DEF Delivered, getStringFromCode, NOT_USABLE
<1>4. c.name = "tab" => c.release
  <2>1. EOF.name = "esc" /\ NUL.name = "nul"
    BY DEF EOF, NUL, Down
  <2>2. QED
    BY <1>3, <2>1 DEF NoTab, Code
<1>5. QED
  BY <1>3, <1>4 DEF Char

(* The shell edits its line.                                               *)
LEMMA EditKeeps ==
  ASSUME LineOK, NEW c \in Char, c # NUL, c.name = "tab" => c.release, Edited(c)
  PROVE  LineOK'
<1> DEFINE raw == [buffer EXCEPT ![idx] = c]
           blank == [raw EXCEPT ![idx] = NUL]
           edits == c.name \notin {"ctrl", "enter"} /\ ~c.release /\ ~ctrl_press
           text == edits /\ c.name \notin {"backspace", "tab"} /\ idx + 1 < LINE
<1>1. /\ buffer \in [Cells -> Char] /\ idx \in Cells /\ NUL \in Char
      /\ \A k \in Cells : k > idx => buffer[k] = NUL
      /\ shown = Text(buffer, idx)
  BY DEF LineOK, LineShown, Text, Char, Code
<1>2. idx \in Nat /\ LINE \in Nat \ {0} /\ Cells = 0 .. LINE - 1
  BY <1>1, TerminalAssumption DEF Cells
<1>3. /\ raw \in [Cells -> Char] /\ blank \in [Cells -> Char] /\ raw[idx] = c /\ blank[idx] = NUL
      /\ \A k \in Cells \ {idx} : raw[k] = buffer[k] /\ blank[k] = buffer[k]
  BY <1>1
<1>4. c.name = "tab" => c.release
  OBVIOUS
<1>5. \/ /\ edits /\ c.name = "backspace"
         /\ Edit(blank, IF idx > 0 THEN idx - 1 ELSE 0,
                 IF idx > 0 /\ shown # <<>> THEN SubSeq(shown, 1, Len(shown) - 1) ELSE shown)
      \/ text /\ Edit(raw, idx + 1, shown \o Printed(raw, idx))
      \/ Edit(blank, idx, shown)
      \/ Edit(raw, idx, shown)
  <2>1. CASE edits /\ c.name = "backspace"
    BY <2>1 DEF Edited, Blanked
  <2>2. CASE text /\ ~isSpecial(c)
    BY <2>2 DEF Edited, Blanked
  <2>3. CASE text /\ isSpecial(c)
    BY <2>3 DEF Edited, Blanked
  <2>4. CASE ~(edits /\ c.name = "backspace") /\ ~text
    BY <1>4, <2>4 DEF Edited, Blanked
  <2>5. QED
    BY <2>1, <2>2, <2>3, <2>4
<1> HIDE DEF raw, blank, edits
<1>6. \A n \in 0 .. idx : Text(raw, n) = Text(buffer, n) /\ Text(blank, n) = Text(buffer, n)
  <2>1. SUFFICES ASSUME NEW n \in 0 .. idx
                 PROVE  Text(raw, n) = Text(buffer, n) /\ Text(blank, n) = Text(buffer, n)
    OBVIOUS
  <2>2. n \in Nat /\ \A k \in 1 .. n : k - 1 \in Cells \ {idx}
    BY <1>1, <1>2
  <2>3. QED
    BY <1>3, <2>2, TextSame
<1>7. CASE /\ edits /\ c.name = "backspace"
           /\ Edit(blank, IF idx > 0 THEN idx - 1 ELSE 0,
                   IF idx > 0 /\ shown # <<>> THEN SubSeq(shown, 1, Len(shown) - 1) ELSE shown)
  <2>1. CASE idx > 0
    <3>1. shown # <<>> /\ SubSeq(shown, 1, Len(shown) - 1) = Text(buffer, idx - 1)
      BY <1>1, <2>1, TextShrinks
    <3>2. buffer' = blank /\ idx' = idx - 1 /\ shown' = Text(buffer, idx - 1)
      BY <1>7, <2>1, <3>1 DEF Edit
    <3>3. shown' = Text(buffer', idx')
      BY <1>2, <1>6, <2>1, <3>2
    <3>4. idx' \in Cells /\ \A k \in Cells : k > idx' => buffer'[k] = NUL
      BY <1>1, <1>2, <1>3, <2>1, <3>2
    <3>5. QED
      BY <1>3, <3>2, <3>3, <3>4 DEF LineOK, LineShown, Text
  <2>2. CASE ~(idx > 0)
    <3>1. buffer' = blank /\ idx' = idx /\ shown' = shown
      BY <1>2, <1>7, <2>2 DEF Edit
    <3>2. shown' = Text(buffer', idx')
      BY <1>1, <1>2, <1>6, <3>1
    <3>3. QED
      BY <1>1, <1>3, <3>1, <3>2 DEF LineOK, LineShown, Text
  <2>3. QED
    BY <2>1, <2>2
<1>8. CASE text /\ Edit(raw, idx + 1, shown \o Printed(raw, idx))
  <2>6. buffer' = raw /\ idx' = idx + 1 /\ shown' = shown \o Printed(raw, idx)
    BY <1>8 DEF Edit
  <2>7. shown = Text(raw, idx)
    BY <1>1, <1>2, <1>6
  <2>1. buffer' = raw /\ idx' = idx + 1 /\ shown' = Text(raw, idx) \o Printed(raw, idx)
    BY <2>6, <2>7
  <2>2. idx + 1 < LINE /\ idx + 1 \in Cells /\ raw[idx] # NUL /\ raw[idx + 1] = NUL
    BY <1>1, <1>2, <1>3, <1>8
  <2>3. shown' = Text(buffer', idx')
    BY <1>1, <1>3, <2>1, <2>2, TextGrows
  <2>4. \A k \in Cells : k > idx' => buffer'[k] = NUL
    BY <1>1, <1>2, <1>3, <2>1
  <2>5. QED
    BY <1>3, <2>1, <2>2, <2>3, <2>4 DEF LineOK, LineShown, Text
<1>9. CASE Edit(blank, idx, shown) \/ Edit(raw, idx, shown)
  <2>1. (buffer' = blank \/ buffer' = raw) /\ idx' = idx /\ shown' = shown
    BY <1>9 DEF Edit
  <2>2. shown' = Text(buffer', idx')
    BY <1>1, <1>2, <1>6, <2>1
  <2>3. \A k \in Cells : k > idx' => buffer'[k] = NUL
    BY <1>1, <1>2, <1>3, <2>1
  <2>4. QED
    BY <1>1, <1>3, <2>1, <2>2, <2>3 DEF LineOK, LineShown, Text
<1>10. QED
  BY <1>5, <1>7, <1>8, <1>9

(* The line is emptied.                                                    *)
LEMMA ResetKeeps ==
  ASSUME LineOK, ResetBuffer
  PROVE  LineOK'
<1>1. NUL \in Char /\ 0 \in Cells
  BY TerminalAssumption DEF Char, Code, Cells
<1>2. buffer' = [k \in Cells |-> NUL] /\ idx' = 0 /\ shown' = <<>>
  BY DEF ResetBuffer
<1>3. <<>> = [k \in 1 .. 0 |-> buffer'[k - 1]]
  OBVIOUS
<1>4. QED
  BY <1>1, <1>2, <1>3 DEF LineOK, LineShown

LEMMA LineReadKeeps ==
  ASSUME RingOK, LineOK, ModeOK, OneByteKeys, NoTab, NEW p \in {SHELL, COMMAND}, readOnFile(p)
  PROVE  LineOK' /\ ModeOK'
<1>1. UNCHANGED <<ctrl_enabled, program>>
  BY DEF readOnFile
<1>2. CASE UNCHANGED <<i, line>>
  BY <1>1, <1>2 DEF line, LineOK, LineShown, ModeOK
<1>3. CASE \E c \in Delivered : IF p = SHELL THEN shellHears(c) ELSE commandHears(c)
  <2>1. PICK c \in Delivered : IF p = SHELL THEN shellHears(c) ELSE commandHears(c)
    BY <1>3
  <2>2. c \in Char /\ c # NUL /\ (c.name = "tab" => c.release)
    BY DeliveredIs
  <2>3. CASE shellHears(c)
    <3>1. LineOK'
      BY <2>2, <2>3, EditKeeps DEF shellHears
    <3>2. ctrl_press' \in BOOLEAN
      BY <2>3 DEF shellHears, ModeOK
    <3>3. QED
      BY <1>1, <2>3, <3>1, <3>2 DEF shellHears, ModeOK
  <2>4. CASE commandHears(c)
    <3>1. UNCHANGED line
      BY <2>4 DEF commandHears
    <3>2. i' \in 0 .. CHAIN
      BY <2>4, TerminalAssumption DEF commandHears, ModeOK
    <3>3. QED
      BY <1>1, <3>1, <3>2 DEF line, LineOK, LineShown, ModeOK
  <2>5. QED
    BY <2>1, <2>3, <2>4
<1>4. QED
  BY <1>2, <1>3 DEF readOnFile

LEMMA LineNext ==
  ASSUME OneByteKeys, NoTab, RingOK, PermitsMatch, LineOK, ModeOK, [Next]_vars
  PROVE  LineOK' /\ ModeOK'
<1>1. 0 \in 0 .. CHAIN
  BY TerminalAssumption
<1>2. ASSUME NEW p, killed(p)
      PROVE  program' \in {"none", "cat", "wc", "other"} /\ i' \in 0 .. CHAIN
  BY <1>1, <1>2 DEF killed, ModeOK
<1>3. CASE Press
  <2>1. PICK key \in Strokes : keyboardHandler(key)
    BY <1>3 DEF Press
  <2>2. ctrl_enabled' \in BOOLEAN /\ UNCHANGED line
    BY <2>1 DEF keyboardHandler, setKeyFlags, ModeOK
  <2>3. program' \in {"none", "cat", "wc", "other"} /\ i' \in 0 .. CHAIN
    <3>1. CASE ctrl_C
      BY <1>2, <3>1 DEF ctrl_C, running, ModeOK
    <3>2. CASE write(EOF) \/ write(key) \/ UNCHANGED running
      BY <3>2 DEF write, running, ModeOK
    <3>3. QED
      BY <2>1, <3>1, <3>2 DEF keyboardHandler
  <2>4. QED
    BY <2>2, <2>3 DEF line, LineOK, LineShown, ModeOK
<1>4. CASE readOnFile(SHELL) \/ readOnFile(COMMAND)
  BY <1>4, LineReadKeeps
<1>5. CASE StartNothing \/ StartJob \/ Waited
  <2>1. ResetBuffer /\ UNCHANGED <<ctrl_enabled, program, i>>
    BY <1>5 DEF StartNothing, StartJob, Waited, Step
  <2>2. QED
    BY <2>1, ResetKeeps DEF ModeOK, ResetBuffer
<1>6. CASE StartCommand \/ WaitPid
  BY <1>1, <1>6 DEF StartCommand, WaitPid, Step, line, LineOK, LineShown, ModeOK
<1>7. CASE CommandExits \/ JobExits
  <2>1. PICK p \in {COMMAND, JOB} : killed(p) /\ UNCHANGED <<ctrl_enabled, line>>
    BY <1>7 DEF CommandExits, JobExits, Exit
  <2>2. QED
    BY <1>2, <2>1 DEF line, LineOK, LineShown, ModeOK
<1>8. CASE UNCHANGED vars
  BY <1>8 DEF vars, line, running, LineOK, LineShown, ModeOK
<1>9. QED
  BY <1>3, <1>4, <1>5, <1>6, <1>7, <1>8 DEF Next, Shell, Command

LEMMA LineInit ==
  ASSUME Init
  PROVE  LineOK /\ ModeOK
<1>1. NUL \in Char /\ 0 \in Cells /\ 0 \in 0 .. CHAIN
  BY TerminalAssumption DEF Char, Code, Cells
<1>2. <<>> = [k \in 1 .. 0 |-> buffer[k - 1]]
  OBVIOUS
<1>3. QED
  BY <1>1, <1>2 DEF Init, LineOK, LineShown, ModeOK

LEMMA LineInductive ==
  ASSUME OneByteKeys, NoTab
  PROVE  Spec => [](IInv /\ LineOK /\ ModeOK)
<1>1. Init => LineOK /\ ModeOK
  BY LineInit
<1>2. IInv /\ LineOK /\ ModeOK /\ [Next]_vars => LineOK' /\ ModeOK'
  BY LineNext DEF IInv
<1>3. QED
  BY <1>1, <1>2, Inductive, PTL DEF Spec

(* What the screen shows of the line is what startCommand() is going to    *)
(* parse, however long the line is and whatever is typed, erased, released *)
(* or killed in between, and although each byte is put into the buffer     *)
(* before shell() knows what it is; for keys of one byte, without the tab. *)
THEOREM LineIsShown ==
  ASSUME OneByteKeys, NoTab
  PROVE  Spec => []LineShown
<1>1. LineOK => LineShown
  BY DEF LineOK
<1>2. QED
  BY <1>1, LineInductive, PTL

(* Every variable has its type: no index leaves its array, with keys of    *)
(* one byte and without the tab.                                           *)
THEOREM TerminalTyped ==
  ASSUME OneByteKeys, NoTab
  PROVE  Spec => []TypeOK
<1>1. LineOK => shown \in Seq(Char)
  <2>1. SUFFICES ASSUME LineOK
                 PROVE  shown \in Seq(Char)
    OBVIOUS
  <2>2. buffer \in [Cells -> Char] /\ idx \in 0 .. LINE /\ shown = Text(buffer, idx)
    BY <2>1, TerminalAssumption DEF LineOK, LineShown, Text, Cells
  <2>3. QED
    BY <2>2, TextIs
<1>2. IInv /\ LineOK /\ ModeOK => TypeOK
  BY <1>1 DEF IInv, KernelOK, RingOK, OwnerOK, PermitsMatch, LineOK, ModeOK, TypeOK
<1>3. QED
  BY <1>2, LineInductive, PTL
=============================================================================
