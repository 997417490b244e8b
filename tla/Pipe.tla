-------------------------------- MODULE Pipe --------------------------------
(***************************************************************************)
(* A pipe of the shell, p1 | p2: one file descriptor of                    *)
(* Kernel/fileDescriptor.c with its ring buffer and its three semaphores,  *)
(* p1 that writes and p2 that reads until the end, both of which close it  *)
(* when they exit, and what the shell does with it.  Which lines make the  *)
(* shell open it, and whom it waits for, is in Pipeline.                   *)
(*                                                                         *)
(* Any ready process may take the next step, between any two calls of the  *)
(* semaphores.  In a system call the steps that do not sleep come without  *)
(* a break, which is among what is allowed here.                           *)
(*                                                                         *)
(* A process that exits is out of the ready list and TERMINATED before it  *)
(* closes the pipe, with interrupts on.  It keeps the processor until it   *)
(* is freed; a tick takes that from it for ever, and a sleep on a full     *)
(* pipe puts it back in the list in which it must not be when it is freed. *)
(***************************************************************************)
EXTENDS Semaphores

CONSTANTS
  BUFF_SIZE,
  MaxBytes      \* bound: how many bytes p1 writes; cat and filter take 4096

ASSUME PipeAssumption == BUFF_SIZE \in Nat \ {0} /\ MaxBytes \in 0 .. 4095

NOBODY == -1
SHELL  == 0
WRITER == 1
READER == 2
JOB    == 3      \* a command without a pipe
WRECK  == -2     \* a freed node is in the ready list: nobody goes on
Proc   == {SHELL, WRITER, READER, JOB}

NOT_WAITING == 0
ANY         == -1

Sem == {"mutex_fd", "read_fd", "write_fd"}
EOF == -1        \* the bytes of p1 are numbered from 1

VARIABLES
  fd_open,       \* fds[fd_idx] # NULL
  buff, readIdx, writeIdx, used, writer_pid, reader_pid,
  pc,            \* the next statement of each process
  waiting_pid,   \* of the shell, their parent
  told,          \* whose deaths have ended its waits for this pipe
  exiting,       \* who has the processor though it is TERMINATED
  relisted,      \* who is in the ready list again after the remove() of its exit
  dropped,       \* the shell is READY, but not in the list
  closing,       \* p1 exits, and writes its last byte in closeFd()
  sent,          \* how many bytes it has written
  received       \* what p2 has read

ring   == <<buff, readIdx, writeIdx, used>>
owners == <<fd_open, writer_pid, reader_pid>>
waits  == <<waiting_pid, told>>
exits  == <<exiting, relisted, dropped>>
pipeVars == <<sems, ring, owners, pc, waits, exits, closing, sent, received>>

PipeInit ==
  /\ open = {}
  /\ value = [s \in Sem |-> 0]
  /\ queue = [s \in Sem |-> <<>>]
  /\ inside = [s \in Sem |-> {}]
  /\ lost = {}
  /\ p_state = [p \in Proc |-> IF p = SHELL THEN "READY" ELSE "TERMINATED"]
  /\ fd_open = FALSE
  /\ buff = [k \in 0 .. BUFF_SIZE - 1 |-> 0]
  /\ readIdx = 0 /\ writeIdx = 0 /\ used = 0
  /\ writer_pid = NOBODY /\ reader_pid = NOBODY
  /\ pc = [p \in Proc |-> IF p = SHELL THEN "prompt" ELSE "run"]
  /\ waiting_pid = NOT_WAITING /\ told = {}
  /\ exiting = NOBODY /\ relisted = {} /\ dropped = FALSE
  /\ closing = FALSE /\ sent = 0 /\ received = <<>>

(* schedule() finds who is in the ready list, when the one that exits has  *)
(* left the processor.                                                     *)
HasProcessor(p) ==
  \/ exiting = p
  \/ exiting = NOBODY /\ CanRun(p) /\ ~(p = SHELL /\ dropped)

Go(p, from, to) ==
  /\ pc[p] = from /\ HasProcessor(p)
  /\ pc' = [pc EXCEPT ![p] = to]

(* setState(p, BLOCKED) in the middle of its exit takes p out of the list  *)
(* a second time, with the links it had: what was put in front meanwhile,  *)
(* the shell that was told, is out of the list if p was the first.  Who    *)
(* wakes p puts it in.                                                     *)
isWaiting(p) == waiting_pid \in {p, ANY}

WokeShell(p) == p \in told \/ (isWaiting(p) /\ pc[SHELL] = "prompt")

SleepInExit(p) ==
  /\ exiting' = NOBODY
  /\ relisted' = relisted \cup {p}
  /\ dropped' \in {dropped, dropped \/ (WokeShell(p) /\ p \notin relisted)}

Wait(p, s, from, to) ==
  /\ Go(p, from, IF Returns(s, p) THEN to ELSE from)
  /\ semWait(s, p)
  /\ IF exiting = p /\ ~Returns(s, p) THEN SleepInExit(p) ELSE UNCHANGED exits

-----------------------------------------------------------------------------
(* openFd() of a new name: initFd() makes the semaphores, and the shell    *)
(* becomes the writer.  The variant has a permit too many.                 *)
PermitsOneMore(s) == CASE s = "mutex_fd" -> 1 [] s = "read_fd" -> 0 [] s = "write_fd" -> BUFF_SIZE + 1

Permits(s) == CASE s = "mutex_fd" -> 1 [] s = "read_fd" -> 0 [] s = "write_fd" -> BUFF_SIZE

openFd ==
  /\ open' = Sem /\ value' = [s \in Sem |-> Permits(s)]
  /\ fd_open' = TRUE /\ writer_pid' = SHELL
  /\ told' = {}
  /\ UNCHANGED <<queue, inside, lost, p_state, ring, reader_pid, waiting_pid, exits, closing, sent, received>>

(* createProcess() makes the new process the owner of its end, if the      *)
(* descriptor is still there.                                              *)
CreateWriter ==
  /\ Go(SHELL, "create_writer", "create_reader")
  /\ setState(WRITER, "READY")
  /\ writer_pid' = WRITER
  /\ UNCHANGED <<ring, fd_open, reader_pid, waits, exits, closing, sent, received>>

createReader ==
  /\ setState(READER, "READY")
  /\ reader_pid' = IF fd_open THEN READER ELSE reader_pid
  /\ UNCHANGED <<ring, fd_open, writer_pid, waits, exits, closing, sent, received>>

(* waitPid() of the shell, which no death ends that came before it.        *)
waitPid(pid) ==
  /\ waiting_pid' = pid
  /\ setState(SHELL, "BLOCKED")
  /\ UNCHANGED <<ring, owners, told, exits, closing, sent, received>>

(* What kill() tells the parent: waiting_pid is never taken back.          *)
Notified(p) == isWaiting(p) /\ p_state[SHELL] = "BLOCKED"

Tell(p) ==
  /\ told' = IF Notified(p) THEN told \cup {p} ELSE told
  /\ UNCHANGED waiting_pid

(* The exit, statement by statement.  It takes p out of the ready list and *)
(* marks it; a tick between the two would put it back.                     *)
Die(p) ==
  /\ Go(p, "run", "tell")
  /\ setState(p, "TERMINATED")
  /\ exiting' = p
  /\ relisted' \in {relisted, relisted \cup {p}}
  /\ UNCHANGED <<ring, owners, waits, dropped, sent, received>>

(* The parent knows before the pipe is closed, and gets the keyboard.      *)
TellParent(p) ==
  /\ Go(p, "tell", "hand")
  /\ Tell(p)
  /\ IF Notified(p) THEN setState(SHELL, "READY") ELSE UNCHANGED sems
  /\ UNCHANGED <<ring, owners, exits, closing, sent, received>>

HandKeyboard(p, to) ==
  /\ Go(p, "hand", to)
  /\ UNCHANGED <<sems, ring, owners, waits, exits, closing, sent, received>>

(* A tick, whose schedule() chooses another one.  Who is TERMINATED and    *)
(* not in the list is never chosen again.                                  *)
Tick ==
  /\ exiting \in {WRITER, READER}
  /\ exiting' = NOBODY
  /\ IF exiting \in relisted THEN setState(exiting, "READY") ELSE UNCHANGED sems
  /\ UNCHANGED <<ring, owners, pc, waits, relisted, dropped, closing, sent, received>>

-----------------------------------------------------------------------------
(* writeOnFile(), byte for byte.                                           *)
NextIdxStraight(k) == k + 1

NextIdx(k) == (k + 1) % BUFF_SIZE

Byte == IF closing THEN EOF ELSE sent + 1

(* p1 writes one more byte, or its main function returns.                  *)
Write ==
  /\ ~closing /\ sent < MaxBytes
  /\ Go(WRITER, "run", "wait_write")
  /\ UNCHANGED <<sems, ring, owners, waits, exits, closing, sent, received>>

WriterDies == Die(WRITER) /\ closing' = TRUE

WaitToWrite ==
  /\ \/ Wait(WRITER, "write_fd", "wait_write", "wait_mutex")
     \/ Wait(WRITER, "mutex_fd", "wait_mutex", "put")
  /\ UNCHANGED <<ring, owners, waits, closing, sent, received>>

Put ==
  /\ Go(WRITER, "put", "post_mutex")
  /\ buff' = [buff EXCEPT ![writeIdx] = Byte]
  /\ writeIdx' = NextIdx(writeIdx)
  /\ used' = used + 1
  /\ semPost("read_fd")
  /\ sent' = IF closing THEN sent ELSE sent + 1
  /\ UNCHANGED <<readIdx, owners, waits, exits, closing, received>>

Written ==
  /\ Go(WRITER, "post_mutex", IF closing THEN "close" ELSE "run")
  /\ semPost("mutex_fd")
  /\ UNCHANGED <<ring, owners, waits, exits, closing, sent, received>>

(* p2 ends after the EOF.  Without a descriptor each of its reads fails at *)
(* once: cat and filter end after 4096 of them, wc never.                  *)
AtEnd == received # <<>> /\ received[Len(received)] = EOF

ReaderDies == AtEnd /\ Die(READER) /\ UNCHANGED closing

GivesUp == ~AtEnd /\ ~fd_open /\ Die(READER) /\ UNCHANGED closing

(* readOnFile() of one byte.                                               *)
Read ==
  /\ fd_open /\ reader_pid = READER /\ ~AtEnd
  /\ Go(READER, "run", "wait_read")
  /\ UNCHANGED <<sems, ring, owners, waits, exits, closing, sent, received>>

WaitToRead ==
  /\ \/ Wait(READER, "read_fd", "wait_read", "wait_mutex")
     \/ Wait(READER, "mutex_fd", "wait_mutex", "get")
  /\ UNCHANGED <<ring, owners, waits, closing, sent, received>>

Get ==
  /\ Go(READER, "get", "post_mutex")
  /\ received' = Append(received, buff[readIdx])
  /\ readIdx' = NextIdx(readIdx)
  /\ used' = used - 1
  /\ semPost("write_fd")
  /\ UNCHANGED <<buff, writeIdx, owners, waits, exits, closing, sent>>

HasRead ==
  /\ Go(READER, "post_mutex", "run")
  /\ semPost("mutex_fd")
  /\ UNCHANGED <<ring, owners, waits, exits, closing, sent, received>>

-----------------------------------------------------------------------------
(* The end of closeFdForPID(), after the EOF of p1: without owners the     *)
(* descriptor is freed, and its semaphores destroyed.                      *)
HalfOwned(w, r) == w = NOBODY \/ r = NOBODY

Unowned(w, r) == w = NOBODY /\ r = NOBODY

freeFd ==
  /\ fd_open' = FALSE
  /\ open' = {}
  /\ value' = [s \in Sem |-> 0]
  /\ queue' = [s \in Sem |-> <<>>]
  /\ inside' = [s \in Sem |-> {}]
  /\ lost' = lost \cup UNION {inside[s] : s \in Sem}
  /\ UNCHANGED p_state

closeFd(p) ==
  /\ Go(p, "close", "exit")
  /\ writer_pid' = IF writer_pid = p THEN NOBODY ELSE writer_pid
  /\ reader_pid' = IF reader_pid = p THEN NOBODY ELSE reader_pid
  /\ IF Unowned(writer_pid', reader_pid') THEN freeFd ELSE UNCHANGED <<sems, fd_open>>
  /\ UNCHANGED <<ring, waits, exits, closing, sent, received>>

(* The end of kill() frees the PCB and the node, wherever that is.         *)
Exit(p) ==
  /\ Go(p, "exit", "dead")
  /\ kill(p, {})
  /\ exiting' = IF p \in relisted THEN WRECK ELSE NOBODY
  /\ UNCHANGED <<ring, owners, waits, relisted, dropped, closing, sent, received>>

-----------------------------------------------------------------------------
Writer == Write \/ TellParent(WRITER) \/ WaitToWrite \/ Put \/ Written \/ closeFd(WRITER) \/ Exit(WRITER)
Reader == Read \/ WaitToRead \/ Get \/ HasRead \/ TellParent(READER) \/ closeFd(READER) \/ Exit(READER)

-----------------------------------------------------------------------------
(* Every variable has its type.                                            *)
Place == {"prompt", "start", "create_writer", "create_reader", "wait", "waiting",
          "run", "wait_write", "wait_read", "wait_mutex", "put", "get", "post_mutex",
          "tell", "hand", "close", "exit", "dead"}

PipeTypeOK ==
  /\ SemTypeOK(Sem, Proc)
  /\ fd_open \in BOOLEAN
  /\ buff \in [0 .. BUFF_SIZE - 1 -> Nat \cup {EOF}]
  /\ readIdx \in 0 .. BUFF_SIZE - 1 /\ writeIdx \in 0 .. BUFF_SIZE - 1
  /\ used \in 0 .. BUFF_SIZE
  /\ writer_pid \in {NOBODY, SHELL, WRITER} /\ reader_pid \in {NOBODY, READER}
  /\ pc \in [Proc -> Place]
  /\ waiting_pid \in {NOT_WAITING, ANY, JOB} /\ told \subseteq Proc
  /\ exiting \in {NOBODY, WRITER, READER, WRECK} /\ relisted \subseteq Proc /\ dropped \in BOOLEAN
  /\ closing \in BOOLEAN /\ sent \in 0 .. MaxBytes
  /\ received \in Seq(Nat \cup {EOF})

(* freeFd() takes the descriptor from nobody who is reading or writing:    *)
(* who is between the first semWait() and the last semPost() of a call, or *)
(* asleep in it, finds it there.                                           *)
InCall(p) == pc[p] \in {"wait_write", "wait_read", "wait_mutex", "put", "get", "post_mutex"}

NobodyInFreed == lost = {} /\ \A p \in {WRITER, READER} : InCall(p) => fd_open

(* The pipe implements a bounded channel: between readIdx and writeIdx are *)
(* the bytes on their way, in order, although only semaphores keep the two *)
(* indices apart.                                                          *)
OnTheWay == [k \in 1 .. used |-> buff[(readIdx + k - 1) % BUFF_SIZE]]

EndWritten == closing /\ pc[WRITER] \in {"post_mutex", "close", "exit", "dead"}

Promise == INSTANCE Channel
  WITH Size <- BUFF_SIZE, EOF <- EOF, written <- sent, taken <- received, ended <- EndWritten,
       contents <- IF fd_open THEN OnTheWay ELSE <<>>

BoundedFifo == Promise!Spec

(* Both sides of a pipe get to their ends, the EOF of p1 included, unless  *)
(* p1 was gone before p2 was created, when p2 is a reader of nothing; or a *)
(* tick has cut an exit short; or an exit that slept, on a full pipe, or   *)
(* was put back in the list has left a freed node there.                   *)
Orphan == p_state[READER] # "TERMINATED" /\ pc[READER] = "run" /\ ~fd_open

CutShort(p) == p_state[p] = "TERMINATED" /\ pc[p] \notin {"run", "dead"} /\ exiting # p

EndArrives ==
  pc[SHELL] = "create_writer"
    ~> \/ pc[WRITER] = "dead" /\ (pc[READER] = "dead" \/ Orphan)
       \/ CutShort(WRITER) \/ CutShort(READER)
       \/ exiting = WRECK
=============================================================================
