------------------------------ MODULE Terminal ------------------------------
(***************************************************************************)
(* The keyboard from the interrupt to the program that reads it:           *)
(* Kernel/keyboardDriver.c, the descriptor of stdin in                     *)
(* Kernel/fileDescriptor.c, the loop of the shell that edits a line, and   *)
(* the commands that read stdin to its end.                                *)
(*                                                                         *)
(* A system call and the keyboard interrupt run with interrupts off, and   *)
(* sleep nowhere but in semWait(semReadName): the mutex of the descriptor  *)
(* and print_mutex are found open whenever they are asked for, and are     *)
(* left out.  One call, or one turn of the loop of semWait(), is a step.   *)
(***************************************************************************)
EXTENDS Semaphores

CONSTANTS
  BUFF_SIZE,    \* of the descriptor
  LINE,         \* the BUFF_SIZE of the shell
  CHAIN,        \* how much cat and filter can read
  UsedSpan,     \* used is an unsigned char: how many values it has
  Strokes       \* the scan codes of the keyboard at hand

ASSUME TerminalAssumption ==
  /\ {BUFF_SIZE, LINE, CHAIN} \subseteq Nat \ {0}
  /\ UsedSpan \in Nat /\ UsedSpan > BUFF_SIZE

(* A scan code, or the character that getStringFromCode() makes of it, has *)
(* a name and the bit RELEASE.  Both EOF and the key esc are 1.            *)
Down(key) == [name |-> key, release |-> FALSE]
Up(key)   == [name |-> key, release |-> TRUE]

EOF == Down("esc")
NUL == Down("nul")

SHELL   == 2
COMMAND == 3     \* in the foreground, each time with a pid of its own
JOB     == 4     \* in the background
TRIVIAL == 0
Proc    == {SHELL, COMMAND, JOB}

read_fd_0 == "read_fd_0"
Sem == {read_fd_0}

Cells == 0 .. LINE - 1

VARIABLES
  ctrl_enabled,
  buff, readIdx, writeIdx, used, reader_pid,
  fg_pid,
  pc,            \* what the shell and the command do next
  program,       \* what runs in the foreground
  i,             \* how many bytes cat has read
  buffer, idx, ctrl_press,    \* the line of the shell
  shown,         \* what it has printed of the line
  clearing       \* who sleeps in clearSTDIN()

stdin == <<buff, readIdx, writeIdx, used>>
line == <<buffer, idx, ctrl_press, shown>>
running == <<pc, program, i, reader_pid, fg_pid>>
vars == <<sems, ctrl_enabled, stdin, running, line, clearing>>

Init ==
  /\ open = Sem
  /\ value = [s \in Sem |-> 0]
  /\ queue = [s \in Sem |-> <<>>]
  /\ inside = [s \in Sem |-> {}]
  /\ lost = {}
  /\ p_state = [p \in Proc |-> IF p = SHELL THEN "READY" ELSE "TERMINATED"]
  /\ ctrl_enabled = FALSE
  /\ buff = [k \in 0 .. BUFF_SIZE - 1 |-> NUL]
  /\ readIdx = 0 /\ writeIdx = 0 /\ used = 0
  /\ reader_pid = SHELL /\ fg_pid = SHELL
  /\ pc = [p \in Proc |-> IF p = SHELL THEN "read" ELSE "dead"]
  /\ program = "none" /\ i = 0
  /\ buffer = [k \in Cells |-> NUL] /\ idx = 0 /\ ctrl_press = FALSE
  /\ shown = <<>>
  /\ clearing = {}

NextIdx(k) == (k + 1) % BUFF_SIZE

-----------------------------------------------------------------------------
(* From the scan code to the character.  caps_enabled and shift_enabled    *)
(* choose between two characters that mean the same to everybody here, and *)
(* are left out: one stands for both.                                      *)
NOT_USABLE == {Down("f1"), Up("f1"), NUL}

getStringFromCode(code) == {code} \ NOT_USABLE

(* The arrows are keys of the number pad behind the byte E0; LEFT_ARROW is *)
(* 10, as the character of enter.                                          *)
E_KEYS == Down("E0")
Grey   == [eight |-> "up_arrow", four |-> "enter", six |-> "right_arrow", two |-> "down_arrow"]

isSpecial(c) == c.name \in {"esc", "ctrl", "shift", "caps", "up_arrow", "right_arrow", "down_arrow"}

(* processBuf(): how many bytes it takes, and the character it gives back, *)
(* if any.  No permit stands for the second byte.                          *)
FirstByte == buff[readIdx]
SecondByte == buff[NextIdx(readIdx)]

Taken == IF FirstByte = E_KEYS THEN 2 ELSE 1

Delivered ==
  IF FirstByte = E_KEYS
  THEN IF SecondByte.name \in DOMAIN Grey THEN {[SecondByte EXCEPT !.name = Grey[@]]} ELSE {}
  ELSE getStringFromCode(FirstByte)

-----------------------------------------------------------------------------
(* What a death does to its parent, which is the shell, and to the         *)
(* keyboard, if the dead had it; the variant does not ask.                 *)
HeirOfAny(p) == SHELL

Heir(p) == IF p = COMMAND THEN SHELL ELSE reader_pid

killed(p) ==
  /\ p_state' = [p_state EXCEPT ![p] = "TERMINATED",
                                ![SHELL] = IF p = COMMAND /\ pc[SHELL] = "waiting" THEN "READY" ELSE @]
  /\ inside' = [inside EXCEPT ![read_fd_0] = @ \ {p}]
  /\ pc' = [pc EXCEPT ![p] = "dead"]
  /\ reader_pid' = Heir(p)
  /\ fg_pid' = IF p = COMMAND THEN SHELL ELSE fg_pid
  /\ program' = IF p = COMMAND THEN "none" ELSE program
  /\ i' = IF p = COMMAND THEN 0 ELSE i

(* clearSTDIN() and killFG().  The first one takes a permit for each byte, *)
(* and when there are not so many it sleeps, in the name of whoever was    *)
(* interrupted; trivial() cannot sleep, and stays in the loop for ever.    *)
(* The variant resets the index and the count, and leaves the permits.     *)
PermitsKept == value[read_fd_0]

PermitsLeft == value[read_fd_0] - used

ctrl_C ==
  /\ readIdx' = writeIdx
  /\ UNCHANGED <<open, lost, buff, writeIdx>>
  /\ IF used <= value[read_fd_0]
     THEN /\ value' = [value EXCEPT ![read_fd_0] = PermitsLeft]
          /\ used' = 0
          /\ IF fg_pid = SHELL THEN UNCHANGED <<p_state, inside, running>> ELSE killed(fg_pid)
          /\ UNCHANGED <<queue, clearing>>
     ELSE /\ value' = [value EXCEPT ![read_fd_0] = 0]
          /\ \E p \in {q \in Proc : CanRun(q)} \cup {TRIVIAL} :
               /\ clearing' = clearing \cup {p}
               /\ queue' = [queue EXCEPT ![read_fd_0] = Append(@, p)]
               /\ p_state' = [q \in Proc |-> IF q = p THEN "BLOCKED" ELSE p_state[q]]
          /\ UNCHANGED <<used, inside, running>>

(* writeOnFile() of one byte to stdin: on a full buffer the oldest byte    *)
(* makes room, and no permit is added.  The variants see room on a buffer  *)
(* that is just full, and leave the index of the reader alone.             *)
HasRoomWhenFull == used <= BUFF_SIZE

HasRoom == used < BUFF_SIZE

OldestKept == readIdx

OldestGone == NextIdx(writeIdx)

write(code) ==
  /\ buff' = [buff EXCEPT ![writeIdx] = code]
  /\ writeIdx' = NextIdx(writeIdx)
  /\ IF HasRoom THEN used' = used + 1 /\ semPost(read_fd_0) /\ UNCHANGED readIdx
                ELSE readIdx' = OldestGone /\ UNCHANGED <<sems, used>>
  /\ UNCHANGED <<running, clearing>>

setKeyFlags(key) == ctrl_enabled' = IF key.name = "ctrl" THEN ~key.release ELSE ctrl_enabled

(* keyboardHandler(), by interrupt: while ctrl is down, a key has one of   *)
(* two meanings or none.                                                   *)
keyboardHandler(key) ==
  /\ TRIVIAL \notin clearing
  /\ setKeyFlags(key)
  /\ CASE ctrl_enabled' /\ key = Down("c") -> ctrl_C
       [] ctrl_enabled' /\ key = Down("d") -> write(EOF)
       [] ctrl_enabled' /\ key \notin {Down("c"), Down("d")} ->
            UNCHANGED <<sems, stdin, running, clearing>>
       [] OTHER -> write(key)
  /\ UNCHANGED line

-----------------------------------------------------------------------------
(* The shell makes of a character what shell() does: it is put behind the  *)
(* line, and an ordinary one becomes part of it.  print() shows what is in *)
(* the buffer from there up to the first 0.  The variant leaves what was   *)
(* behind the line.                                                        *)
Printed(b, from) ==
  LET end == CHOOSE k \in Cells \cup {LINE} :
               /\ k >= from /\ (k = LINE \/ b[k] = NUL)
               /\ \A j \in from .. k - 1 : b[j] # NUL
  IN  [k \in 1 .. end - from |-> b[from + k - 1]]

BlankedNot(raw) == raw

Blanked(raw) == [raw EXCEPT ![idx] = NUL]

Edit(b, n, s) == buffer' = b /\ idx' = n /\ shown' = s

Edited(c) ==
  LET raw == [buffer EXCEPT ![idx] = c]
      tab == [k \in Cells |-> IF k \in idx .. idx + 3 THEN Down("space") ELSE buffer[k]]
      edits == c.name \notin {"ctrl", "enter"} /\ ~c.release /\ ~ctrl_press
      text == edits /\ c.name \notin {"backspace", "tab"} /\ idx + 1 < LINE
  IN  CASE edits /\ c.name = "backspace" ->
             Edit(Blanked(raw), IF idx > 0 THEN idx - 1 ELSE 0,
                  IF idx > 0 /\ shown # <<>> THEN SubSeq(shown, 1, Len(shown) - 1) ELSE shown)
        [] edits /\ c.name = "tab" -> Edit(tab, idx + 4, shown \o [k \in 1 .. 4 |-> Down("space")])
        [] text /\ ~isSpecial(c) -> Edit(raw, idx + 1, shown \o Printed(raw, idx))
        [] text /\ isSpecial(c) -> Edit(Blanked(raw), idx, shown)
        [] OTHER -> Edit(raw, idx, shown)

shellHears(c) ==
  /\ Edited(c)
  /\ ctrl_press' = IF c.name = "ctrl" THEN ~c.release ELSE ctrl_press
  /\ pc' = [pc EXCEPT ![SHELL] = IF c = Down("enter") /\ ~ctrl_press THEN "start" ELSE @]
  /\ UNCHANGED i

(* cat, filter and wc read to the end; all but wc stop when chain is full, *)
(* one byte later than they should.                                        *)
commandHears(c) ==
  /\ IF c = EOF \/ (program = "cat" /\ i = CHAIN)
     THEN pc' = [pc EXCEPT ![COMMAND] = "exit"] /\ UNCHANGED i
     ELSE i' = (IF program = "cat" THEN i + 1 ELSE i) /\ UNCHANGED pc
  /\ UNCHANGED line

(* readOnFile() of one byte by p, who asks once whether it is the reader,  *)
(* and not again after it slept.  To who is not, it returns at once.       *)
readOnFile(p) ==
  /\ pc[p] = "read" /\ CanRun(p) /\ TRIVIAL \notin clearing
  /\ p \in inside[read_fd_0] \/ reader_pid = p
  /\ semWait(read_fd_0, p)
  /\ IF Returns(read_fd_0, p)
     THEN /\ readIdx' = (readIdx + Taken) % BUFF_SIZE
          /\ used' = (used - Taken) % UsedSpan
          /\ IF Delivered = {} THEN UNCHANGED <<pc, i, line>>
             ELSE \E c \in Delivered : IF p = SHELL THEN shellHears(c) ELSE commandHears(c)
     ELSE UNCHANGED <<readIdx, used, pc, i, line>>
  /\ UNCHANGED <<ctrl_enabled, buff, writeIdx, reader_pid, fg_pid, program, clearing>>

-----------------------------------------------------------------------------
(* startCommand(), as far as it meets the keyboard: nothing is started, or *)
(* a background process, which gets no stdin, or a command that becomes    *)
(* the reader and is then waited for.                                      *)
ResetBuffer == buffer' = [k \in Cells |-> NUL] /\ idx' = 0 /\ shown' = <<>> /\ UNCHANGED ctrl_press

Step(from, to) ==
  /\ pc[SHELL] = from /\ CanRun(SHELL) /\ TRIVIAL \notin clearing
  /\ pc' = [pc EXCEPT ![SHELL] = to]
  /\ UNCHANGED <<ctrl_enabled, stdin, clearing>>

StartNothing ==
  /\ Step("start", "read")
  /\ ResetBuffer
  /\ UNCHANGED <<sems, reader_pid, fg_pid, program, i>>

StartJob ==
  /\ Step("start", "read")
  /\ idx > 0 /\ p_state[JOB] = "TERMINATED"
  /\ setState(JOB, "READY")
  /\ ResetBuffer
  /\ UNCHANGED <<reader_pid, fg_pid, program, i>>

StartCommand ==
  /\ pc[SHELL] = "start" /\ CanRun(SHELL) /\ TRIVIAL \notin clearing
  /\ idx > 0
  /\ setState(COMMAND, "READY")
  /\ program' \in {"cat", "wc", "other"} /\ i' = 0
  /\ pc' = [pc EXCEPT ![SHELL] = "wait", ![COMMAND] = IF program' = "other" THEN "run" ELSE "read"]
  /\ reader_pid' = COMMAND /\ fg_pid' = COMMAND
  /\ UNCHANGED <<ctrl_enabled, stdin, line, clearing>>

WaitPid ==
  /\ Step("wait", "waiting")
  /\ setState(SHELL, "BLOCKED")
  /\ UNCHANGED <<line, reader_pid, fg_pid, program, i>>

Waited ==
  /\ Step("waiting", "read")
  /\ ResetBuffer
  /\ UNCHANGED <<sems, reader_pid, fg_pid, program, i>>

(* A process comes to its end; the statements of killCurrent() are those   *)
(* of Scheduler.                                                           *)
Exit(p) ==
  /\ CanRun(p) /\ TRIVIAL \notin clearing
  /\ killed(p)
  /\ UNCHANGED <<open, value, queue, lost, ctrl_enabled, stdin, line, clearing>>

CommandExits == pc[COMMAND] \in {"exit", "run"} /\ Exit(COMMAND)

JobExits == Exit(JOB)

-----------------------------------------------------------------------------
Shell   == readOnFile(SHELL) \/ StartNothing \/ StartJob \/ StartCommand \/ WaitPid \/ Waited
Command == readOnFile(COMMAND) \/ CommandExits

Press == \E key \in Strokes : keyboardHandler(key)

Next == Press \/ Shell \/ Command \/ JobExits

Spec == Init /\ [][Next]_vars

(* Every ready process gets the processor (NoStarvation of Scheduler); a   *)
(* command that does not read may run for ever.                            *)
FairSpec == Spec /\ WF_vars(Shell) /\ WF_vars(readOnFile(COMMAND)) /\ WF_vars(pc[COMMAND] = "exit" /\ CommandExits)

-----------------------------------------------------------------------------
(* Every variable has its type.                                            *)
Code == Strokes \cup {EOF, NUL}
Char == Code \cup {[c EXCEPT !.name = Grey[@]] : c \in {d \in Code : d.name \in DOMAIN Grey}}
             \cup {Down("space")}
Place == {"read", "start", "wait", "waiting", "run", "exit", "dead"}

TypeOK ==
  /\ SemTypeOK(Sem, Proc)
  /\ {ctrl_enabled, ctrl_press} \subseteq BOOLEAN
  /\ buff \in [0 .. BUFF_SIZE - 1 -> Code]
  /\ readIdx \in 0 .. BUFF_SIZE - 1 /\ writeIdx \in 0 .. BUFF_SIZE - 1
  /\ used \in 0 .. BUFF_SIZE
  /\ reader_pid \in {SHELL, COMMAND} /\ fg_pid \in {SHELL, COMMAND}
  /\ pc \in [Proc -> Place]
  /\ program \in {"none", "cat", "wc", "other"} /\ i \in 0 .. CHAIN
  /\ buffer \in [Cells -> Char] /\ idx \in Cells /\ shown \in Seq(Char)
  /\ clearing \subseteq Proc \cup {TRIVIAL}

(* There is a permit for each byte that is typed ahead, in whatever order  *)
(* the keyboard writes, a process wakes, ctrl-C empties and a full buffer  *)
(* turns over: so clearSTDIN() never puts an interrupted process to sleep. *)
PermitsMatch ==
  /\ value[read_fd_0] = used
  /\ writeIdx = (readIdx + used) % BUFF_SIZE
  /\ clearing = {}

(* Who is in the call that waits for a key is the reader, although the     *)
(* reader changes with each command and readOnFile() looks only once, and  *)
(* the reader is alive.                                                    *)
ReaderAsks ==
  /\ inside[read_fd_0] \subseteq {reader_pid}
  /\ p_state[reader_pid] # "TERMINATED"

(* What the shell shows is what startCommand() is going to see, although   *)
(* every byte that is read, of a key that is released too, is put into the *)
(* buffer first, and print() stops at a 0 that somebody must have left.    *)
LineShown == shown = [k \in 1 .. idx |-> buffer[k - 1]]

(* stdin implements a bounded type-ahead: the keys come in order, once,    *)
(* and only the oldest one gives way.                                      *)
Pending == [k \in 1 .. used |-> buff[(readIdx + k - 1) % BUFF_SIZE]]

Promise == INSTANCE TypeAhead
  WITH Byte <- Strokes \cup {EOF}, Size <- BUFF_SIZE, pending <- Pending

TypeAheadKept == Promise!Spec

(* When the keys stop, all are read, whoever was killed in the wait for    *)
(* one: unless the foreground does not read, or the shell waits for a      *)
(* command that was gone before it asked: waitPid() does not look for one. *)
Deaf ==
  \/ pc[COMMAND] = "run"
  \/ pc[SHELL] = "waiting" /\ p_state[SHELL] = "BLOCKED" /\ p_state[COMMAND] = "TERMINATED"

KeysAreRead == <>[][UNCHANGED writeIdx]_vars => <>[](used = 0 \/ Deaf)

(* shell.c:107: a special key that does not matter is erased.  When both   *)
(* of its bytes have come and the reader sleeps again, nothing is left.    *)
LastByte == buff[(writeIdx + BUFF_SIZE - 1) % BUFF_SIZE]

SpecialKeysErased == Asleep(read_fd_0) # {} /\ LastByte # E_KEYS => used = 0
=============================================================================
