---------------------------- MODULE CommandLine ----------------------------
(***************************************************************************)
(* How Userland/Shell/shell.c makes commands of a line: parseArgs() cuts   *)
(* it into words, prepareCommands() looks for a pipe, and getCommand()     *)
(* finds the program, the arguments and the stdin of each side.            *)
(*                                                                         *)
(* A line is the sequence of its words.  The words are written over those  *)
(* of the lines before, in an array that nobody clears, and what says how  *)
(* many of them are new is the count that goes with it.                    *)
(***************************************************************************)
EXTENDS Integers, Sequences

CONSTANT MAX_ARGS

ASSUME CommandLineAssumption == MAX_ARGS \in Nat \ {0}

NONE == ""            \* an entry of arguments that was never used
OUTSIDE == "?"        \* what lies behind the array, or was never written

(* The numbers of the lines at hand; strToInt() refuses other words.       *)
Value == [w \in {"0", "1", "7", "200"} |->
            CASE w = "0" -> 0 [] w = "1" -> 1 [] w = "7" -> 7 [] w = "200" -> 200]

-----------------------------------------------------------------------------
(* Which words each command passes to its program, from the first to the   *)
(* last, and so how many it needs.                                         *)
Nothing(n) == <<n + 1, n>>

Uses ==
  [c \in {"fun", "clear", "time", "ps", "filter", "wc", "mem", "cat", "phylo"} |-> Nothing(1)]

UsesArgs == [math |-> <<2, 4>>, kill |-> <<2, 2>>, nice |-> <<2, 3>>, block |-> <<2, 3>>, loop |-> <<2, 2>>]

TestUses == [mm |-> <<3, 3>>, processes |-> <<3, 3>>, priority |-> Nothing(2), sync |-> <<3, 4>>]

(* help takes math or test, or no word but the &.                          *)
HelpUses(args) ==
  IF Len(args) >= 2 /\ args[2] # "&" THEN <<2, 2>> ELSE Nothing(1)

(* The rows that fit to the words: one, or none.                           *)
Rows(args) ==
  CASE args[1] = "help" -> {HelpUses(args)}
    [] args[1] \in DOMAIN Uses -> {Uses[args[1]]}
    [] args[1] \in DOMAIN UsesArgs -> {UsesArgs[args[1]]}
    [] args[1] = "test" -> {TestUses[t] : t \in {args[2]} \cap DOMAIN TestUses}
    [] OTHER -> {}

(* What is asked of the words it passes.  test mm and test processes do    *)
(* not look whether strToInt() gave them a number: what they compare then  *)
(* was never set.                                                          *)
InRange(w, top) == IF w \in DOMAIN Value THEN {Value[w] \in 1 .. top} ELSE BOOLEAN

Accepts(args) ==
  CASE args[1] = "help" -> {Len(args) = 1 \/ args[2] \in {"&", "math", "test"}}
    [] args[1] = "block" -> {args[3] \in {"0", "1"}}
    [] args[1] = "loop" -> {args[2] \in DOMAIN Value /\ Value[args[2]] > 0}
    [] args[1] = "test" /\ args[2] = "mm" -> InRange(args[3], 128)
    [] args[1] = "test" /\ args[2] = "processes" -> InRange(args[3], 100)
    [] OTHER -> {TRUE}

(* All that getCommand() may return for these words.  function is NULL,    *)
(* here "none", for a command that is refused; p_name tells an empty side. *)
Refused == [p_name |-> "error", function |-> "none", args |-> <<>>, stdin |-> "STDIN"]

Empty == [Refused EXCEPT !.p_name = "N"]

Background(args) == args[Len(args)] = "&"

getCommand(args) ==
  IF args = <<>> THEN {Empty}
  ELSE LET rows == {r \in IF args = <<"test">> THEN {} ELSE Rows(args) : Len(args) >= r[2]}
           found == {[p_name |-> args[1], function |-> args[1],
                      args |-> SubSeq(args, r[1], r[2]),
                      stdin |-> IF Background(args) THEN "DEV_NULL" ELSE "STDIN"] : r \in rows}
       IN IF rows = {} THEN {Refused}
          ELSE UNION {IF ok THEN found ELSE {Refused} : ok \in Accepts(args)}

-----------------------------------------------------------------------------
(* parseArgs(), on the array that the lines before have left.              *)
Count(line) == IF Len(line) < MAX_ARGS THEN Len(line) ELSE MAX_ARGS

parseArgs(arguments, line) ==
  [k \in 1 .. MAX_ARGS |-> IF k <= Count(line) THEN line[k] ELSE arguments[k]]

(* hasPipe(): where the first | is.  One that opens the line is none.  The *)
(* variant looks at all of the array.                                      *)
FirstBar(arguments, n) ==
  LET bars == {k \in 1 .. n : arguments[k] = "|"}
  IN IF bars = {} THEN 0 ELSE CHOOSE k \in bars : \A j \in bars : k <= j

hasPipeAnywhere(arguments, argc) == FirstBar(arguments, MAX_ARGS)

hasPipe(arguments, argc) == FirstBar(arguments, argc)

(* The words behind the |, with those of older lines that follow, up to an *)
(* entry that was never used.  The index of the source runs off the array  *)
(* if there is none.                                                       *)
argAux(arguments, pipe) ==
  LET source(i) == IF pipe + i <= MAX_ARGS THEN arguments[pipe + i] ELSE OUTSIDE
  IN [i \in 1 .. MAX_ARGS |-> IF \E j \in 1 .. i : source(j) = NONE THEN OUTSIDE ELSE source(i)]

Words(array, n) == [k \in 1 .. n |-> array[k]]

(* All that prepareCommands() may return for a line.                       *)
prepareCommands(arguments, argc) ==
  LET pipe == hasPipe(arguments, argc)
  IN IF pipe > 1
     THEN getCommand(Words(arguments, pipe - 1))
          \X getCommand(Words(argAux(arguments, pipe), argc - pipe))
     ELSE {<<c>> : c \in getCommand(Words(arguments, argc))}

-----------------------------------------------------------------------------
(* What a line means by itself: one command, or two around its first |.    *)
Cuts(words) == {k \in 2 .. Len(words) : words[k] = "|" /\ \A j \in 1 .. k - 1 : words[j] # "|"}

Around(words, k) ==
  getCommand(SubSeq(words, 1, k - 1)) \X getCommand(SubSeq(words, k + 1, Len(words)))

Meaning(line) ==
  LET words == SubSeq(line, 1, Count(line))
  IN IF Cuts(words) = {} THEN {<<c>> : c \in getCommand(words)}
     ELSE UNION {Around(words, k) : k \in Cuts(words)}
=============================================================================
