------------------------------- MODULE Channel -------------------------------
(***************************************************************************)
(* What a pipe promises: the bytes of its writer, which are numbered in    *)
(* the order they are written, come out in that order, followed by one     *)
(* EOF, and no more than Size of them are on their way.                    *)
(***************************************************************************)
EXTENDS Integers, Sequences

CONSTANTS Size, EOF

VARIABLES contents, written, ended, taken

Init == contents = <<>> /\ written = 0 /\ ended = FALSE /\ taken = <<>>

Room == ~ended /\ Len(contents) < Size

Write ==
  /\ Room
  /\ written' = written + 1
  /\ contents' = Append(contents, written + 1)
  /\ UNCHANGED <<ended, taken>>

End ==
  /\ Room
  /\ ended' = TRUE
  /\ contents' = Append(contents, EOF)
  /\ UNCHANGED <<written, taken>>

Read ==
  /\ contents # <<>>
  /\ taken' = Append(taken, Head(contents))
  /\ contents' = Tail(contents)
  /\ UNCHANGED <<written, ended>>

(* A pipe that nobody reads goes away with what is in it.                  *)
Free == ended /\ contents' = <<>> /\ UNCHANGED <<written, ended, taken>>

Next == Write \/ End \/ Read \/ Free

Spec == Init /\ [][Next]_<<contents, written, ended, taken>>
=============================================================================
