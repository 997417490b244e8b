------------------------------ MODULE TypeAhead ------------------------------
(***************************************************************************)
(* What a keyboard promises to who reads it: the keys wait in the order in *)
(* which they were pressed, each is read once, and when there are too many *)
(* the oldest one is forgotten, none else.                                 *)
(***************************************************************************)
EXTENDS Naturals, Sequences

CONSTANTS Byte, Size

VARIABLE pending

Init == pending = <<>>

Press ==
  \E b \in Byte :
    pending' = IF Len(pending) < Size THEN Append(pending, b) ELSE Append(Tail(pending), b)

Read == pending # <<>> /\ pending' = Tail(pending)

(* ctrl-C forgets all that was typed ahead.                                *)
Forget == pending' = <<>>

Next == Press \/ Read \/ Forget

Spec == Init /\ [][Next]_pending
=============================================================================
