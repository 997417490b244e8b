----------------------------- MODULE Allocator -----------------------------
(***************************************************************************)
(* What Kernel/include/memoryManager.h promises to its callers: a block    *)
(* that was given lies in the heap, is as long as was asked for, and is    *)
(* nobody else's until it is given back.  A request may always be refused. *)
(***************************************************************************)
EXTENDS Integers

CONSTANTS First, Beyond,   \* the bounds of the heap
          Sizes            \* what callers may ask for

VARIABLE held    \* the blocks as their owners see them: address and length

End(b) == b.address + b.size

Apart(b, c) == End(b) <= c.address \/ End(c) <= b.address

Init == held = {}

memAlloc(b) ==
  /\ b.size \in Sizes
  /\ First <= b.address /\ End(b) <= Beyond
  /\ \A c \in held : Apart(b, c)
  /\ held' = held \cup {b}

memFree(b) == held' = held \ {b}

Next == \/ \E b \in held' : memAlloc(b)
        \/ \E b \in held : memFree(b)

Spec == Init /\ [][Next]_held
=============================================================================
