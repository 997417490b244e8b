------------------------------ MODULE FreeList ------------------------------
(***************************************************************************)
(* Kernel/memoryManager/freeList.c, the allocator of `make all`: the free  *)
(* blocks are a list in the order of their addresses, and a request takes  *)
(* the smallest one that fits and leaves the rest of it in the list.       *)
(*                                                                         *)
(* An address is the byte it stands for, and a block is its header: where  *)
(* it starts and how many bytes follow the header.  allocated_list is only *)
(* walked to unlink a block, so it is a set.  The counters of mem_info are *)
(* only printed and left out.                                              *)
(***************************************************************************)
EXTENDS Integers, SequencesExt

CONSTANTS
  Start, Total,     \* start_ptr and size_bytes of memInit()
  Header,           \* sizeof(Node)
  MIN_BLOCK_SIZE,
  Word,             \* sizes are rounded up to multiples of this
  Request           \* what callers ask for

ASSUME FreeListAssumption ==
  /\ Header \in Nat \ {0} /\ Word \in Nat \ {0}
  /\ Start \in Nat /\ Header < Start /\ Start % Word = 0
  /\ MIN_BLOCK_SIZE \in Nat /\ Header <= MIN_BLOCK_SIZE
  /\ Total \in Nat /\ MIN_BLOCK_SIZE <= Total
  /\ Request \subseteq Nat

VARIABLES free_list, allocated_list

freeListVars == <<free_list, allocated_list>>

NULL == 0

Block == [addr : Nat, size : Nat]

End(b) == b.addr + Header + b.size

memInit ==
  /\ free_list = <<[addr |-> Start, size |-> Total - Header]>>
  /\ allocated_list = {}

-----------------------------------------------------------------------------
(* memAlloc(): room for a header more than was asked for, not less than    *)
(* the minimum, in whole words.                                            *)
RoundedUp(n) == IF n % Word = 0 THEN n ELSE n + (Word - (n % Word))

NeedsNoHeader(n) == RoundedUp(IF n < MIN_BLOCK_SIZE THEN MIN_BLOCK_SIZE ELSE n)

Needs(n) ==
  LET bytes == n + Header
  IN RoundedUp(IF bytes < MIN_BLOCK_SIZE THEN MIN_BLOCK_SIZE ELSE bytes)

Fitting(bytes) == {k \in 1 .. Len(free_list) : free_list[k].size >= bytes}

(* The first one of the smallest that fit.                                 *)
Best(bytes) ==
  CHOOSE k \in Fitting(bytes) :
    \A j \in Fitting(bytes) :
      \/ free_list[k].size < free_list[j].size
      \/ free_list[k].size = free_list[j].size /\ k <= j

(* A free block fits if its size without the header is enough for the      *)
(* bytes with the header, so the rest that goes back to the list always    *)
(* has room for its own header.                                            *)
RestWithoutHeader(b, bytes) == [addr |-> b.addr + bytes, size |-> b.size - Header - bytes]

Rest(b, bytes) == [addr |-> b.addr + bytes, size |-> b.size - bytes]

memAllocInner(bytes) ==
  \/ Fitting(bytes) = {} /\ UNCHANGED freeListVars
  \/ /\ Fitting(bytes) # {}
     /\ LET k == Best(bytes)
            best == free_list[k]
        IN /\ free_list' = ReplaceAt(free_list, k, Rest(best, bytes))
           /\ allocated_list' = allocated_list \cup
                                  {[addr |-> best.addr, size |-> bytes - Header]}

memAlloc(n) == memAllocInner(Needs(n))

(* What memAlloc() returns: the byte behind the header, of NULL as well.   *)
Allocated(n) ==
  Header + (IF Fitting(Needs(n)) = {} THEN NULL ELSE free_list[Best(Needs(n))].addr)

-----------------------------------------------------------------------------
(* memFree(): the block goes to its place in the list, and is joined with  *)
(* the one behind it and the one before it if they touch.                  *)
Place(b) ==
  CHOOSE k \in 1 .. Len(free_list) + 1 :
    /\ \A j \in 1 .. k - 1 : free_list[j].addr < b.addr
    /\ k <= Len(free_list) => free_list[k].addr >= b.addr

BothButHeader(b, c) == [addr |-> b.addr, size |-> b.size + c.size]

Both(b, c) == [addr |-> b.addr, size |-> b.size + Header + c.size]

JoinedAt(s, k) ==
  IF k \in 1 .. Len(s) - 1 /\ End(s[k]) = s[k + 1].addr
  THEN ReplaceAt(RemoveAt(s, k + 1), k, Both(s[k], s[k + 1]))
  ELSE s

JoinedBehindOnly(s, k) == JoinedAt(s, k)

Joined(s, k) == JoinedAt(JoinedAt(s, k), k - 1)

memFreeInner(b) ==
  /\ allocated_list' = allocated_list \ {b}
  /\ free_list' = Joined(InsertAt(free_list, Place(b), b), Place(b))

Given(ptr) == {b \in allocated_list : b.addr + Header = ptr}

memFree(ptr) ==
  \/ ptr - Header = NULL /\ UNCHANGED freeListVars
  \/ \E b \in Given(ptr) : memFreeInner(b)

-----------------------------------------------------------------------------
(* The allocator by itself: anybody allocates, and frees what was given.   *)
freeListNext ==
  \/ \E n \in Request : memAlloc(n)
  \/ \E b \in allocated_list : memFree(b.addr + Header)

freeListSpec == memInit /\ [][freeListNext]_freeListVars

-----------------------------------------------------------------------------
(* Both lists hold blocks.                                                 *)
FreeListTypeOK ==
  /\ free_list \in Seq(Block)
  /\ allocated_list \in SUBSET Block

(* The blocks of a free list s and the allocated ones of A tile the heap:  *)
(* the list is in the order of the addresses, no byte is in two blocks,    *)
(* and each block ends where another starts or where the heap ends.        *)
InList(s) == {s[k] : k \in 1 .. Len(s)}

InOrder(s) == \A j, k \in 1 .. Len(s) : j < k => End(s[j]) <= s[k].addr

Apart(b, c) == End(b) <= c.addr \/ End(c) <= b.addr

InHeap(b) == Start <= b.addr /\ End(b) <= Start + Total

Tiled(s, A) ==
  LET all == InList(s) \cup A
  IN /\ InOrder(s)
     /\ InList(s) \cap A = {}
     /\ \A b \in all : InHeap(b)
     /\ \A b, c \in all : b # c => Apart(b, c)
     /\ \E b \in all : b.addr = Start
     /\ \A b \in all : End(b) = Start + Total \/ \E c \in all : c.addr = End(b)

Blocks == InList(free_list) \cup allocated_list

(* Splitting, inserting and joining never give a byte to two blocks, and   *)
(* never lose one.                                                         *)
HeapTiled == Tiled(free_list, allocated_list)

(* No two free blocks touch, so that a heap whose blocks have all been     *)
(* freed is one block again.                                               *)
Coalesced ==
  /\ \A k \in 1 .. Len(free_list) - 1 : End(free_list[k]) # free_list[k + 1].addr
  /\ allocated_list = {} => free_list = <<[addr |-> Start, size |-> Total - Header]>>
=============================================================================
