------------------------------- MODULE Buddy -------------------------------
(***************************************************************************)
(* Kernel/memoryManager/buddy.c, the allocator of `make buddy`: one free   *)
(* list for each power of two.  A block of level i is halved until it is   *)
(* as small as the request allows; a block that is freed is joined with    *)
(* its other half, its buddy, for as long as that one is free.             *)
(*                                                                         *)
(* Blocks are named by their distance from firstAddress.  taken has the    *)
(* blocks in use with the level that memFree() reads from their header.    *)
(***************************************************************************)
EXTENDS Integers, SequencesExt

CONSTANTS
  Start, Total,     \* start_ptr and size_bytes of memInit()
  Header,           \* sizeof(Block)
  MIN_BLOCK_SIZE,
  MAX_EXP

VARIABLES free_lists, taken

buddyVars == <<free_lists, taken>>

NULL  == 0
NoBlock == -1
Level == 0 .. MAX_EXP

(* 1 << i doubles i times.                                                 *)
Shifted[i \in 0 .. MAX_EXP + 1] == IF i = 0 THEN 1 ELSE 2 * Shifted[i - 1]

BLOCKSIZE(i) == Shifted[i] * MIN_BLOCK_SIZE

(* The other half: the distance with the bit of the level inverted.        *)
GET_BUDDY(b, i) == IF (b \div BLOCKSIZE(i)) % 2 = 0 THEN b + BLOCKSIZE(i) ELSE b - BLOCKSIZE(i)

(* obtainIndex(): the first level that is large enough, MAX_EXP + 1 for    *)
(* all that are beyond the largest.                                        *)
obtainIndex(size) ==
  CHOOSE i \in 0 .. MAX_EXP + 1 :
    /\ \A j \in 0 .. i - 1 : BLOCKSIZE(j) < size
    /\ i <= MAX_EXP => BLOCKSIZE(i) >= size

(* The largest level that is inside of the memory.                         *)
RootLevel ==
  LET i == obtainIndex(Total)
      j == IF BLOCKSIZE(i) > Total THEN i - 1 ELSE i
  IN IF j > MAX_EXP THEN MAX_EXP ELSE j

memInit ==
  /\ free_lists = [i \in Level |-> IF i = RootLevel THEN <<0>> ELSE <<>>]
  /\ taken = {}

-----------------------------------------------------------------------------
(* memAllocRec(): the head of the first list from level i on that has a    *)
(* block.  On the way back it is halved at each level, and the other half  *)
(* goes to the list of that level.                                         *)
Stocked(lists, i) == {j \in i .. MAX_EXP : lists[j] # <<>>}

memAllocRec(lists, i) ==
  IF Stocked(lists, i) = {} THEN [block |-> NoBlock, lists |-> lists]
  ELSE LET top == Min(Stocked(lists, i))
           b == Head(lists[top])
       IN [block |-> b,
           lists |-> [j \in Level |-> IF j \in i .. top - 1 THEN <<GET_BUDDY(b, j)>> \o lists[j]
                                     ELSE IF j = top THEN Tail(lists[j])
                                     ELSE lists[j]]]

Needed(n) == obtainIndex(n + Header)

Answer(n) == IF n = 0 THEN [block |-> NoBlock, lists |-> free_lists]
             ELSE memAllocRec(free_lists, Needed(n))

memAlloc(n) ==
  /\ free_lists' = Answer(n).lists
  /\ taken' = IF Answer(n).block = NoBlock THEN taken
              ELSE taken \cup {[addr |-> Answer(n).block, level |-> Needed(n)]}

Allocated(n) == IF Answer(n).block = NoBlock THEN NULL ELSE Start + Answer(n).block + Header

-----------------------------------------------------------------------------
(* memFreeRec(): a block whose buddy is not free goes to the head of the   *)
(* list of its level.                                                      *)
StillListed(s, b) == s

Without(s, b) == RemoveAt(s, Min({k \in 1 .. Len(s) : s[k] = b}))

IsHead(s, b) == s # <<>> /\ Head(s) = b

In(s, b) == \E k \in 1 .. Len(s) : s[k] = b

Itself(b, c) == b

Lower(b, c) == IF b > c THEN c ELSE b

(* Where the block of level i starts when it has grown to level j.         *)
Grown(b, i) ==
  LET at[j \in i .. MAX_EXP + 1] ==
        IF j = i THEN b ELSE Lower(at[j - 1], GET_BUDDY(at[j - 1], j - 1))
  IN at

memFreeRec(lists, b, i) ==
  LET at == Grown(b, i)
      top == Min({j \in i .. MAX_EXP : ~In(lists[j], GET_BUDDY(at[j], j))})
  IN [j \in Level |-> IF j \in i .. top - 1 THEN Without(lists[j], GET_BUDDY(at[j], j))
                     ELSE IF j = top THEN <<at[j]>> \o lists[j]
                     ELSE lists[j]]

Given(ptr) == {b \in taken : Start + b.addr + Header = ptr}

memFree(ptr) ==
  \E b \in Given(ptr) :
    /\ free_lists' = memFreeRec(free_lists, b.addr, b.level)
    /\ taken' = taken \ {b}

-----------------------------------------------------------------------------
Spans == UNION {{[addr |-> free_lists[i][k], level |-> i] : k \in 1 .. Len(free_lists[i])} :
                  i \in Level}

(* The blocks in use and in the lists halve the root: they do not overlap, *)
(* nothing is lost, and a block starts at a multiple of its length, which  *)
(* GET_BUDDY relies on.                                                    *)
Halved ==
  LET all == Spans \cup taken
      after(b) == b.addr + BLOCKSIZE(b.level)
  IN /\ \A b \in all : b.addr % BLOCKSIZE(b.level) = 0
     /\ \A b, c \in all : b # c => after(b) <= c.addr \/ after(c) <= b.addr
     /\ Spans \cap taken = {}
     /\ \A i \in Level : IsInjective(free_lists[i])
     /\ \E b \in all : b.addr = 0
     /\ \A b \in all : (\E c \in all : c.addr = after(b)) \/ after(b) = BLOCKSIZE(RootLevel)

(* No two buddies are both free, so that a heap whose blocks have all been *)
(* freed is one block again.                                               *)
Joined ==
  /\ \A i \in Level : \A b \in {s \in Spans : s.level = i} :
       i < RootLevel => ~In(free_lists[i], GET_BUDDY(b.addr, i))
  /\ taken = {} => \A i \in Level : free_lists[i] = IF i = RootLevel THEN <<0>> ELSE <<>>
=============================================================================
