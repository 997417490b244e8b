------------------------------- MODULE TestMM -------------------------------
(***************************************************************************)
(* Userland/Testing/test_mm.c on the allocator that was built in: `make    *)
(* all` takes the free list, `make buddy` the other one.  A test asks for  *)
(* blocks of random sizes, fills block i with the byte i, checks that they *)
(* are still full of it, and frees them, for ever.  Several tests run at   *)
(* once in the background, and ctrl-C or kill ends one at any statement:   *)
(* its blocks are never freed (freeProcess() does not know them).          *)
(*                                                                         *)
(* A system call is one step.  Of the memory the model keeps which blocks  *)
(* still have their pattern: filling a block, and the allocator's writes   *)
(* to its headers, take it away from every block they reach.  A test that  *)
(* takes a refusal for a block (the free list adds its header to NULL)     *)
(* fills the bytes from there on, and if these reach the heap the first    *)
(* header of the allocator is gone: there the model stops for all tests.   *)
(***************************************************************************)
EXTENDS FreeList, FiniteSets

CONSTANTS
  BuddyHeader, BuddyMin, MAX_EXP,   \* the constants of buddy.c
  Managers,         \* the managers looked at: "free list", "buddy"
  Tests,            \* the processes that run test_mm
  MAX_BLOCKS,
  MaxMemory,        \* the argument of the test
  MaxKills          \* bound: how many tests are killed and started again

ASSUME TestMMAssumption ==
  /\ BuddyHeader \in Nat /\ BuddyHeader < BuddyMin /\ BuddyMin <= Total
  /\ BuddyMin \in Nat /\ MAX_EXP \in Nat
  /\ Managers \subseteq {"free list", "buddy"}
  /\ MAX_BLOCKS \in Nat \ {0} /\ MaxMemory \in Nat \ {0} /\ MaxKills \in Nat
  /\ 1 \in Request         \* GetUniform() can always give it

VARIABLES
  free_lists, taken,        \* of buddy.c
  manager,
  pc,
  mm_rqs,                   \* the blocks each test holds
  i,                        \* its loop counter
  intact,                   \* the indices whose block has its pattern
  leaked,                   \* what killed tests held
  kills

clients == <<manager, pc, mm_rqs, i, intact, leaked, kills>>

vars == <<freeListVars, free_lists, taken, clients>>

B == INSTANCE Buddy WITH Header <- BuddyHeader, MIN_BLOCK_SIZE <- BuddyMin

Init ==
  /\ memInit /\ B!memInit
  /\ manager \in Managers
  /\ pc = [t \in Tests |-> "request"]
  /\ mm_rqs = [t \in Tests |-> <<>>]
  /\ i = [t \in Tests |-> 1]
  /\ intact = [t \in Tests |-> {}]
  /\ leaked = {}
  /\ kills = 0

-----------------------------------------------------------------------------
(* sys_malloc() and sys_free() of whichever manager is there.              *)
sys_malloc(n) ==
  \/ manager = "free list" /\ memAlloc(n) /\ UNCHANGED <<free_lists, taken>>
  \/ manager = "buddy" /\ B!memAlloc(n) /\ UNCHANGED freeListVars

Address(n) == IF manager = "free list" THEN Allocated(n) ELSE B!Allocated(n)

sys_free(ptr) ==
  \/ manager = "free list" /\ memFree(ptr) /\ UNCHANGED <<free_lists, taken>>
  \/ manager = "buddy" /\ B!memFree(ptr) /\ UNCHANGED freeListVars

(* Where the manager keeps its headers.                                    *)
Headers ==
  IF manager = "free list"
  THEN {[address |-> b.addr, size |-> Header] : b \in Blocks}
  ELSE {[address |-> Start + b.addr, size |-> BuddyHeader] : b \in B!Spans \cup taken}

(* What is left of the patterns when the bytes of some blocks, each with   *)
(* its address and size, are overwritten.                                  *)
Overlap(b, c) == b.address < c.address + c.size /\ c.address < b.address + b.size

Survives(written) ==
  [t \in Tests |-> {k \in intact[t] : \A b \in written : ~Overlap(mm_rqs[t][k], b)}]

-----------------------------------------------------------------------------
(* One turn of each loop of test_mm().                                     *)
total(t) == LET f[k \in 0 .. Len(mm_rqs[t])] == IF k = 0 THEN 0 ELSE f[k - 1] + mm_rqs[t][k].size
            IN f[Len(mm_rqs[t])]

More(t) == Len(mm_rqs[t]) < MAX_BLOCKS /\ total(t) < MaxMemory

(* GetUniform(max_memory - total - 1) + 1                                  *)
Size(t) == {n \in Request : n >= 1 /\ (n = 1 \/ n <= MaxMemory - total(t) - 1)}

Ask(t) ==
  /\ pc[t] = "request" /\ More(t)
  /\ \E n \in Size(t) :
       /\ sys_malloc(n)
       /\ mm_rqs' = IF Address(n) = NULL THEN mm_rqs
                    ELSE [mm_rqs EXCEPT ![t] = Append(@, [address |-> Address(n), size |-> n])]
  /\ UNCHANGED <<manager, pc, i, leaked, kills>>
  /\ intact' = Survives(Headers')

Go(t, from, to) ==
  /\ pc[t] = from
  /\ pc' = [pc EXCEPT ![t] = to]

Asked(t) ==
  /\ ~More(t) /\ Go(t, "request", "set")
  /\ UNCHANGED <<freeListVars, free_lists, taken, manager, mm_rqs, i, intact, leaked, kills>>

(* The loops over the blocks: body is done for block i[t].                 *)
Loop(t, from, to) ==
  IF i[t] < Len(mm_rqs[t])
  THEN Go(t, from, from) /\ i' = [i EXCEPT ![t] = @ + 1]
  ELSE Go(t, from, to) /\ i' = [i EXCEPT ![t] = 1]

(* What memAlloc() of the free list returns when it has no room, and a     *)
(* refused block that is large enough to reach the heap.                   *)
Refused == NULL + Header

Reaches(b) == b.address = Refused /\ b.address + b.size > Start

Set(t) ==
  /\ Loop(t, "set", "check")
  /\ ~Reaches(mm_rqs[t][i[t]])
  /\ intact' = [Survives({mm_rqs[t][i[t]]}) EXCEPT ![t] = @ \cup {i[t]}]
  /\ UNCHANGED <<freeListVars, free_lists, taken, manager, mm_rqs, leaked, kills>>

Wreck(t) ==
  /\ pc[t] = "set" /\ Reaches(mm_rqs[t][i[t]])
  /\ pc' = [u \in Tests |-> "wrecked"]
  /\ UNCHANGED <<freeListVars, free_lists, taken, manager, mm_rqs, i, intact, leaked, kills>>

Check(t) ==
  /\ IF i[t] \in intact[t] THEN Loop(t, "check", "free") ELSE Go(t, "check", "error") /\ UNCHANGED i
  /\ intact' = IF pc'[t] = "free" THEN [intact EXCEPT ![t] = {}] ELSE intact
  /\ UNCHANGED <<freeListVars, free_lists, taken, manager, mm_rqs, leaked, kills>>

(* The blocks are freed from the first to the last; one that was freed is  *)
(* not looked at again and leaves mm_rqs at once.                          *)
Free(t) ==
  /\ IF Len(mm_rqs[t]) > 1 THEN Go(t, "free", "free") ELSE Go(t, "free", "request")
  /\ sys_free(mm_rqs[t][1].address)
  /\ mm_rqs' = [mm_rqs EXCEPT ![t] = Tail(@)]
  /\ UNCHANGED <<manager, i, leaked, kills>>
  /\ intact' = Survives(Headers')

Owns(t) == {mm_rqs[t][k] : k \in 1 .. Len(mm_rqs[t])}

(* The test is killed or has ended with an error, and is started again.    *)
Restart(t) ==
  /\ pc[t] # "wrecked"
  /\ kills < MaxKills /\ kills' = kills + 1
  /\ leaked' = leaked \cup Owns(t)
  /\ pc' = [pc EXCEPT ![t] = "request"]
  /\ mm_rqs' = [mm_rqs EXCEPT ![t] = <<>>]
  /\ intact' = [intact EXCEPT ![t] = {}]
  /\ i' = [i EXCEPT ![t] = 1]
  /\ UNCHANGED <<freeListVars, free_lists, taken, manager>>

Next == \E t \in Tests :
  Ask(t) \/ Asked(t) \/ Set(t) \/ Wreck(t) \/ Check(t) \/ Free(t) \/ Restart(t)

Spec == Init /\ [][Next]_vars

(* The tests run the same program.                                         *)
Alike == Permutations(Tests)

-----------------------------------------------------------------------------
(* Every variable has its type.                                            *)
TypeOK ==
  /\ FreeListTypeOK
  /\ free_lists \in [0 .. MAX_EXP -> Seq(Nat)]
  /\ taken \in SUBSET [addr : Nat, level : 0 .. MAX_EXP]
  /\ manager \in Managers
  /\ pc \in [Tests -> {"request", "set", "wrecked", "check", "free", "error"}]
  /\ mm_rqs \in [Tests -> Seq([address : Nat, size : Request])]
  /\ i \in [Tests -> 1 .. MAX_BLOCKS]
  /\ intact \in [Tests -> SUBSET (1 .. MAX_BLOCKS)]
  /\ leaked \in SUBSET [address : Nat, size : Request]
  /\ kills \in 0 .. MaxKills

(* The blocks of the buddy allocator, taken and free, halve its memory:    *)
(* none overlap, nothing is lost, and two free halves are always joined    *)
(* again, however memAllocRec() and memFreeRec() alternate.                *)
BuddiesTile == B!Halved /\ B!Joined

(* The blocks of all tests that memAlloc() has really given.               *)
Owned == leaked \cup UNION {Owns(t) : t \in Tests}

(* test_mm never prints its error, whatever other tests do and wherever    *)
(* they are killed, unless it took a refusal for a block: no header of the *)
(* allocator and no block of another test reaches into its own, up to the  *)
(* moment a refusal of any test is filled into the heap.                   *)
PatternsSurvive ==
  \A t \in Tests : pc[t] = "error" => \E k \in 1 .. Len(mm_rqs[t]) : mm_rqs[t][k].address = Refused

(* Both managers keep the promise of Allocator to those who do not take a  *)
(* refusal for a block.                                                    *)
A == INSTANCE Allocator WITH
       First <- Start, Beyond <- Start + Total, Sizes <- Request,
       held <- {b \in Owned : b.address # Refused}

KeepsPromise == A!Spec

(* if (mm_rqs[rq].address): an address that is not 0 is that of a block.   *)
AddressIsBlock ==
  manager = "free list" =>
    \A t \in Tests : \A b \in Owns(t) : Given(b.address) # {}
=============================================================================
