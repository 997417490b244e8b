---------------------------- MODULE MemoryProofs ----------------------------
(***************************************************************************)
(* For any heap, headers and requests: the blocks of freeList.c tile the   *)
(* heap and no two free ones touch; those of buddy.c halve it and no two   *)
(* free buddies are left; and any number of test_mm() on either of them    *)
(* own blocks of their own, which keep what was written into them.         *)
(*                                                                         *)
(* freeList.c comes first, then buddy.c, then the tests.                   *)
(***************************************************************************)
EXTENDS TestMM, SequenceTheorems, WellFoundedInduction, NaturalsInduction, TLAPS

-----------------------------------------------------------------------------
(* The helpers on sequences, by their elements.                            *)
LEMMA InsertAtElements ==
  ASSUME NEW S, NEW s \in Seq(S), NEW e \in S, NEW k \in 1 .. Len(s) + 1
  PROVE  /\ InsertAt(s, k, e) \in Seq(S)
         /\ Len(InsertAt(s, k, e)) = Len(s) + 1
         /\ \A j \in 1 .. Len(s) + 1 :
              InsertAt(s, k, e)[j] = IF j < k THEN s[j] ELSE IF j = k THEN e ELSE s[j - 1]
<1> DEFINE before == SubSeq(s, 1, k - 1)
           after == SubSeq(s, k, Len(s))
<1>1. /\ Len(s) \in Nat
      /\ \A j \in 1 .. Len(s) : s[j] \in S
  BY LenProperties, ElementOfSeq
<1>2. /\ before \in Seq(S) /\ Len(before) = k - 1
      /\ \A j \in 1 .. k - 1 : before[j] = s[j]
  BY <1>1, SubSeqProperties
<1>3. /\ after \in Seq(S) /\ Len(after) = Len(s) - k + 1
      /\ \A j \in 1 .. Len(s) - k + 1 : after[j] = s[k + j - 1]
  BY <1>1, SubSeqProperties
<1>4. <<e>> \in Seq(S) /\ Len(<<e>>) = 1 /\ <<e>>[1] = e
  OBVIOUS
<1> HIDE DEF before, after
<1> DEFINE front == before \o <<e>>
<1>5. /\ front \in Seq(S) /\ Len(front) = k
      /\ \A j \in 1 .. k : front[j] = IF j <= k - 1 THEN before[j] ELSE <<e>>[j - (k - 1)]
  BY <1>2, <1>4, ConcatProperties
<1> HIDE DEF front
<1>6. /\ front \o after \in Seq(S) /\ Len(front \o after) = Len(s) + 1
      /\ \A j \in 1 .. Len(s) + 1 : (front \o after)[j] = IF j <= k THEN front[j] ELSE after[j - k]
  BY <1>1, <1>3, <1>5, ConcatProperties
<1>7. InsertAt(s, k, e) = front \o after
  BY DEF InsertAt, front, before, after
<1>8. ASSUME NEW j \in 1 .. Len(s) + 1
      PROVE  (front \o after)[j] = IF j < k THEN s[j] ELSE IF j = k THEN e ELSE s[j - 1]
  <2>1. CASE j < k
    BY <1>1, <1>2, <1>5, <1>6, <2>1
  <2>2. CASE j = k
    BY <1>1, <1>4, <1>5, <1>6, <2>2
  <2>3. CASE j > k
    <3>1. j - k \in 1 .. Len(s) - k + 1 /\ k + (j - k) - 1 = j - 1
      BY <1>1, <2>3
    <3>2. (front \o after)[j] = after[j - k]
      BY <1>6, <2>3
    <3>3. after[j - k] = s[k + (j - k) - 1]
      BY <1>3, <3>1
    <3>4. QED
      BY <2>3, <3>1, <3>2, <3>3
  <2>4. j < k \/ j = k \/ j > k
    BY <1>1
  <2>5. QED
    BY <2>1, <2>2, <2>3, <2>4
<1>9. QED
  BY <1>6, <1>7, <1>8

LEMMA RemoveAtElements ==
  ASSUME NEW S, NEW s \in Seq(S), NEW k \in 1 .. Len(s)
  PROVE  /\ RemoveAt(s, k) \in Seq(S)
         /\ Len(RemoveAt(s, k)) = Len(s) - 1
         /\ \A j \in 1 .. Len(s) - 1 : RemoveAt(s, k)[j] = IF j < k THEN s[j] ELSE s[j + 1]
<1> DEFINE before == SubSeq(s, 1, k - 1)
           after == SubSeq(s, k + 1, Len(s))
<1>1. /\ Len(s) \in Nat
      /\ \A j \in 1 .. Len(s) : s[j] \in S
  BY LenProperties, ElementOfSeq
<1>2. /\ before \in Seq(S) /\ Len(before) = k - 1
      /\ \A j \in 1 .. k - 1 : before[j] = s[j]
  BY <1>1, SubSeqProperties
<1>3. /\ after \in Seq(S) /\ Len(after) = Len(s) - k
      /\ \A j \in 1 .. Len(s) - k : after[j] = s[k + j]
  BY <1>1, SubSeqProperties
<1> HIDE DEF before, after
<1>4. /\ before \o after \in Seq(S) /\ Len(before \o after) = Len(s) - 1
      /\ \A j \in 1 .. Len(s) - 1 :
           (before \o after)[j] = IF j <= k - 1 THEN before[j] ELSE after[j - (k - 1)]
  <2>1. Len(before) + Len(after) = Len(s) - 1
    BY <1>1, <1>2, <1>3
  <2>2. /\ before \o after \in Seq(S) /\ Len(before \o after) = Len(before) + Len(after)
        /\ \A j \in 1 .. Len(before) + Len(after) :
             (before \o after)[j] = IF j <= Len(before) THEN before[j] ELSE after[j - Len(before)]
    BY <1>2, <1>3, ConcatProperties
  <2>3. QED
    BY <1>2, <2>1, <2>2
<1>5. RemoveAt(s, k) = before \o after
  BY DEF RemoveAt, before, after
<1>6. ASSUME NEW j \in 1 .. Len(s) - 1
      PROVE  (before \o after)[j] = IF j < k THEN s[j] ELSE s[j + 1]
  <2>1. CASE j < k
    BY <1>1, <1>2, <1>4, <2>1
  <2>2. CASE j >= k
    <3>1. j - (k - 1) \in 1 .. Len(s) - k /\ k + (j - (k - 1)) = j + 1
      BY <1>1, <2>2
    <3>2. QED
      BY <1>1, <1>3, <1>4, <2>2, <3>1
  <2>3. j < k \/ j >= k
    BY <1>1
  <2>4. QED
    BY <2>1, <2>2, <2>3
<1>7. QED
  BY <1>4, <1>5, <1>6

LEMMA ReplaceAtElements ==
  ASSUME NEW S, NEW s \in Seq(S), NEW e \in S, NEW k \in 1 .. Len(s)
  PROVE  /\ ReplaceAt(s, k, e) \in Seq(S)
         /\ Len(ReplaceAt(s, k, e)) = Len(s)
         /\ \A j \in 1 .. Len(s) : ReplaceAt(s, k, e)[j] = IF j = k THEN e ELSE s[j]
BY ExceptSeq DEF ReplaceAt

-----------------------------------------------------------------------------
(* What the arithmetic of addresses gives.                                 *)
LEMMA EndAfter ==
  ASSUME NEW b \in Block
  PROVE  End(b) \in Nat /\ b.addr \in Nat /\ b.size \in Nat /\ b.addr < End(b)
BY FreeListAssumption DEF End, Block

LEMMA ListFacts ==
  ASSUME NEW s \in Seq(Block)
  PROVE  /\ Len(s) \in Nat
         /\ \A k \in 1 .. Len(s) : s[k] \in Block /\ s[k] \in InList(s)
         /\ InList(s) \subseteq Block
BY LenProperties, ElementOfSeq DEF InList

(* A block is in an ordered list once.                                     *)
LEMMA OrderedOnce ==
  ASSUME NEW s \in Seq(Block), InOrder(s), NEW j \in 1 .. Len(s), NEW k \in 1 .. Len(s), j # k
  PROVE  s[j] # s[k] /\ Apart(s[j], s[k])
<1>1. Len(s) \in Nat /\ s[j] \in Block /\ s[k] \in Block
  BY ListFacts
<1>2. j < k \/ k < j
  BY <1>1
<1>3. End(s[j]) <= s[k].addr \/ End(s[k]) <= s[j].addr
  BY <1>2 DEF InOrder
<1>4. QED
  BY <1>1, <1>3, EndAfter DEF Apart

-----------------------------------------------------------------------------
(* The rest of a block that is split begins behind what is taken of it.    *)
LEMMA SplitFacts ==
  ASSUME NEW b \in Block, NEW bytes \in Nat, Header <= bytes, bytes <= b.size
  PROVE  LET r == Rest(b, bytes)
             n == [addr |-> b.addr, size |-> bytes - Header]
         IN /\ r \in Block /\ n \in Block
            /\ n.addr = b.addr /\ End(n) = r.addr /\ End(r) = End(b) /\ b.addr < r.addr
            /\ r.addr < End(r)
<1> DEFINE r == Rest(b, bytes)
           n == [addr |-> b.addr, size |-> bytes - Header]
<1>1. b.addr \in Nat /\ b.size \in Nat /\ Header \in Nat \ {0}
  BY EndAfter, FreeListAssumption
<1>2. /\ r = [addr |-> b.addr + bytes, size |-> b.size - bytes]
      /\ b.addr + bytes \in Nat /\ b.size - bytes \in Nat /\ bytes - Header \in Nat
  BY <1>1 DEF Rest
<1>3. r \in Block /\ n \in Block /\ r.addr = b.addr + bytes /\ r.size = b.size - bytes
  BY <1>2 DEF Block
<1>4. n.addr = b.addr /\ n.size = bytes - Header
  OBVIOUS
<1> HIDE DEF r, n
<1>5. QED
  BY <1>1, <1>3, <1>4 DEF End, r, n

(* A request: memAllocInner() splits a free block that is large enough.    *)
LEMMA SplitTiled ==
  ASSUME NEW s \in Seq(Block), NEW U \in SUBSET Block, Tiled(s, U),
         NEW k \in 1 .. Len(s), NEW bytes \in Nat, Header <= bytes, bytes <= s[k].size
  PROVE  LET t == ReplaceAt(s, k, Rest(s[k], bytes))
             n == [addr |-> s[k].addr, size |-> bytes - Header]
         IN t \in Seq(Block) /\ n \in Block /\ Tiled(t, U \cup {n})
<1> DEFINE b == s[k]
           r == Rest(s[k], bytes)
           n == [addr |-> s[k].addr, size |-> bytes - Header]
           t == ReplaceAt(s, k, r)
           all == InList(s) \cup U
<1>1. b \in Block /\ b \in InList(s) /\ b \notin U /\ all \subseteq Block /\ Len(s) \in Nat
  BY ListFacts DEF Tiled
<1>2. /\ r \in Block /\ n \in Block
      /\ n.addr = b.addr /\ End(n) = r.addr /\ End(r) = End(b) /\ b.addr < r.addr
      /\ r.addr < End(r)
  BY <1>1, SplitFacts
<1> HIDE DEF r, n
<1>3. /\ t \in Seq(Block) /\ Len(t) = Len(s)
      /\ \A j \in 1 .. Len(s) : t[j] = IF j = k THEN r ELSE s[j]
  BY <1>2, ReplaceAtElements
<1> HIDE DEF t
<1>4. InOrder(s)
  BY DEF Tiled
<1>5. InList(t) = (InList(s) \ {b}) \cup {r}
  <2>1. \A j \in 1 .. Len(s) : j # k => s[j] # b
    BY <1>4, OrderedOnce
  <2>2. QED
    BY <1>1, <1>3, <2>1 DEF InList
<1>6. InList(t) \cup (U \cup {n}) = (all \ {b}) \cup {r, n}
  BY <1>1, <1>5
<1>7. ASSUME NEW c \in all \ {b}
      PROVE  Apart(c, r) /\ Apart(r, c) /\ Apart(c, n) /\ Apart(n, c) /\ c # r /\ c # n
  <2>1. c \in Block /\ Apart(c, b)
    BY <1>1 DEF Tiled
  <2>2. QED
    BY <1>1, <1>2, <2>1, EndAfter DEF Apart
<1>8. Apart(n, r) /\ Apart(r, n) /\ n # r
  BY <1>2, EndAfter DEF Apart
<1>9. InOrder(t)
  <2>1. SUFFICES ASSUME NEW h \in 1 .. Len(s), NEW j \in 1 .. Len(s), h < j
                 PROVE  End(t[h]) <= t[j].addr
    BY <1>3 DEF InOrder
  <2>2. End(s[h]) <= s[j].addr /\ s[h] \in Block /\ s[j] \in Block
    BY <1>4, <2>1, ListFacts DEF InOrder
  <2>3. CASE h = k
    BY <1>2, <1>3, <2>1, <2>2, <2>3
  <2>4. CASE j = k
    BY <1>1, <1>2, <1>3, <2>2, <2>4, EndAfter, SMTT(30)
  <2>5. CASE h # k /\ j # k
    BY <1>3, <2>2, <2>5
  <2>6. QED
    BY <2>3, <2>4, <2>5
<1>10. InList(t) \cap (U \cup {n}) = {}
  BY <1>1, <1>5, <1>7, <1>8 DEF Tiled
<1>11. \A c \in InList(t) \cup (U \cup {n}) : InHeap(c)
  <2>1. InHeap(b) /\ \A c \in all : InHeap(c)
    BY <1>1 DEF Tiled
  <2>2. InHeap(r) /\ InHeap(n)
    BY <1>1, <1>2, <2>1, EndAfter, FreeListAssumption, SMTT(30) DEF InHeap
  <2>3. QED
    BY <1>6, <2>1, <2>2
<1>12. \A c, d \in InList(t) \cup (U \cup {n}) : c # d => Apart(c, d)
  BY <1>6, <1>7, <1>8 DEF Tiled
<1>13. \E c \in InList(t) \cup (U \cup {n}) : c.addr = Start
  <2>1. PICK c \in all : c.addr = Start
    BY DEF Tiled
  <2>2. QED
    BY <1>2, <1>6, <2>1
<1>14. \A c \in InList(t) \cup (U \cup {n}) :
         End(c) = Start + Total \/ \E d \in InList(t) \cup (U \cup {n}) : d.addr = End(c)
  <2>1. ASSUME NEW c \in all, End(c) # Start + Total
        PROVE  \E d \in (all \ {b}) \cup {r, n} : d.addr = End(c)
    <3>1. PICK d \in all : d.addr = End(c)
      BY <2>1 DEF Tiled
    <3>2. QED
      BY <1>2, <3>1
  <2>2. QED
    BY <1>1, <1>2, <1>6, <2>1
<1>15. Tiled(t, U \cup {n})
  BY <1>9, <1>10, <1>11, <1>12, <1>13, <1>14 DEF Tiled
<1>16. QED
  BY <1>2, <1>3, <1>15 DEF t, r, n

-----------------------------------------------------------------------------
(* memFree(): an allocated block goes to a place that keeps the order.     *)
LEMMA InsertTiled ==
  ASSUME NEW s \in Seq(Block), NEW U \in SUBSET Block, Tiled(s, U), NEW b \in U,
         NEW k \in 1 .. Len(s) + 1,
         \A j \in 1 .. k - 1 : s[j].addr < b.addr,
         k <= Len(s) => s[k].addr >= b.addr
  PROVE  /\ InsertAt(s, k, b) \in Seq(Block)
         /\ Tiled(InsertAt(s, k, b), U \ {b})
<1> DEFINE t == InsertAt(s, k, b)
<1>1. b \in Block /\ b \notin InList(s) /\ Len(s) \in Nat /\ InOrder(s)
  BY ListFacts DEF Tiled
<1>2. /\ t \in Seq(Block) /\ Len(t) = Len(s) + 1
      /\ \A j \in 1 .. Len(s) + 1 : t[j] = IF j < k THEN s[j] ELSE IF j = k THEN b ELSE s[j - 1]
  BY <1>1, InsertAtElements
<1> HIDE DEF t
<1>3. \A j \in 1 .. Len(s) : s[j] \in Block /\ Apart(s[j], b)
  <2>1. SUFFICES ASSUME NEW j \in 1 .. Len(s)
                 PROVE  s[j] \in Block /\ Apart(s[j], b)
    OBVIOUS
  <2>2. s[j] \in Block /\ s[j] \in InList(s)
    BY ListFacts
  <2>3. QED
    BY <1>1, <2>2 DEF Tiled
<1>4. \A j \in 1 .. k - 1 : End(s[j]) <= b.addr
  <2>1. SUFFICES ASSUME NEW j \in 1 .. k - 1
                 PROVE  End(s[j]) <= b.addr
    OBVIOUS
  <2>2. j \in 1 .. Len(s) /\ s[j].addr < b.addr
    BY <1>1
  <2>3. QED
    BY <1>1, <1>3, <2>2, EndAfter DEF Apart
<1>5. \A j \in k .. Len(s) : End(b) <= s[j].addr
  <2>1. SUFFICES ASSUME NEW j \in k .. Len(s)
                 PROVE  End(b) <= s[j].addr
    OBVIOUS
  <2>2. k \in 1 .. Len(s) /\ s[k].addr >= b.addr /\ j \in 1 .. Len(s)
    BY <1>1
  <2>3. End(b) <= s[k].addr
    BY <1>1, <1>3, <2>2, EndAfter DEF Apart
  <2>4. CASE j = k
    BY <2>3, <2>4
  <2>5. CASE k < j
    <3>1. End(s[k]) <= s[j].addr
      BY <1>1, <2>2, <2>5 DEF InOrder
    <3>2. QED
      BY <1>1, <1>3, <2>2, <2>3, <3>1, EndAfter
  <2>6. QED
    BY <2>2, <2>4, <2>5
<1>6. InOrder(t)
  <2>1. SUFFICES ASSUME NEW h \in 1 .. Len(s) + 1, NEW j \in 1 .. Len(s) + 1, h < j
                 PROVE  End(t[h]) <= t[j].addr
    BY <1>2 DEF InOrder
  <2>2. CASE h = k
    <3>1. j - 1 \in k .. Len(s) /\ t[h] = b /\ t[j] = s[j - 1]
      BY <1>1, <1>2, <2>1, <2>2
    <3>2. QED
      BY <1>5, <3>1
  <2>3. CASE j = k
    <3>1. h \in 1 .. k - 1 /\ t[h] = s[h] /\ t[j] = b
      BY <1>1, <1>2, <2>1, <2>3
    <3>2. QED
      BY <1>4, <3>1
  <2>4. CASE h # k /\ j # k
    <3>1. PICK p, q \in 1 .. Len(s) : p < q /\ t[h] = s[p] /\ t[j] = s[q]
      <4>1. CASE j < k
        BY <1>1, <1>2, <2>1, <4>1
      <4>2. CASE h < k /\ k < j
        <5>1. h \in 1 .. Len(s) /\ j - 1 \in 1 .. Len(s) /\ h < j - 1
          BY <1>1, <2>1, <4>2
        <5>2. t[h] = s[h] /\ t[j] = s[j - 1]
          BY <1>1, <1>2, <4>2
        <5>3. QED
          BY <5>1, <5>2
      <4>3. CASE k < h
        <5>1. h - 1 \in 1 .. Len(s) /\ j - 1 \in 1 .. Len(s) /\ h - 1 < j - 1
          BY <1>1, <2>1, <4>3
        <5>2. t[h] = s[h - 1] /\ t[j] = s[j - 1]
          BY <1>1, <1>2, <2>1, <4>3
        <5>3. QED
          BY <5>1, <5>2
      <4>4. QED
        BY <1>1, <2>1, <2>4, <4>1, <4>2, <4>3
    <3>2. QED
      BY <1>1, <3>1 DEF InOrder
  <2>5. QED
    BY <2>2, <2>3, <2>4
<1>7. InList(t) = InList(s) \cup {b}
  <2>1. \A j \in 1 .. Len(t) : t[j] \in InList(s) \cup {b}
    <3>1. SUFFICES ASSUME NEW j \in 1 .. Len(s) + 1
                   PROVE  t[j] \in InList(s) \cup {b}
      BY <1>2
    <3>2. CASE j < k
      <4>1. j \in 1 .. Len(s) /\ t[j] = s[j]
        BY <1>1, <1>2, <3>2
      <4>2. QED
        BY <4>1, ListFacts
    <3>3. CASE j = k
      BY <1>2, <3>3
    <3>4. CASE k < j
      <4>1. j - 1 \in 1 .. Len(s) /\ t[j] = s[j - 1]
        BY <1>1, <1>2, <3>4
      <4>2. QED
        BY <4>1, ListFacts
    <3>5. QED
      BY <1>1, <3>2, <3>3, <3>4
  <2>2. \A j \in 1 .. Len(s) : s[j] \in InList(t)
    <3>1. SUFFICES ASSUME NEW j \in 1 .. Len(s)
                   PROVE  \E h \in 1 .. Len(s) + 1 : t[h] = s[j]
      BY <1>2 DEF InList
    <3>2. CASE j < k
      <4>1. j \in 1 .. Len(s) + 1 /\ t[j] = s[j]
        BY <1>1, <1>2, <3>2
      <4>2. QED
        BY <4>1
    <3>3. CASE k <= j
      <4>1. j + 1 \in 1 .. Len(s) + 1 /\ ~(j + 1 < k) /\ j + 1 # k /\ (j + 1) - 1 = j
        BY <1>1, <3>3
      <4>2. t[j + 1] = s[j]
        BY <1>2, <4>1
      <4>3. QED
        BY <4>1, <4>2
    <3>4. QED
      BY <1>1, <3>2, <3>3
  <2>3. b \in InList(t)
    <3>1. k \in 1 .. Len(t) /\ t[k] = b
      BY <1>1, <1>2
    <3>2. QED
      BY <3>1 DEF InList
  <2>4. InList(t) \subseteq InList(s) \cup {b}
    BY <2>1 DEF InList
  <2>5. InList(s) \subseteq InList(t)
    BY <2>2 DEF InList
  <2>6. QED
    BY <2>3, <2>4, <2>5
<1>8. InList(t) \cup (U \ {b}) = InList(s) \cup U
  BY <1>7
<1>9. InList(t) \cap (U \ {b}) = {}
  BY <1>7 DEF Tiled
<1>10. Tiled(t, U \ {b})
  BY <1>6, <1>8, <1>9 DEF Tiled
<1>11. QED
  BY <1>2, <1>10 DEF t
LEMMA BothFacts ==
  ASSUME NEW b \in Block, NEW c \in Block, End(b) = c.addr
  PROVE  Both(b, c) \in Block /\ Both(b, c).addr = b.addr /\ End(Both(b, c)) = End(c)
BY FreeListAssumption DEF Block, Both, End

(* A joined block has the bytes of both and the header between them.       *)
LEMMA JoinTiled ==
  ASSUME NEW s \in Seq(Block), NEW U \in SUBSET Block, Tiled(s, U), NEW k \in Int
  PROVE  JoinedAt(s, k) \in Seq(Block) /\ Tiled(JoinedAt(s, k), U)
<1>1. CASE ~(k \in 1 .. Len(s) - 1 /\ End(s[k]) = s[k + 1].addr)
  BY <1>1 DEF JoinedAt
<1>2. CASE k \in 1 .. Len(s) - 1 /\ End(s[k]) = s[k + 1].addr
  <2> DEFINE b == s[k]
             c == s[k + 1]
             m == Both(s[k], s[k + 1])
             u == RemoveAt(s, k + 1)
             t == ReplaceAt(u, k, m)
             all == InList(s) \cup U
  <2>1. /\ Len(s) \in Nat /\ k \in 1 .. Len(s) /\ k + 1 \in 1 .. Len(s)
        /\ InOrder(s) /\ all \subseteq Block
    <3>1. Len(s) \in Nat /\ InList(s) \subseteq Block
      BY ListFacts
    <3>2. InOrder(s)
      BY DEF Tiled
    <3>3. QED
      BY <1>2, <3>1, <3>2
  <2>2. /\ b \in Block /\ c \in Block /\ b \in InList(s) /\ c \in InList(s)
        /\ b \notin U /\ c \notin U
    BY <2>1, ListFacts DEF Tiled
  <2>3. m \in Block /\ m.addr = b.addr /\ End(m) = End(c) /\ End(b) = c.addr
    BY <1>2, <2>2, BothFacts
  <2> HIDE DEF m
  <2>4. /\ u \in Seq(Block) /\ Len(u) = Len(s) - 1
        /\ \A j \in 1 .. Len(s) - 1 : u[j] = IF j < k + 1 THEN s[j] ELSE s[j + 1]
    BY <2>1, RemoveAtElements
  <2> HIDE DEF u
  <2>5. /\ t \in Seq(Block) /\ Len(t) = Len(s) - 1
        /\ \A j \in 1 .. Len(s) - 1 : t[j] = IF j = k THEN m ELSE u[j]
    <3>1. k \in 1 .. Len(u)
      BY <1>2, <2>4
    <3>2. m \in Block /\ u \in Seq(Block)
      BY <2>3, <2>4
    <3>3. /\ t \in Seq(Block) /\ Len(t) = Len(u)
          /\ \A j \in 1 .. Len(u) : t[j] = IF j = k THEN m ELSE u[j]
      BY <3>1, <3>2, ReplaceAtElements
    <3>4. QED
      BY <2>4, <3>3
  <2> HIDE DEF t
  <2>6. \A j \in 1 .. Len(s) - 1 : t[j] = IF j < k THEN s[j] ELSE IF j = k THEN m ELSE s[j + 1]
    <3>1. ASSUME NEW j \in 1 .. Len(s) - 1
          PROVE  t[j] = IF j < k THEN s[j] ELSE IF j = k THEN m ELSE s[j + 1]
      <4>1. t[j] = IF j = k THEN m ELSE u[j]
        BY <2>5
      <4>2. u[j] = IF j < k + 1 THEN s[j] ELSE s[j + 1]
        BY <2>4
      <4>3. QED
        BY <2>1, <4>1, <4>2
    <3>2. QED
      BY <3>1
  <2>7. InOrder(t)
    <3>1. SUFFICES ASSUME NEW h \in 1 .. Len(s) - 1, NEW j \in 1 .. Len(s) - 1, h < j
                   PROVE  End(t[h]) <= t[j].addr
      BY <2>5 DEF InOrder
    <3>2. CASE h = k
      <4>1. j + 1 \in 1 .. Len(s) /\ k + 1 < j + 1 /\ t[h] = m /\ t[j] = s[j + 1]
        BY <2>1, <2>6, <3>1, <3>2
      <4>2. End(c) <= s[j + 1].addr
        BY <2>1, <4>1 DEF InOrder
      <4>3. QED
        BY <2>3, <4>1, <4>2
    <3>3. CASE j = k
      <4>1. h \in 1 .. Len(s) /\ h < k /\ t[h] = s[h] /\ t[j] = m
        BY <2>1, <2>6, <3>1, <3>3
      <4>2. End(s[h]) <= b.addr
        BY <2>1, <4>1 DEF InOrder
      <4>3. QED
        BY <2>3, <4>1, <4>2
    <3>4. CASE h # k /\ j # k
      <4>1. PICK p, q \in 1 .. Len(s) : p < q /\ t[h] = s[p] /\ t[j] = s[q]
        <5>1. CASE j < k
          <6>1. h \in 1 .. Len(s) /\ j \in 1 .. Len(s) /\ t[h] = s[h] /\ t[j] = s[j]
            BY <2>1, <2>6, <3>1, <5>1
          <6>2. QED
            BY <3>1, <6>1
        <5>2. CASE h < k /\ k < j
          <6>1. h \in 1 .. Len(s) /\ j + 1 \in 1 .. Len(s) /\ h < j + 1
            BY <2>1, <3>1, <5>2
          <6>2. t[h] = s[h] /\ t[j] = s[j + 1]
            BY <2>1, <2>6, <5>2
          <6>3. QED
            BY <6>1, <6>2
        <5>3. CASE k < h
          <6>1. h + 1 \in 1 .. Len(s) /\ j + 1 \in 1 .. Len(s) /\ h + 1 < j + 1
            BY <2>1, <3>1, <5>3
          <6>2. t[h] = s[h + 1] /\ t[j] = s[j + 1]
            BY <2>1, <2>6, <3>1, <5>3
          <6>3. QED
            BY <6>1, <6>2
        <5>4. j < k \/ (h < k /\ k < j) \/ k < h
          BY <2>1, <3>1, <3>4
        <5>5. QED
          BY <5>1, <5>2, <5>3, <5>4
      <4>2. QED
        BY <2>1, <4>1 DEF InOrder
    <3>5. QED
      BY <3>2, <3>3, <3>4
  <2>8. InList(t) = (InList(s) \ {b, c}) \cup {m}
    <3>1. ASSUME NEW j \in 1 .. Len(s) - 1
          PROVE  t[j] \in (InList(s) \ {b, c}) \cup {m}
      <4>1. CASE j < k
        <5>1. j \in 1 .. Len(s) /\ j # k /\ j # k + 1 /\ t[j] = s[j]
          BY <2>1, <2>6, <4>1
        <5>2. s[j] # b /\ s[j] # c
          BY <2>1, <5>1, OrderedOnce
        <5>3. QED
          BY <5>1, <5>2, ListFacts
      <4>2. CASE j = k
        BY <2>6, <4>2
      <4>3. CASE k < j
        <5>1. j + 1 \in 1 .. Len(s) /\ j + 1 # k /\ j + 1 # k + 1 /\ t[j] = s[j + 1]
          BY <2>1, <2>6, <4>3
        <5>2. s[j + 1] # b /\ s[j + 1] # c
          BY <2>1, <5>1, OrderedOnce
        <5>3. QED
          BY <5>1, <5>2, ListFacts
      <4>4. QED
        BY <2>1, <4>1, <4>2, <4>3
    <3>2. ASSUME NEW j \in 1 .. Len(s), j # k, j # k + 1
          PROVE  \E h \in 1 .. Len(t) : t[h] = s[j]
      <4>1. CASE j < k
        <5>1. j \in 1 .. Len(t) /\ t[j] = s[j]
          BY <2>1, <2>5, <2>6, <4>1
        <5>2. QED
          BY <5>1
      <4>2. CASE k + 1 < j
        <5>1. /\ j - 1 \in 1 .. Len(s) - 1 /\ j - 1 \in 1 .. Len(t)
              /\ ~(j - 1 < k) /\ j - 1 # k /\ (j - 1) + 1 = j
          BY <2>1, <2>5, <4>2
        <5>2. t[j - 1] = s[j]
          BY <2>6, <5>1
        <5>3. QED
          BY <5>1, <5>2
      <4>3. QED
        BY <2>1, <3>2, <4>1, <4>2
    <3>3. \E h \in 1 .. Len(t) : t[h] = m
      <4>1. k \in 1 .. Len(t) /\ t[k] = m
        BY <1>2, <2>1, <2>5
      <4>2. QED
        BY <4>1
    <3>4. InList(t) \subseteq (InList(s) \ {b, c}) \cup {m}
      BY <2>5, <3>1 DEF InList
    <3>5. (InList(s) \ {b, c}) \cup {m} \subseteq InList(t)
      BY <3>2, <3>3 DEF InList
    <3>6. QED
      BY <3>4, <3>5
  <2>9. InList(t) \cup U = (all \ {b, c}) \cup {m}
    BY <2>2, <2>8
  <2>10. ASSUME NEW d \in all \ {b, c}
         PROVE  Apart(d, m) /\ Apart(m, d) /\ d # m
    <3>1. d \in Block /\ Apart(d, b) /\ Apart(d, c)
      BY <2>1, <2>2 DEF Tiled
    <3>2. QED
      BY <2>2, <2>3, <3>1, EndAfter DEF Apart
  <2>11. InList(t) \cap U = {}
    BY <2>2, <2>8, <2>10 DEF Tiled
  <2>12. \A d \in InList(t) \cup U : InHeap(d)
    <3>1. \A d \in all : InHeap(d)
      BY DEF Tiled
    <3>2. InHeap(b) /\ InHeap(c)
      BY <2>2, <3>1
    <3>3. InHeap(m)
      BY <2>3, <3>2 DEF InHeap
    <3>4. QED
      BY <2>9, <3>1, <3>3
  <2>13. \A d, e \in InList(t) \cup U : d # e => Apart(d, e)
    BY <2>9, <2>10 DEF Tiled
  <2>14. \E d \in InList(t) \cup U : d.addr = Start
    <3>1. PICK d \in all : d.addr = Start
      BY DEF Tiled
    <3>2. d # c
      <4>1. InHeap(b) /\ b.addr < c.addr /\ c.addr \in Nat
        BY <2>2, <2>3, EndAfter DEF Tiled
      <4>2. QED
        BY <2>2, <3>1, <4>1, EndAfter, FreeListAssumption, SMTT(30) DEF InHeap
    <3>3. QED
      BY <2>3, <2>9, <3>1, <3>2
  <2>15. \A d \in InList(t) \cup U :
           End(d) = Start + Total \/ \E e \in InList(t) \cup U : e.addr = End(d)
    <3>1. ASSUME NEW d \in all \ {b}, End(d) # Start + Total
          PROVE  \E e \in (all \ {b, c}) \cup {m} : e.addr = End(d)
      <4>1. PICK e \in all : e.addr = End(d)
        BY <3>1 DEF Tiled
      <4>2. e # c
        <5>1. Apart(d, b) /\ d \in Block
          BY <2>1, <2>2 DEF Tiled
        <5>2. QED
          BY <2>2, <2>3, <4>1, <5>1, EndAfter DEF Apart
      <4>3. QED
        BY <2>3, <4>1, <4>2
    <3>2. c # b /\ c \in all \ {b}
      BY <2>1, <2>2, OrderedOnce
    <3>3. QED
      BY <2>3, <2>9, <3>1, <3>2
  <2>16. Tiled(t, U)
    BY <2>7, <2>11, <2>12, <2>13, <2>14, <2>15 DEF Tiled
  <2>17. JoinedAt(s, k) = t
    BY <1>2 DEF JoinedAt, t, u, m
  <2>18. QED
    BY <2>5, <2>16, <2>17
<1>3. QED
  BY <1>1, <1>2
-----------------------------------------------------------------------------
(* The searches through the list find something.                           *)
LEMMA LeastNumber ==
  ASSUME NEW S, S \subseteq Nat, S # {}
  PROVE  \E m \in S : \A n \in S : m <= n
<1> DEFINE R == OpToRel(<, Nat)
<1>1. IsWellFoundedOn(R, Nat)
  BY NatLessThanWellFounded
<1>2. \A a, b \in Nat : a < b => <<a, b>> \in R
  BY Zenon DEF OpToRel
<1> HIDE DEF R
<1>3. PICK m \in S : \A n \in S : ~ (<<n, m>> \in R)
  BY <1>1, WFMin
<1>4. \A n \in S : ~ (n < m)
  BY <1>2, <1>3
<1>5. QED
  BY <1>4

LEMMA BestFits ==
  ASSUME FreeListTypeOK, NEW bytes \in Nat, Fitting(bytes) # {}
  PROVE  Best(bytes) \in 1 .. Len(free_list) /\ bytes <= free_list[Best(bytes)].size
<1> DEFINE F == Fitting(bytes)
           sizes == {free_list[k].size : k \in F}
<1>1. /\ free_list \in Seq(Block) /\ Len(free_list) \in Nat
      /\ F \subseteq 1 .. Len(free_list)
      /\ \A k \in F : free_list[k].size \in Nat /\ bytes <= free_list[k].size
  <2>1. free_list \in Seq(Block)
    BY DEF FreeListTypeOK
  <2>2. F \subseteq 1 .. Len(free_list)
    BY DEF Fitting
  <2>3. QED
    BY <2>1, <2>2, ListFacts, EndAfter DEF Fitting
<1>2. PICK k1 \in F : \A j \in F : free_list[k1].size <= free_list[j].size
  <2>1. sizes \subseteq Nat /\ sizes # {}
    BY <1>1
  <2>2. PICK m \in sizes : \A n \in sizes : m <= n
    BY <2>1, LeastNumber
  <2>3. QED
    BY <2>2
<1> DEFINE small == {k \in F : free_list[k].size = free_list[k1].size}
<1>3. PICK k2 \in small : \A j \in small : k2 <= j
  <2>1. small \subseteq Nat /\ small # {}
    BY <1>1, <1>2
  <2>2. QED
    BY <2>1, LeastNumber
<1>4. \A j \in F :
        \/ free_list[k2].size < free_list[j].size
        \/ free_list[k2].size = free_list[j].size /\ k2 <= j
  <2>1. SUFFICES ASSUME NEW j \in F
                 PROVE  \/ free_list[k2].size < free_list[j].size
                        \/ free_list[k2].size = free_list[j].size /\ k2 <= j
    OBVIOUS
  <2>2. free_list[k2].size = free_list[k1].size /\ free_list[k1].size <= free_list[j].size
    BY <1>2, <1>3
  <2>3. CASE j \in small
    BY <1>3, <2>2, <2>3
  <2>4. CASE j \notin small
    BY <1>1, <1>2, <2>2, <2>4
  <2>5. QED
    BY <2>3, <2>4
<1>5. Best(bytes) \in F
  BY <1>3, <1>4 DEF Best
<1>6. QED
  BY <1>1, <1>5

LEMMA PlaceFound ==
  ASSUME FreeListTypeOK, NEW b \in Block
  PROVE  /\ Place(b) \in 1 .. Len(free_list) + 1
         /\ \A j \in 1 .. Place(b) - 1 : free_list[j].addr < b.addr
         /\ Place(b) <= Len(free_list) => free_list[Place(b)].addr >= b.addr
<1> DEFINE s == free_list
           stops == {k \in 1 .. Len(s) + 1 : k = Len(s) + 1 \/ s[k].addr >= b.addr}
<1>1. /\ Len(s) \in Nat /\ b.addr \in Nat
      /\ \A j \in 1 .. Len(s) : s[j].addr \in Nat
  <2>1. s \in Seq(Block)
    BY DEF FreeListTypeOK
  <2>2. QED
    BY <2>1, ListFacts, EndAfter
<1>2. PICK k \in stops : \A j \in stops : k <= j
  <2>1. stops \subseteq Nat /\ Len(s) + 1 \in stops
    BY <1>1
  <2>2. QED
    BY <2>1, LeastNumber
<1>3. \A j \in 1 .. k - 1 : s[j].addr < b.addr
  BY <1>1, <1>2
<1>4. k \in 1 .. Len(s) + 1 /\ (k <= Len(s) => s[k].addr >= b.addr)
  BY <1>1, <1>2
<1>5. QED
  BY <1>3, <1>4 DEF Place

(* memAlloc() takes as much as was asked for and a header.                 *)
LEMMA NeedsEnough ==
  ASSUME NEW n \in Nat
  PROVE  Needs(n) \in Nat /\ n + Header <= Needs(n) /\ Header <= Needs(n)
<1>1. ASSUME NEW m \in Nat
      PROVE  RoundedUp(m) \in Nat /\ m <= RoundedUp(m)
  <2>1. m % Word \in 0 .. Word - 1 /\ Word \in Nat
    BY FreeListAssumption
  <2>2. QED
    BY <2>1 DEF RoundedUp
<1> DEFINE m == IF n + Header < MIN_BLOCK_SIZE THEN MIN_BLOCK_SIZE ELSE n + Header
<1>2. m \in Nat /\ n + Header <= m /\ Header \in Nat
  BY FreeListAssumption
<1>3. Needs(n) = RoundedUp(m)
  BY DEF Needs
<1> HIDE DEF m
<1>4. QED
  BY <1>1, <1>2, <1>3

-----------------------------------------------------------------------------
(* Every operation keeps the types and the tiling.                         *)
LEMMA InitTiled == memInit => FreeListTypeOK /\ HeapTiled
<1> DEFINE w == [addr |-> Start, size |-> Total - Header]
<1> SUFFICES ASSUME memInit
             PROVE  FreeListTypeOK /\ HeapTiled
  OBVIOUS
<1>1. w \in Block /\ w.addr = Start /\ End(w) = Start + Total
  BY FreeListAssumption DEF Block, End
<1> HIDE DEF w
<1>2. free_list = <<w>> /\ allocated_list = {}
  BY DEF memInit, w
<1>3. free_list \in Seq(Block) /\ Len(free_list) = 1 /\ free_list[1] = w
  BY <1>1, <1>2
<1>4. InList(free_list) = {w}
  BY <1>3 DEF InList
<1>5. InHeap(w)
  BY <1>1, FreeListAssumption DEF InHeap
<1>6. InOrder(free_list)
  BY <1>3 DEF InOrder
<1>7. QED
  BY <1>1, <1>2, <1>3, <1>4, <1>5, <1>6 DEF FreeListTypeOK, HeapTiled, Tiled

LEMMA AllocTiled ==
  ASSUME FreeListTypeOK, HeapTiled, NEW n \in Nat, memAlloc(n)
  PROVE  FreeListTypeOK' /\ HeapTiled'
<1> DEFINE bytes == Needs(n)
           k == Best(bytes)
           new == [addr |-> free_list[k].addr, size |-> bytes - Header]
<1>1. bytes \in Nat /\ Header <= bytes
  BY NeedsEnough
<1>2. CASE Fitting(bytes) = {}
  BY <1>2 DEF memAlloc, memAllocInner, freeListVars, FreeListTypeOK, HeapTiled
<1>3. CASE Fitting(bytes) # {}
  <2>1. k \in 1 .. Len(free_list) /\ bytes <= free_list[k].size
    BY <1>1, <1>3, BestFits
  <2>2. /\ free_list' = ReplaceAt(free_list, k, Rest(free_list[k], bytes))
        /\ allocated_list' = allocated_list \cup {new}
    BY <1>3 DEF memAlloc, memAllocInner
  <2>3. /\ free_list \in Seq(Block) /\ allocated_list \in SUBSET Block
        /\ Tiled(free_list, allocated_list)
    BY DEF FreeListTypeOK, HeapTiled
  <2> HIDE DEF bytes, k
  <2>4. /\ ReplaceAt(free_list, k, Rest(free_list[k], bytes)) \in Seq(Block)
        /\ new \in Block
        /\ Tiled(ReplaceAt(free_list, k, Rest(free_list[k], bytes)), allocated_list \cup {new})
    BY <1>1, <2>1, <2>3, SplitTiled
  <2>5. QED
    BY <2>2, <2>3, <2>4 DEF FreeListTypeOK, HeapTiled
<1>4. QED
  BY <1>2, <1>3

LEMMA FreeTiled ==
  ASSUME FreeListTypeOK, HeapTiled, NEW b \in allocated_list, memFreeInner(b)
  PROVE  FreeListTypeOK' /\ HeapTiled'
<1> DEFINE k == Place(b)
           s1 == InsertAt(free_list, k, b)
           s2 == JoinedAt(s1, k)
<1>1. /\ free_list \in Seq(Block) /\ allocated_list \in SUBSET Block /\ b \in Block
      /\ Tiled(free_list, allocated_list) /\ Len(free_list) \in Nat
  BY ListFacts DEF FreeListTypeOK, HeapTiled
<1>2. /\ k \in 1 .. Len(free_list) + 1
      /\ \A j \in 1 .. k - 1 : free_list[j].addr < b.addr
      /\ k <= Len(free_list) => free_list[k].addr >= b.addr
  BY <1>1, PlaceFound
<1>3. free_list' = JoinedAt(s2, k - 1) /\ allocated_list' = allocated_list \ {b}
  BY DEF memFreeInner, Joined
<1> HIDE DEF k
<1>4. s1 \in Seq(Block) /\ Tiled(s1, allocated_list \ {b})
  BY <1>1, <1>2, InsertTiled
<1>5. allocated_list \ {b} \in SUBSET Block /\ k \in Int /\ k - 1 \in Int
  BY <1>1, <1>2
<1> HIDE DEF s1
<1>6. s2 \in Seq(Block) /\ Tiled(s2, allocated_list \ {b})
  BY <1>4, <1>5, JoinTiled
<1> HIDE DEF s2
<1>7. JoinedAt(s2, k - 1) \in Seq(Block) /\ Tiled(JoinedAt(s2, k - 1), allocated_list \ {b})
  BY <1>5, <1>6, JoinTiled
<1>8. QED
  BY <1>3, <1>5, <1>7 DEF FreeListTypeOK, HeapTiled

LEMMA StepTiled ==
  FreeListTypeOK /\ HeapTiled /\ [freeListNext]_freeListVars => FreeListTypeOK' /\ HeapTiled'
<1> SUFFICES ASSUME FreeListTypeOK, HeapTiled, [freeListNext]_freeListVars
             PROVE  FreeListTypeOK' /\ HeapTiled'
  OBVIOUS
<1>1. CASE UNCHANGED freeListVars
  BY <1>1 DEF freeListVars, FreeListTypeOK, HeapTiled
<1>2. ASSUME NEW n \in Request, memAlloc(n)
      PROVE  FreeListTypeOK' /\ HeapTiled'
  BY <1>2, AllocTiled, FreeListAssumption
<1>3. ASSUME NEW b \in allocated_list, memFree(b.addr + Header)
      PROVE  FreeListTypeOK' /\ HeapTiled'
  <2>1. CASE UNCHANGED freeListVars
    BY <1>1, <2>1
  <2>2. CASE \E c \in Given(b.addr + Header) : memFreeInner(c)
    BY <2>2, FreeTiled DEF Given
  <2>3. QED
    BY <1>3, <2>1, <2>2 DEF memFree
<1>4. QED
  BY <1>1, <1>2, <1>3 DEF freeListNext

(* The blocks of the free list and the blocks in use tile the heap, for    *)
(* any heap, header and requests: no two of them share a byte, none lies   *)
(* outside, and no byte is lost by splitting and joining.                  *)
THEOREM HeapStaysTiled == freeListSpec => [](FreeListTypeOK /\ HeapTiled)
<1>1. FreeListTypeOK /\ HeapTiled /\ [freeListNext]_freeListVars => (FreeListTypeOK /\ HeapTiled)'
  BY StepTiled
<1>2. QED
  BY <1>1, InitTiled, PTL DEF freeListSpec

(* A request that is not refused gets a block at the address memAlloc()    *)
(* returns that is as long as was asked for.                               *)
THEOREM GivenAsAsked ==
  ASSUME FreeListTypeOK, NEW n \in Nat, Fitting(Needs(n)) # {}, memAlloc(n)
  PROVE  \E b \in allocated_list' : b.addr + Header = Allocated(n) /\ n <= b.size
<1> DEFINE new == [addr |-> free_list[Best(Needs(n))].addr, size |-> Needs(n) - Header]
<1>1. Best(Needs(n)) \in 1 .. Len(free_list) /\ Needs(n) \in Nat /\ n + Header <= Needs(n)
  BY NeedsEnough, BestFits
<1>2. free_list[Best(Needs(n))] \in Block
  BY <1>1, ListFacts DEF FreeListTypeOK
<1>3. new \in allocated_list'
  BY DEF memAlloc, memAllocInner
<1>4. new.addr + Header = Allocated(n) /\ n <= new.size
  BY <1>1, <1>2, EndAfter, FreeListAssumption DEF Allocated
<1>5. QED
  BY <1>3, <1>4
-----------------------------------------------------------------------------
(* No two free blocks touch.                                               *)
Gap(s, j) == End(s[j]) # s[j + 1].addr

Gaps(s) == \A j \in 1 .. Len(s) - 1 : Gap(s, j)

LEMMA SplitGaps ==
  ASSUME NEW s \in Seq(Block), InOrder(s), Gaps(s),
         NEW k \in 1 .. Len(s), NEW bytes \in Nat, Header <= bytes, bytes <= s[k].size
  PROVE  Gaps(ReplaceAt(s, k, Rest(s[k], bytes)))
<1> DEFINE r == Rest(s[k], bytes)
           t == ReplaceAt(s, k, r)
<1>1. Len(s) \in Nat /\ s[k] \in Block
  BY ListFacts
<1>2. r \in Block /\ End(r) = End(s[k]) /\ s[k].addr < r.addr
  BY <1>1, FreeListAssumption, SMTT(30) DEF Block, Rest, End
<1> HIDE DEF r
<1>3. /\ Len(t) = Len(s)
      /\ \A j \in 1 .. Len(s) : t[j] = IF j = k THEN r ELSE s[j]
  <2>1. ASSUME NEW e \in Block
        PROVE  /\ Len(ReplaceAt(s, k, e)) = Len(s)
               /\ \A j \in 1 .. Len(s) : ReplaceAt(s, k, e)[j] = IF j = k THEN e ELSE s[j]
    BY ReplaceAtElements
  <2>2. r \in Block
    BY <1>2
  <2>3. QED
    BY <2>1, <2>2
<1> HIDE DEF t
<1>4. ASSUME NEW j \in 1 .. Len(s) - 1
      PROVE  Gap(t, j)
  <2>1. /\ j \in 1 .. Len(s) /\ j + 1 \in 1 .. Len(s) /\ j < j + 1
        /\ End(s[j]) # s[j + 1].addr
    BY <1>1 DEF Gaps, Gap
  <2>2. CASE j = k
    <3>1. t[j] = r /\ t[j + 1] = s[j + 1]
      BY <1>3, <2>1, <2>2
    <3>2. QED
      BY <1>2, <2>1, <2>2, <3>1 DEF Gap
  <2>3. CASE j + 1 = k
    <3>1. t[j] = s[j] /\ t[j + 1] = r
      BY <1>3, <2>1, <2>3
    <3>2. End(s[j]) <= s[k].addr /\ s[j] \in Block
      BY <2>1, <2>3, ListFacts DEF InOrder
    <3>3. QED
      BY <1>1, <1>2, <3>1, <3>2, EndAfter DEF Gap
  <2>4. CASE j # k /\ j + 1 # k
    BY <1>3, <2>1, <2>4 DEF Gap
  <2>5. QED
    BY <2>2, <2>3, <2>4
<1>5. QED
  BY <1>3, <1>4 DEF Gaps, t, r

LEMMA InsertGaps ==
  ASSUME NEW s \in Seq(Block), Gaps(s), NEW b \in Block, NEW k \in 1 .. Len(s) + 1,
         NEW j \in 1 .. Len(s), j # k, j # k - 1
  PROVE  Gap(InsertAt(s, k, b), j)
<1> DEFINE t == InsertAt(s, k, b)
<1>1. /\ Len(s) \in Nat
      /\ \A h \in 1 .. Len(s) + 1 : t[h] = IF h < k THEN s[h] ELSE IF h = k THEN b ELSE s[h - 1]
  BY ListFacts, InsertAtElements
<1> HIDE DEF t
<1>2. CASE j + 1 < k
  <2>1. j \in 1 .. Len(s) - 1 /\ t[j] = s[j] /\ t[j + 1] = s[j + 1]
    BY <1>1, <1>2
  <2>2. QED
    BY <2>1 DEF Gaps, Gap, t
<1>3. CASE k < j
  <2>1. /\ j - 1 \in 1 .. Len(s) - 1 /\ (j - 1) + 1 = j /\ (j + 1) - 1 = j
        /\ j + 1 \in 1 .. Len(s) + 1 /\ j \in 1 .. Len(s) + 1
    BY <1>1, <1>3
  <2>2. t[j] = s[j - 1] /\ t[j + 1] = s[j]
    BY <1>1, <1>3, <2>1
  <2>3. End(s[j - 1]) # s[j].addr
    BY <2>1 DEF Gaps, Gap
  <2>4. QED
    BY <2>2, <2>3 DEF Gap, t
<1>4. j + 1 < k \/ k < j
  BY <1>1
<1>5. QED
  BY <1>2, <1>3, <1>4

(* Joining at k leaves no two that touch there, and none that touch        *)
(* elsewhere, but perhaps at a place i before k.                           *)
LEMMA JoinGaps ==
  ASSUME NEW s \in Seq(Block), NEW k \in Int, NEW h \in Int, h < k,
         \A j \in 1 .. Len(s) - 1 : j # k /\ j # h => Gap(s, j)
  PROVE  \A j \in 1 .. Len(JoinedAt(s, k)) - 1 : j # h => Gap(JoinedAt(s, k), j)
<1>1. CASE ~(k \in 1 .. Len(s) - 1 /\ End(s[k]) = s[k + 1].addr)
  BY <1>1 DEF JoinedAt, Gap
<1>2. CASE k \in 1 .. Len(s) - 1 /\ End(s[k]) = s[k + 1].addr
  <2> DEFINE m == Both(s[k], s[k + 1])
             u == RemoveAt(s, k + 1)
             t == ReplaceAt(u, k, m)
  <2>1. Len(s) \in Nat /\ k \in 1 .. Len(s) /\ k + 1 \in 1 .. Len(s)
    BY <1>2, ListFacts
  <2>2. m \in Block /\ m.addr = s[k].addr /\ End(m) = End(s[k + 1])
    BY <1>2, <2>1, ListFacts, BothFacts
  <2> HIDE DEF m
  <2>3. /\ u \in Seq(Block) /\ Len(u) = Len(s) - 1
        /\ \A j \in 1 .. Len(s) - 1 : u[j] = IF j < k + 1 THEN s[j] ELSE s[j + 1]
    BY <2>1, RemoveAtElements
  <2> HIDE DEF u
  <2>4. /\ Len(t) = Len(s) - 1
        /\ \A j \in 1 .. Len(s) - 1 : t[j] = IF j = k THEN m ELSE u[j]
    <3>1. k \in 1 .. Len(u)
      BY <1>2, <2>3
    <3>2. m \in Block /\ u \in Seq(Block)
      BY <2>2, <2>3
    <3>3. /\ Len(t) = Len(u)
          /\ \A j \in 1 .. Len(u) : t[j] = IF j = k THEN m ELSE u[j]
      BY <3>1, <3>2, ReplaceAtElements
    <3>4. QED
      BY <2>3, <3>3
  <2> HIDE DEF t
  <2>5. \A j \in 1 .. Len(s) - 1 : t[j] = IF j < k THEN s[j] ELSE IF j = k THEN m ELSE s[j + 1]
    <3>1. SUFFICES ASSUME NEW j \in 1 .. Len(s) - 1
                   PROVE  t[j] = IF j < k THEN s[j] ELSE IF j = k THEN m ELSE s[j + 1]
      OBVIOUS
    <3>2. /\ t[j] = IF j = k THEN m ELSE u[j]
          /\ u[j] = IF j < k + 1 THEN s[j] ELSE s[j + 1]
      BY <2>3, <2>4
    <3>3. j < k + 1 <=> j < k \/ j = k
      BY <2>1
    <3>4. QED
      BY <2>1, <3>2, <3>3
  <2>6. ASSUME NEW j \in 1 .. Len(s) - 2, j # h
        PROVE  Gap(t, j)
    <3>1. j \in 1 .. Len(s) - 1 /\ j + 1 \in 1 .. Len(s) - 1
      BY <2>1
    <3>2. CASE j < k
      <4>1. End(s[j]) # s[j + 1].addr
        BY <2>1, <2>6, <3>1, <3>2 DEF Gap
      <4>2. t[j] = s[j]
        BY <2>5, <3>1, <3>2
      <4>3. t[j + 1].addr = s[j + 1].addr
        <5>1. CASE j + 1 = k
          BY <2>2, <2>5, <3>1, <5>1
        <5>2. CASE j + 1 < k
          BY <2>5, <3>1, <5>2
        <5>3. QED
          BY <2>1, <3>1, <3>2, <5>1, <5>2
      <4>4. QED
        BY <4>1, <4>2, <4>3 DEF Gap
    <3>3. CASE j >= k
      <4>1. j + 1 \in 1 .. Len(s) - 1 /\ j + 1 # k /\ j + 1 # h
        BY <2>1, <3>1, <3>3
      <4>2. End(s[j + 1]) # s[(j + 1) + 1].addr
        BY <4>1 DEF Gap
      <4>3. t[j + 1] = s[(j + 1) + 1]
        BY <2>1, <2>5, <3>1, <3>3
      <4>4. End(t[j]) = End(s[j + 1])
        <5>1. CASE j = k
          BY <2>2, <2>5, <3>1, <5>1
        <5>2. CASE j > k
          BY <2>1, <2>5, <3>1, <5>2
        <5>3. QED
          BY <2>1, <3>1, <3>3, <5>1, <5>2
      <4>5. QED
        BY <4>2, <4>3, <4>4 DEF Gap
    <3>4. QED
      BY <2>1, <3>1, <3>2, <3>3
  <2>7. JoinedAt(s, k) = t
    BY <1>2 DEF JoinedAt, t, u, m
  <2>8. Len(t) - 1 = Len(s) - 2
    BY <2>1, <2>4
  <2>9. QED
    BY <2>6, <2>7, <2>8
<1>3. QED
  BY <1>1, <1>2

(* A list of blocks with gaps between them that tile the heap alone is one *)
(* block.                                                                  *)
LEMMA AloneWhole ==
  ASSUME NEW s \in Seq(Block), Tiled(s, {}), Gaps(s)
  PROVE  s = <<[addr |-> Start, size |-> Total - Header]>>
<1>1. /\ Len(s) \in Nat /\ InOrder(s) /\ InList(s) \subseteq Block
      /\ \A j \in 1 .. Len(s) : s[j] \in Block /\ s[j] \in InList(s)
  BY ListFacts DEF Tiled
<1>2. PICK f \in 1 .. Len(s) : s[f].addr = Start
  <2>1. PICK c \in InList(s) : c.addr = Start
    BY DEF Tiled
  <2>2. QED
    BY <2>1 DEF InList
<1>3. ~(Len(s) > 1)
  <2>1. SUFFICES ASSUME Len(s) > 1
                 PROVE  FALSE
    OBVIOUS
  <2>2. 1 \in 1 .. Len(s) /\ 2 \in 1 .. Len(s) /\ 1 \in 1 .. Len(s) - 1
    BY <1>1, <2>1
  <2>3. End(s[1]) # s[2].addr /\ End(s[1]) <= s[2].addr
    BY <1>1, <2>2 DEF Gaps, Gap, InOrder
  <2>4. s[1] \in InList(s) /\ s[1] \in Block /\ s[2] \in InList(s) /\ s[2] \in Block
    BY <1>1, <2>2
  <2>5. End(s[1]) # Start + Total
    <3>1. InHeap(s[2])
      BY <2>4 DEF Tiled
    <3>2. QED
      BY <2>3, <2>4, <3>1, EndAfter, FreeListAssumption DEF InHeap
  <2>6. PICK j \in 1 .. Len(s) : s[j].addr = End(s[1])
    <3>1. \E c \in InList(s) : c.addr = End(s[1])
      BY <2>4, <2>5 DEF Tiled
    <3>2. QED
      BY <3>1 DEF InList
  <2>7. CASE j = 1
    BY <2>4, <2>6, <2>7, EndAfter
  <2>8. CASE j = 2
    BY <2>3, <2>6, <2>8
  <2>9. CASE j > 2
    <3>1. End(s[2]) <= s[j].addr
      BY <1>1, <2>2, <2>9 DEF InOrder
    <3>2. s[j] \in Block
      BY <1>1
    <3>3. QED
      BY <2>3, <2>4, <2>6, <3>1, <3>2, EndAfter
  <2>10. QED
    BY <1>1, <2>7, <2>8, <2>9
<1>4. Len(s) = 1
  <2>1. Len(s) \in Nat
    BY <1>1, LenProperties
  <2>2. Len(s) >= 1
    BY <1>2, <2>1
  <2>3. \A n \in Nat : n >= 1 /\ ~(n > 1) => n = 1
    OBVIOUS
  <2>4. QED
    BY ONLY <1>3, <2>1, <2>2, <2>3
<1>5. s[1] \in Block /\ s[1].addr = Start /\ End(s[1]) = Start + Total
  <2>1. s[1] \in Block /\ s[1].addr = Start /\ s[1] \in InList(s)
    BY <1>1, <1>2, <1>3
  <2>2. End(s[1]) = Start + Total \/ \E c \in InList(s) : c.addr = End(s[1])
    BY <2>1 DEF Tiled
  <2>3. InList(s) = {s[1]}
    BY <1>4 DEF InList
  <2>4. QED
    BY <2>1, <2>2, <2>3, EndAfter
<1>6. s[1] = [addr |-> Start, size |-> Total - Header]
  <2>1. s[1].size = Total - Header
    <3>1. s[1].size \in Nat /\ End(s[1]) = s[1].addr + Header + s[1].size
      BY <1>5, EndAfter DEF End
    <3>2. \A n \in Nat : Start + Total = Start + Header + n => n = Total - Header
      BY FreeListAssumption
    <3>3. Start + Total = Start + Header + s[1].size
      BY <1>5, <3>1
    <3>4. QED
      BY ONLY <3>1, <3>2, <3>3
  <2>2. QED
    BY <1>5, <2>1 DEF Block
<1>7. s = <<s[1]>>
  BY <1>1, <1>4, SeqEqual
<1>8. QED
  BY <1>6, <1>7

LEMMA JoinType ==
  ASSUME NEW s \in Seq(Block), NEW k \in Int
  PROVE  JoinedAt(s, k) \in Seq(Block)
<1>1. CASE ~(k \in 1 .. Len(s) - 1 /\ End(s[k]) = s[k + 1].addr)
  BY <1>1 DEF JoinedAt
<1>2. CASE k \in 1 .. Len(s) - 1 /\ End(s[k]) = s[k + 1].addr
  <2>1. Len(s) \in Nat /\ k \in 1 .. Len(s) /\ k + 1 \in 1 .. Len(s)
    BY <1>2, ListFacts
  <2>2. Both(s[k], s[k + 1]) \in Block
    BY <1>2, <2>1, ListFacts, BothFacts
  <2>3. RemoveAt(s, k + 1) \in Seq(Block) /\ Len(RemoveAt(s, k + 1)) = Len(s) - 1
    BY <2>1, RemoveAtElements
  <2>4. k \in 1 .. Len(RemoveAt(s, k + 1))
    BY <1>2, <2>3
  <2>5. ReplaceAt(RemoveAt(s, k + 1), k, Both(s[k], s[k + 1])) \in Seq(Block)
    BY <2>2, <2>3, <2>4, ReplaceAtElements
  <2>6. QED
    BY <1>2, <2>5 DEF JoinedAt
<1>3. QED
  BY <1>1, <1>2

LEMMA FreeGaps ==
  ASSUME FreeListTypeOK, Gaps(free_list), NEW b \in Block, memFreeInner(b)
  PROVE  Gaps(free_list')
<1> DEFINE k == Place(b)
           s1 == InsertAt(free_list, k, b)
           s2 == JoinedAt(s1, k)
<1>1. free_list \in Seq(Block) /\ k \in 1 .. Len(free_list) + 1 /\ Len(free_list) \in Nat
  BY PlaceFound, ListFacts DEF FreeListTypeOK
<1>2. free_list' = JoinedAt(s2, k - 1)
  BY DEF memFreeInner, Joined
<1> HIDE DEF k
<1>3. s1 \in Seq(Block) /\ Len(s1) = Len(free_list) + 1
  BY <1>1, InsertAtElements
<1>4. \A j \in 1 .. Len(s1) - 1 : j # k /\ j # k - 1 => Gap(s1, j)
  <2>1. Len(s1) - 1 = Len(free_list)
    BY <1>1, <1>3
  <2>2. QED
    BY <1>1, <2>1, InsertGaps
<1> HIDE DEF s1
<1>5. k \in Int /\ k - 1 \in Int /\ k - 1 < k /\ k - 2 \in Int /\ k - 2 < k - 1 /\ 0 \in Int
  BY <1>1
<1>6. \A j \in 1 .. Len(s2) - 1 : j # k - 1 => Gap(s2, j)
  BY <1>3, <1>4, <1>5, JoinGaps
<1>7. s2 \in Seq(Block)
  BY <1>3, <1>5, JoinType
<1> HIDE DEF s2
<1>8. \A j \in 1 .. Len(JoinedAt(s2, k - 1)) - 1 : Gap(JoinedAt(s2, k - 1), j)
  <2>1. CASE k = 1
    <3>1. JoinedAt(s2, k - 1) = s2
      BY <2>1 DEF JoinedAt
    <3>2. QED
      BY <1>6, <2>1, <3>1
  <2>2. CASE k > 1
    <3>1. \A j \in 1 .. Len(s2) - 1 : j # k - 1 /\ j # 0 => Gap(s2, j)
      BY <1>6
    <3>2. 0 < k - 1
      BY <1>1, <2>2
    <3>3. \A j \in 1 .. Len(JoinedAt(s2, k - 1)) - 1 : j # 0 => Gap(JoinedAt(s2, k - 1), j)
      BY <1>5, <1>7, <3>1, <3>2, JoinGaps
    <3>4. QED
      BY <3>3
  <2>3. QED
    BY <1>1, <2>1, <2>2
<1>9. QED
  BY <1>2, <1>8 DEF Gaps
LEMMA InitGaps == memInit => Gaps(free_list)
<1> DEFINE w == [addr |-> Start, size |-> Total - Header]
<1>1. Len(<<w>>) = 1
  OBVIOUS
<1>2. QED
  BY <1>1 DEF memInit, Gaps

LEMMA StepGaps ==
  ASSUME FreeListTypeOK, HeapTiled, Gaps(free_list), [freeListNext]_freeListVars
  PROVE  Gaps(free_list')
<1>1. CASE UNCHANGED freeListVars
  BY <1>1 DEF freeListVars
<1>2. ASSUME NEW n \in Request, memAlloc(n)
      PROVE  Gaps(free_list')
  <2>1. Needs(n) \in Nat /\ Header <= Needs(n)
    BY NeedsEnough, FreeListAssumption
  <2>2. CASE Fitting(Needs(n)) = {}
    BY <1>1, <1>2, <2>2 DEF memAlloc, memAllocInner
  <2>3. CASE Fitting(Needs(n)) # {}
    <3>1. /\ Best(Needs(n)) \in 1 .. Len(free_list)
          /\ Needs(n) <= free_list[Best(Needs(n))].size
      BY <2>1, <2>3, BestFits
    <3>2. free_list' = ReplaceAt(free_list, Best(Needs(n)), Rest(free_list[Best(Needs(n))], Needs(n)))
      BY <1>2, <2>3 DEF memAlloc, memAllocInner
    <3>3. free_list \in Seq(Block) /\ InOrder(free_list)
      BY DEF FreeListTypeOK, HeapTiled, Tiled
    <3>4. QED
      BY <2>1, <3>1, <3>2, <3>3, SplitGaps
  <2>4. QED
    BY <2>2, <2>3
<1>3. ASSUME NEW b \in allocated_list, memFree(b.addr + Header)
      PROVE  Gaps(free_list')
  <2>1. CASE \E c \in Given(b.addr + Header) : memFreeInner(c)
    BY <2>1, FreeGaps DEF Given, FreeListTypeOK
  <2>2. QED
    BY <1>1, <1>3, <2>1 DEF memFree
<1>4. QED
  BY <1>1, <1>2, <1>3 DEF freeListNext

LEMMA GapsCoalesce ==
  ASSUME FreeListTypeOK, HeapTiled, Gaps(free_list)
  PROVE  Coalesced
<1>1. \A k \in 1 .. Len(free_list) - 1 : End(free_list[k]) # free_list[k + 1].addr
  BY DEF Gaps, Gap
<1>2. allocated_list = {} => free_list = <<[addr |-> Start, size |-> Total - Header]>>
  BY AloneWhole DEF HeapTiled, FreeListTypeOK
<1>3. QED
  BY <1>1, <1>2 DEF Coalesced

(* No two free blocks ever touch, and when everything has been given back  *)
(* the heap is one block again, whatever was allocated and freed before.   *)
THEOREM HeapStaysCoalesced == freeListSpec => []Coalesced
<1> DEFINE Inv == FreeListTypeOK /\ HeapTiled /\ Gaps(free_list)
<1>1. memInit => Inv
  BY InitTiled, InitGaps
<1>2. Inv /\ [freeListNext]_freeListVars => Inv'
  BY StepTiled, StepGaps
<1>3. Inv => Coalesced
  BY GapsCoalesce
<1>4. QED
  BY <1>1, <1>2, <1>3, PTL DEF freeListSpec

-----------------------------------------------------------------------------
(* buddy.c: functions by recursion, and the sizes of the levels.           *)

(* A function that is defined by its value at the first place and by each  *)
(* value from the one before exists.                                       *)
Recursion(f, lo, hi, c, G) ==
  /\ f \in [lo .. hi -> Nat]
  /\ \A k \in lo .. hi : f[k] = IF k = lo THEN c ELSE G[<<k, f[k - 1]>>]

LEMMA RecursionExists ==
  ASSUME NEW lo \in Int, NEW hi \in Int, lo <= hi,
         NEW c \in Nat, NEW G \in [Int \X Nat -> Nat]
  PROVE  \E f : Recursion(f, lo, hi, c, G)
<1> DEFINE Upto(n) == \E f \in [lo .. lo + n -> Nat] :
                        \A k \in lo .. lo + n : f[k] = IF k = lo THEN c ELSE G[<<k, f[k - 1]>>]
           S == {n \in Nat : ~Upto(n)}
<1>1. Upto(0)
  <2> DEFINE f == [k \in lo .. lo + 0 |-> c]
  <2>1. lo .. lo + 0 = {lo}
    OBVIOUS
  <2>2. f \in [lo .. lo + 0 -> Nat] /\ \A k \in lo .. lo + 0 : f[k] = c
    OBVIOUS
  <2> HIDE DEF f
  <2>3. QED
    BY <2>1, <2>2
<1>2. ASSUME NEW n \in Nat, Upto(n)
      PROVE  Upto(n + 1)
  <2>1. PICK f \in [lo .. lo + n -> Nat] :
          \A k \in lo .. lo + n : f[k] = IF k = lo THEN c ELSE G[<<k, f[k - 1]>>]
    BY <1>2
  <2> DEFINE last == G[<<lo + n + 1, f[lo + n]>>]
             g == [k \in lo .. lo + (n + 1) |-> IF k \in lo .. lo + n THEN f[k] ELSE last]
  <2>2. last \in Nat
    BY <2>1
  <2>3. /\ g \in [lo .. lo + (n + 1) -> Nat]
        /\ \A k \in lo .. lo + n : g[k] = f[k]
        /\ g[lo + n + 1] = last
    BY <2>1, <2>2
  <2>4. ASSUME NEW k \in lo .. lo + (n + 1)
        PROVE  g[k] = IF k = lo THEN c ELSE G[<<k, g[k - 1]>>]
    <3>1. CASE k = lo
      <4>1. lo \in lo .. lo + n
        OBVIOUS
      <4>2. g[lo] = f[lo] /\ f[lo] = c
        BY <2>1, <2>3, <4>1
      <4> HIDE DEF g
      <4>3. QED
        BY <3>1, <4>2
    <3>2. CASE k \in lo + 1 .. lo + n
      <4>1. k \in lo .. lo + n /\ k - 1 \in lo .. lo + n /\ k # lo
        BY <3>2
      <4>2. g[k] = f[k] /\ g[k - 1] = f[k - 1] /\ f[k] = G[<<k, f[k - 1]>>]
        BY <2>1, <2>3, <4>1
      <4> HIDE DEF g
      <4>3. QED
        BY <4>1, <4>2
    <3>3. CASE k = lo + n + 1
      <4>1. k # lo /\ k - 1 = lo + n /\ g[k - 1] = f[k - 1] /\ g[k] = last
        BY <2>3, <3>3
      <4> HIDE DEF g
      <4>2. QED
        BY <3>3, <4>1
    <3>4. QED
      BY <3>1, <3>2, <3>3
  <2> HIDE DEF g
  <2>5. QED
    BY <2>3, <2>4
<1> HIDE DEF Upto
<1>3. S = {}
  <2>1. SUFFICES ASSUME S # {}
                 PROVE  FALSE
    OBVIOUS
  <2>2. PICK m \in S : \A n \in S : m <= n
    BY <2>1, LeastNumber
  <2>3. m # 0
    BY <1>1
  <2>4. m - 1 \in Nat /\ m - 1 \notin S
    BY <2>2, <2>3
  <2>5. Upto((m - 1) + 1)
    BY <1>2, <2>4
  <2>6. (m - 1) + 1 = m
    BY <2>4
  <2>7. QED
    BY <2>5, <2>6
<1>4. hi - lo \in Nat /\ lo + (hi - lo) = hi
  OBVIOUS
<1>5. Upto(hi - lo)
  BY <1>3, <1>4
<1>6. QED
  BY <1>4, <1>5 DEF Upto, Recursion

-----------------------------------------------------------------------------
LEMMA BuddyConstants ==
  /\ MAX_EXP \in Nat /\ BuddyMin \in Nat \ {0} /\ BuddyHeader \in Nat
  /\ BuddyHeader < BuddyMin /\ BuddyMin <= Total
<1>1. /\ MAX_EXP \in Nat /\ BuddyMin \in Nat /\ BuddyHeader \in Nat
      /\ BuddyHeader < BuddyMin /\ BuddyMin <= Total
  BY TestMMAssumption
<1>2. QED
  BY <1>1

(* The sizes of the levels double.                                         *)
LEMMA ShiftedDoubles ==
  /\ B!Shifted \in [0 .. MAX_EXP + 1 -> Nat]
  /\ \A k \in 0 .. MAX_EXP + 1 : B!Shifted[k] = IF k = 0 THEN 1 ELSE 2 * B!Shifted[k - 1]
<1> DEFINE G == [p \in Int \X Nat |-> 2 * p[2]]
           dom == 0 .. MAX_EXP + 1
<1>1. MAX_EXP \in Nat
  BY TestMMAssumption
<1>2. G \in [Int \X Nat -> Nat]
  OBVIOUS
<1>3. PICK f \in [dom -> Nat] : \A k \in dom : f[k] = IF k = 0 THEN 1 ELSE G[<<k, f[k - 1]>>]
  <2> HIDE DEF G
  <2>1. 0 \in Int /\ MAX_EXP + 1 \in Int /\ 0 <= MAX_EXP + 1 /\ 1 \in Nat
    BY <1>1
  <2>2. \E f : Recursion(f, 0, MAX_EXP + 1, 1, G)
    BY <1>2, <2>1, RecursionExists
  <2>3. QED
    BY <2>2 DEF Recursion
<1>4. \A k \in dom : f[k] = IF k = 0 THEN 1 ELSE 2 * f[k - 1]
  <2>1. SUFFICES ASSUME NEW k \in dom, k # 0
                 PROVE  f[k] = 2 * f[k - 1]
    BY <1>3
  <2>2. k - 1 \in dom /\ k \in Int
    BY <1>1, <2>1
  <2>3. f[k - 1] \in Nat
    BY <1>3, <2>2
  <2>4. G[<<k, f[k - 1]>>] = 2 * f[k - 1]
    BY <2>2, <2>3
  <2>5. QED
    BY <1>3, <2>1, <2>4
<1>5. f = [k \in dom |-> IF k = 0 THEN 1 ELSE 2 * f[k - 1]]
  BY <1>3, <1>4
<1>6. B!Shifted = [k \in dom |-> IF k = 0 THEN 1 ELSE 2 * B!Shifted[k - 1]]
  BY <1>5 DEF B!Shifted
<1>7. \A k \in dom : B!Shifted[k] = IF k = 0 THEN 1 ELSE 2 * B!Shifted[k - 1]
  BY <1>6
<1> DEFINE S == {k \in dom : B!Shifted[k] \notin Nat}
<1>8. S = {}
  <2>1. SUFFICES ASSUME S # {}
                 PROVE  FALSE
    OBVIOUS
  <2>2. S \subseteq Nat
    BY <1>1
  <2>3. PICK m \in S : \A n \in S : m <= n
    BY <2>1, <2>2, LeastNumber
  <2>4. m # 0
    BY <1>7
  <2>5. m - 1 \in dom /\ m - 1 \notin S
    BY <1>1, <2>3, <2>4
  <2>6. B!Shifted[m - 1] \in Nat /\ B!Shifted[m] = 2 * B!Shifted[m - 1]
    BY <1>7, <2>4, <2>5
  <2>7. QED
    BY <2>6
<1>9. DOMAIN B!Shifted = dom
  BY <1>6
<1>10. QED
  BY <1>6, <1>7, <1>8, <1>9

LEMMA SizesDouble ==
  /\ \A k \in 0 .. MAX_EXP + 1 : B!BLOCKSIZE(k) \in Nat \ {0}
  /\ \A k \in 0 .. MAX_EXP : B!BLOCKSIZE(k + 1) = 2 * B!BLOCKSIZE(k)
  /\ B!BLOCKSIZE(0) = BuddyMin
<1> DEFINE dom == 0 .. MAX_EXP + 1
           S == {k \in dom : B!Shifted[k] = 0}
<1>1. MAX_EXP \in Nat /\ BuddyMin \in Nat \ {0}
  BY BuddyConstants
<1>2. S = {}
  <2>1. SUFFICES ASSUME S # {}
                 PROVE  FALSE
    OBVIOUS
  <2>2. S \subseteq Nat
    BY <1>1
  <2>3. PICK m \in S : \A n \in S : m <= n
    BY <2>1, <2>2, LeastNumber
  <2>4. m # 0
    BY ShiftedDoubles
  <2>5. m - 1 \in dom /\ m - 1 \notin S
    BY <1>1, <2>3, <2>4
  <2>6. B!Shifted[m - 1] \in Nat /\ B!Shifted[m] = 2 * B!Shifted[m - 1]
    BY <2>4, <2>5, ShiftedDoubles
  <2>7. QED
    BY <2>5, <2>6
<1>3. ASSUME NEW x \in Nat \ {0}, NEW y \in Nat \ {0}
      PROVE  x * y \in Nat \ {0} /\ (2 * x) * y = 2 * (x * y) /\ 1 * y = y
  OBVIOUS
<1>4. \A k \in dom : B!Shifted[k] \in Nat \ {0}
  BY <1>2, ShiftedDoubles
<1>5. \A k \in dom : B!BLOCKSIZE(k) \in Nat \ {0}
  BY <1>1, <1>3, <1>4 DEF B!BLOCKSIZE
<1>6. ASSUME NEW k \in 0 .. MAX_EXP
      PROVE  B!BLOCKSIZE(k + 1) = 2 * B!BLOCKSIZE(k)
  <2>1. k \in dom /\ k + 1 \in dom /\ k + 1 # 0 /\ (k + 1) - 1 = k
    BY <1>1
  <2>2. B!Shifted[k + 1] = 2 * B!Shifted[k]
    BY <2>1, ShiftedDoubles
  <2>3. QED
    BY <1>1, <1>3, <1>4, <2>1, <2>2 DEF B!BLOCKSIZE
<1>7. B!BLOCKSIZE(0) = BuddyMin
  <2>1. 0 \in dom /\ B!Shifted[0] = 1
    BY <1>1, ShiftedDoubles
  <2>2. QED
    BY <1>1, <1>3, <2>1 DEF B!BLOCKSIZE
<1>8. QED
  BY <1>5, <1>6, <1>7

(* The size of a level is a multiple of that of each level below it.       *)
LEMMA SizesDivide ==
  ASSUME NEW j \in 0 .. MAX_EXP + 1, NEW l \in j .. MAX_EXP + 1
  PROVE  \E q \in Nat \ {0} : B!BLOCKSIZE(l) = q * B!BLOCKSIZE(j)
<1> DEFINE Bad == {k \in j .. MAX_EXP + 1 :
                     ~ \E q \in Nat \ {0} : B!BLOCKSIZE(k) = q * B!BLOCKSIZE(j)}
<1>1. MAX_EXP \in Nat /\ j \in Nat
  BY BuddyConstants
<1>2. SUFFICES ASSUME Bad # {}
               PROVE  FALSE
  OBVIOUS
<1>3. PICK m \in Bad : \A n \in Bad : m <= n
  <2>1. Bad \subseteq Nat
    BY <1>1
  <2>2. QED
    BY <1>2, <2>1, LeastNumber
<1>4. m # j
  <2>1. B!BLOCKSIZE(j) = 1 * B!BLOCKSIZE(j)
    BY SizesDouble
  <2>2. QED
    BY <2>1
<1>5. m - 1 \in j .. MAX_EXP + 1 /\ m - 1 \notin Bad /\ m - 1 \in 0 .. MAX_EXP /\ (m - 1) + 1 = m
  BY <1>1, <1>3, <1>4
<1>6. PICK q \in Nat \ {0} : B!BLOCKSIZE(m - 1) = q * B!BLOCKSIZE(j)
  BY <1>5
<1>7. B!BLOCKSIZE(m) = 2 * B!BLOCKSIZE(m - 1)
  BY <1>5, SizesDouble
<1>8. B!BLOCKSIZE(m) = (2 * q) * B!BLOCKSIZE(j)
  <2>1. ASSUME NEW x \in Nat
        PROVE  2 * (q * x) = (2 * q) * x
    OBVIOUS
  <2>2. QED
    BY <1>6, <1>7, <2>1, SizesDouble
<1>9. 2 * q \in Nat \ {0} /\ m \in j .. MAX_EXP + 1
  OBVIOUS
<1>10. QED
  BY <1>8, <1>9

LEMMA SizesGrow ==
  ASSUME NEW j \in 0 .. MAX_EXP + 1, NEW l \in 0 .. MAX_EXP + 1
  PROVE  j < l <=> B!BLOCKSIZE(j) < B!BLOCKSIZE(l)
<1>1. ASSUME NEW p \in 0 .. MAX_EXP + 1, NEW q \in 0 .. MAX_EXP + 1, p < q
      PROVE  B!BLOCKSIZE(p) < B!BLOCKSIZE(q)
  <2>1. MAX_EXP \in Nat
    BY TestMMAssumption
  <2>2. p \in 0 .. MAX_EXP /\ p + 1 \in 0 .. MAX_EXP + 1 /\ q \in p + 1 .. MAX_EXP + 1
    BY <1>1, <2>1
  <2>3. PICK r \in Nat \ {0} : B!BLOCKSIZE(q) = r * B!BLOCKSIZE(p + 1)
    BY <2>2, SizesDivide
  <2>4. B!BLOCKSIZE(p + 1) = 2 * B!BLOCKSIZE(p) /\ B!BLOCKSIZE(p) \in Nat \ {0}
    BY <2>2, SizesDouble
  <2>5. ASSUME NEW x \in Nat \ {0}
        PROVE  x < r * (2 * x)
    OBVIOUS
  <2>6. QED
    BY <2>3, <2>4, <2>5
<1>2. B!BLOCKSIZE(j) \in Nat /\ B!BLOCKSIZE(l) \in Nat
  BY SizesDouble
<1>3. CASE j < l
  BY <1>1, <1>3
<1>4. CASE j = l
  BY <1>2, <1>4
<1>5. CASE l < j
  <2>1. B!BLOCKSIZE(l) < B!BLOCKSIZE(j)
    BY <1>1, <1>5
  <2>2. QED
    BY <1>2, <1>5, <2>1
<1>6. j \in Int /\ l \in Int
  BY BuddyConstants
<1>7. QED
  BY <1>3, <1>4, <1>5, <1>6

(* A multiple of a size, and of twice that size.                           *)
LEMMA Multiple ==
  ASSUME NEW a \in Nat, NEW s \in Nat \ {0}, NEW q \in Nat, a = q * s
  PROVE  a % s = 0 /\ a \div s = q
OBVIOUS

LEMMA Quotient ==
  ASSUME NEW a \in Nat, NEW s \in Nat \ {0}, a % s = 0
  PROVE  \E q \in Nat : a = q * s
<1>1. a \div s \in Nat /\ a = (a \div s) * s
  OBVIOUS
<1>2. QED
  BY <1>1

(* What a buddy is.                                                        *)
LEMMA AlignedTwice ==
  ASSUME NEW a \in Nat, NEW s \in Nat \ {0}, a % s = 0
  PROVE  /\ (a \div s) % 2 = 0 => a % (2 * s) = 0
         /\ (a \div s) % 2 # 0 => a - s \in Nat /\ (a - s) % (2 * s) = 0
<1>1. PICK q \in Nat : q = a \div s /\ a = q * s
  OBVIOUS
<1>2. CASE q % 2 = 0
  <2>1. PICK h \in Nat : q = 2 * h
    BY <1>2
  <2>2. a = h * (2 * s) /\ 2 * s \in Nat \ {0}
    BY <1>1, <2>1
  <2>3. a % (2 * s) = 0
    BY <2>2
  <2>4. QED
    BY <1>1, <1>2, <2>3
<1>3. CASE q % 2 # 0
  <2>1. PICK h \in Nat : q = 2 * h + 1
    BY <1>3
  <2>2. a - s = h * (2 * s) /\ 2 * s \in Nat \ {0} /\ a - s \in Nat
    BY <1>1, <2>1
  <2>3. (a - s) % (2 * s) = 0
    BY <2>2, Multiple
  <2>4. QED
    BY <1>1, <1>3, <2>2, <2>3
<1>4. QED
  BY <1>2, <1>3

LEMMA AlignedHalf ==
  ASSUME NEW a \in Nat, NEW s \in Nat \ {0}, a % (2 * s) = 0
  PROVE  /\ a % s = 0 /\ (a \div s) % 2 = 0
         /\ (a + s) % s = 0 /\ ((a + s) \div s) % 2 = 1
OBVIOUS

LEMMA HalfFacts ==
  ASSUME NEW j \in 0 .. MAX_EXP, NEW a \in Nat, a % B!BLOCKSIZE(j + 1) = 0
  PROVE  /\ a % B!BLOCKSIZE(j) = 0 /\ B!GET_BUDDY(a, j) = a + B!BLOCKSIZE(j)
         /\ (a + B!BLOCKSIZE(j)) % B!BLOCKSIZE(j) = 0
         /\ B!GET_BUDDY(a + B!BLOCKSIZE(j), j) = a
<1>1. j \in 0 .. MAX_EXP + 1
  BY BuddyConstants
<1>2. PICK s \in Nat \ {0} : s = B!BLOCKSIZE(j) /\ B!BLOCKSIZE(j + 1) = 2 * s
  BY <1>1, SizesDouble
<1>3. /\ a % s = 0 /\ (a \div s) % 2 = 0
      /\ (a + s) % s = 0 /\ ((a + s) \div s) % 2 = 1
  <2>1. a % (2 * s) = 0
    BY <1>2
  <2>2. QED
    BY <2>1, AlignedHalf
<1>4. QED
  BY <1>2, <1>3 DEF B!GET_BUDDY

LEMMA BuddyFacts ==
  ASSUME NEW j \in 0 .. MAX_EXP, NEW a \in Nat, a % B!BLOCKSIZE(j) = 0
  PROVE  LET c   == B!GET_BUDDY(a, j)
             low == B!Lower(a, c)
         IN /\ c \in Nat /\ c % B!BLOCKSIZE(j) = 0 /\ B!GET_BUDDY(c, j) = a
            /\ low \in Nat /\ low % B!BLOCKSIZE(j + 1) = 0
            /\ \/ a = low /\ c = low + B!BLOCKSIZE(j)
               \/ c = low /\ a = low + B!BLOCKSIZE(j)
<1>1. j \in 0 .. MAX_EXP + 1
  BY BuddyConstants
<1>2. PICK s \in Nat \ {0} : s = B!BLOCKSIZE(j) /\ B!BLOCKSIZE(j + 1) = 2 * s
  BY <1>1, SizesDouble
<1> DEFINE c   == B!GET_BUDDY(a, j)
           low == B!Lower(a, c)
<1>3. CASE (a \div s) % 2 = 0
  <2>1. a % (2 * s) = 0
    BY <1>2, <1>3, AlignedTwice
  <2>2. c = a + s
    BY <1>2, <1>3 DEF B!GET_BUDDY
  <2>3. low = a
    BY <2>2 DEF B!Lower
  <2>4. c % s = 0 /\ B!GET_BUDDY(a + s, j) = a
    BY <1>2, <2>1, <2>2, HalfFacts
  <2>5. QED
    BY <1>2, <2>1, <2>2, <2>3, <2>4
<1>4. CASE (a \div s) % 2 # 0
  <2>1. a - s \in Nat /\ (a - s) % (2 * s) = 0
    BY <1>2, <1>4, AlignedTwice
  <2>2. c = a - s
    BY <1>2, <1>4 DEF B!GET_BUDDY
  <2>3. low = c /\ (a - s) + s = a
    BY <2>1, <2>2 DEF B!Lower
  <2>4. (a - s) % s = 0 /\ B!GET_BUDDY(a - s, j) = (a - s) + s
    BY <1>2, <2>1, HalfFacts
  <2> HIDE DEF c, low
  <2>5. QED
    BY <1>2, <2>1, <2>2, <2>3, <2>4 DEF c, low
<1>5. QED
  BY <1>3, <1>4

(* The block memInit() starts with is one level, inside of the memory.     *)
LEMMA IndexFound ==
  ASSUME NEW size \in Nat
  PROVE  /\ B!obtainIndex(size) \in 0 .. MAX_EXP + 1
         /\ \A j \in 0 .. B!obtainIndex(size) - 1 : B!BLOCKSIZE(j) < size
         /\ B!obtainIndex(size) <= MAX_EXP => B!BLOCKSIZE(B!obtainIndex(size)) >= size
<1> DEFINE S == {k \in 0 .. MAX_EXP + 1 : k = MAX_EXP + 1 \/ B!BLOCKSIZE(k) >= size}
<1>1. MAX_EXP \in Nat
  BY BuddyConstants
<1>2. PICK m \in S : \A n \in S : m <= n
  <2>1. S \subseteq Nat /\ MAX_EXP + 1 \in S
    BY <1>1
  <2>2. QED
    BY <2>1, LeastNumber
<1>3. \A j \in 0 .. m - 1 : B!BLOCKSIZE(j) < size
  <2>1. SUFFICES ASSUME NEW j \in 0 .. m - 1
                 PROVE  B!BLOCKSIZE(j) < size
    OBVIOUS
  <2>2. j \in 0 .. MAX_EXP + 1 /\ j \notin S
    BY <1>1, <1>2
  <2>3. QED
    BY <2>2, SizesDouble
<1>4. \E k \in 0 .. MAX_EXP + 1 :
         /\ \A j \in 0 .. k - 1 : B!BLOCKSIZE(j) < size
         /\ k <= MAX_EXP => B!BLOCKSIZE(k) >= size
  <2>1. m \in 0 .. MAX_EXP + 1 /\ (m <= MAX_EXP => B!BLOCKSIZE(m) >= size)
    BY <1>1
  <2>2. QED
    BY <1>3, <2>1
<1>5. QED
  BY <1>4 DEF B!obtainIndex

LEMMA RootFacts ==
  /\ B!RootLevel \in 0 .. MAX_EXP
  /\ B!BLOCKSIZE(B!RootLevel) <= Total
<1> DEFINE k == B!obtainIndex(Total)
<1>1. /\ MAX_EXP \in Nat /\ Total \in Nat /\ BuddyMin <= Total
      /\ 0 \in 0 .. MAX_EXP + 1 /\ B!BLOCKSIZE(0) <= Total
  BY BuddyConstants, FreeListAssumption, SizesDouble
<1>2. /\ k \in 0 .. MAX_EXP + 1
      /\ \A j \in 0 .. k - 1 : B!BLOCKSIZE(j) < Total
      /\ k <= MAX_EXP => B!BLOCKSIZE(k) >= Total
  BY <1>1, IndexFound
<1>3. \A j \in 0 .. MAX_EXP + 1 : B!BLOCKSIZE(j) \in Nat
  BY SizesDouble
<1> HIDE DEF k
<1>4. B!RootLevel = LET j == IF B!BLOCKSIZE(k) > Total THEN k - 1 ELSE k
                    IN IF j > MAX_EXP THEN MAX_EXP ELSE j
  BY DEF B!RootLevel, k
<1>5. CASE B!BLOCKSIZE(k) > Total
  <2>1. k # 0
    BY <1>1, <1>3, <1>5
  <2>2. k - 1 \in 0 .. MAX_EXP /\ k - 1 \in 0 .. k - 1
    BY <1>1, <1>2, <2>1
  <2>3. B!RootLevel = k - 1
    BY <1>1, <1>4, <1>5, <2>2
  <2>4. B!BLOCKSIZE(k - 1) < Total /\ B!BLOCKSIZE(k - 1) \in Nat
    BY <1>1, <1>2, <1>3, <2>2
  <2>5. QED
    BY <1>1, <2>2, <2>3, <2>4
<1>6. CASE ~(B!BLOCKSIZE(k) > Total)
  <2>1. CASE k > MAX_EXP
    <3>1. B!RootLevel = MAX_EXP /\ MAX_EXP \in 0 .. k - 1 /\ MAX_EXP \in 0 .. MAX_EXP + 1
      BY <1>1, <1>2, <1>4, <1>6, <2>1
    <3>2. B!BLOCKSIZE(MAX_EXP) < Total /\ B!BLOCKSIZE(MAX_EXP) \in Nat
      BY <1>2, <1>3, <3>1
    <3>3. QED
      BY <1>1, <3>1, <3>2
  <2>2. CASE ~(k > MAX_EXP)
    <3>1. B!RootLevel = k /\ k \in 0 .. MAX_EXP
      BY <1>1, <1>2, <1>4, <1>6, <2>2
    <3>2. QED
      BY <1>1, <1>2, <1>3, <1>6, <3>1
  <2>3. QED
    BY <2>1, <2>2
<1>7. QED
  BY <1>5, <1>6

(* A set of blocks halves the memory: they start at multiples of their     *)
(* sizes, do not overlap, and leave no byte out.                           *)
BuddyBlock == [addr : Nat, level : 0 .. MAX_EXP]

After(b) == b.addr + B!BLOCKSIZE(b.level)

Root == B!BLOCKSIZE(B!RootLevel)

Clear(b, c) == After(b) <= c.addr \/ After(c) <= b.addr

Aligned(b) == b.addr % B!BLOCKSIZE(b.level) = 0

Halves(S) ==
  /\ S \subseteq BuddyBlock
  /\ \A b \in S : Aligned(b) /\ After(b) <= Root
  /\ \A b, c \in S : b # c => Clear(b, c)
  /\ \A x \in 0 .. Root - 1 : \E c \in S : c.addr <= x /\ x < After(c)

LEMMA AfterFacts ==
  ASSUME NEW b \in BuddyBlock
  PROVE  /\ b.addr \in Nat /\ b.level \in 0 .. MAX_EXP /\ b.level \in 0 .. MAX_EXP + 1
         /\ B!BLOCKSIZE(b.level) \in Nat \ {0}
         /\ After(b) \in Nat /\ b.addr < After(b)
<1>1. b.addr \in Nat /\ b.level \in 0 .. MAX_EXP /\ b.level \in 0 .. MAX_EXP + 1
  BY BuddyConstants DEF BuddyBlock
<1>2. B!BLOCKSIZE(b.level) \in Nat \ {0}
  BY <1>1, SizesDouble
<1>3. QED
  BY <1>1, <1>2 DEF After

LEMMA RootSize == Root \in Nat \ {0}
<1>1. B!RootLevel \in 0 .. MAX_EXP + 1
  BY RootFacts, BuddyConstants
<1>2. QED
  BY <1>1, SizesDouble DEF Root

(* The blocks of a stretch of memory can be cut in another way.            *)
Recutting(S, Old, New, lo, hi) ==
  /\ Old \subseteq S /\ New \subseteq BuddyBlock
  /\ lo \in Nat /\ hi \in Nat /\ hi <= Root
  /\ \A b \in Old : lo <= b.addr /\ After(b) <= hi
  /\ \A c \in S \ Old : After(c) <= lo \/ hi <= c.addr
  /\ \A b \in New : Aligned(b) /\ lo <= b.addr /\ After(b) <= hi
  /\ \A b, c \in New : b # c => Clear(b, c)
  /\ \A x \in lo .. hi - 1 : \E c \in New : c.addr <= x /\ x < After(c)

LEMMA Recut ==
  ASSUME NEW S, NEW Old, NEW New, NEW lo, NEW hi, Halves(S), Recutting(S, Old, New, lo, hi)
  PROVE  Halves((S \ Old) \cup New) /\ New \cap (S \ Old) = {}
<1> USE DEF Recutting
<1> DEFINE T == (S \ Old) \cup New
<1>1. S \subseteq BuddyBlock /\ T \subseteq BuddyBlock
  BY DEF Halves
<1>2. Root \in Nat
  BY RootSize
<1>3. ASSUME NEW b \in T
      PROVE  Aligned(b) /\ After(b) <= Root
  <2>1. CASE b \in S
    BY <2>1 DEF Halves
  <2>2. CASE b \in New
    BY <1>2, <2>2, AfterFacts
  <2>3. QED
    BY <2>1, <2>2
<1>4. ASSUME NEW b \in New, NEW c \in S \ Old
      PROVE  Clear(b, c) /\ Clear(c, b) /\ b # c
  <2>1. /\ b.addr \in Nat /\ After(b) \in Nat /\ b.addr < After(b)
        /\ c.addr \in Nat /\ After(c) \in Nat
    BY <1>1, AfterFacts
  <2>2. lo <= b.addr /\ After(b) <= hi /\ (After(c) <= lo \/ hi <= c.addr)
    OBVIOUS
  <2>3. After(b) <= c.addr \/ After(c) <= b.addr
    BY <2>1, <2>2
  <2>4. b # c
    BY <2>1, <2>3
  <2>5. QED
    BY <2>3, <2>4 DEF Clear
<1>5. ASSUME NEW b \in T, NEW c \in T, b # c
      PROVE  Clear(b, c)
  <2>1. CASE b \in New /\ c \in New
    BY <1>5, <2>1
  <2>2. CASE b \in S \ Old /\ c \in S \ Old
    BY <1>5, <2>2 DEF Halves
  <2>3. QED
    BY <1>4, <2>1, <2>2
<1>6. ASSUME NEW x \in 0 .. Root - 1
      PROVE  \E c \in T : c.addr <= x /\ x < After(c)
  <2>1. CASE x \in lo .. hi - 1
    BY <2>1
  <2>2. CASE ~(x \in lo .. hi - 1)
    <3>1. PICK c \in S : c.addr <= x /\ x < After(c)
      BY DEF Halves
    <3>2. c \notin Old
      <4>1. SUFFICES ASSUME c \in Old
                     PROVE  FALSE
        OBVIOUS
      <4>2. lo <= c.addr /\ After(c) <= hi
        BY <4>1
      <4>3. c.addr \in Nat /\ After(c) \in Nat /\ x \in Int
        BY <1>1, <1>2, AfterFacts
      <4>4. QED
        BY <2>2, <3>1, <4>2, <4>3
    <3>3. QED
      BY <3>1, <3>2
  <2>3. QED
    BY <2>1, <2>2
<1>7. New \cap (S \ Old) = {}
  BY <1>4
<1> HIDE DEF T
<1>8. Halves(T)
  BY <1>1, <1>3, <1>5, <1>6 DEF Halves
<1>9. QED
  BY <1>7, <1>8 DEF T

(* A block and its two halves.                                             *)
LEMMA SplitHalves ==
  ASSUME NEW S, Halves(S), NEW b \in S, NEW j \in 0 .. MAX_EXP, b.level = j + 1
  PROVE  LET one == [addr |-> b.addr, level |-> j]
             two == [addr |-> b.addr + B!BLOCKSIZE(j), level |-> j]
         IN Halves((S \ {b}) \cup {one, two})
<1> DEFINE one == [addr |-> b.addr, level |-> j]
           two == [addr |-> b.addr + B!BLOCKSIZE(j), level |-> j]
<1>1. /\ b \in BuddyBlock /\ b.addr \in Nat /\ After(b) \in Nat /\ Aligned(b) /\ After(b) <= Root
      /\ \A c \in S \ {b} : After(c) <= b.addr \/ After(b) <= c.addr
  BY AfterFacts DEF Halves, Clear
<1>2. j \in 0 .. MAX_EXP + 1
  BY BuddyConstants
<1>3. PICK s \in Nat \ {0} : s = B!BLOCKSIZE(j) /\ B!BLOCKSIZE(j + 1) = 2 * s
  BY <1>2, SizesDouble
<1>4. b.addr % s = 0 /\ (b.addr + s) % s = 0
  BY <1>1, <1>3, HalfFacts DEF Aligned
<1>5. /\ one \in BuddyBlock /\ two \in BuddyBlock
      /\ one.addr = b.addr /\ two.addr = b.addr + s /\ one.level = j /\ two.level = j
  BY <1>1, <1>3 DEF BuddyBlock
<1>6. After(b) = b.addr + 2 * s
  BY <1>3 DEF After
<1> HIDE DEF one, two
<1>7. After(one) = b.addr + s /\ After(two) = b.addr + s + s
  BY <1>1, <1>3, <1>5 DEF After
<1>8. Aligned(one) /\ Aligned(two)
  BY <1>3, <1>4, <1>5 DEF Aligned
<1> DEFINE New == {one, two}
<1>9. \A c \in New : Aligned(c) /\ b.addr <= c.addr /\ After(c) <= After(b)
  BY <1>1, <1>5, <1>6, <1>7, <1>8
<1>10. \A c, d \in New : c # d => Clear(c, d)
  BY <1>1, <1>5, <1>7 DEF Clear
<1>11. \A x \in b.addr .. After(b) - 1 : \E c \in New : c.addr <= x /\ x < After(c)
  BY <1>1, <1>5, <1>6, <1>7
<1>12. New \in SUBSET BuddyBlock
  BY <1>5
<1> HIDE DEF New
<1>13. Halves((S \ {b}) \cup New)
  <2>1. \A c \in {b} : b.addr <= c.addr /\ After(c) <= After(b)
    BY <1>1
  <2>2. {b} \in SUBSET S
    OBVIOUS
  <2>3. Recutting(S, {b}, New, b.addr, After(b))
    BY <1>1, <1>9, <1>10, <1>11, <1>12, <2>1, <2>2 DEF Recutting
  <2>4. QED
    BY <2>3, Recut
<1>14. QED
  BY <1>13 DEF New, one, two

(* Two buddies and the block they are the halves of.                       *)
LEMMA JoinHalves ==
  ASSUME NEW S, Halves(S), NEW b \in S, NEW c \in S, NEW j \in 0 .. MAX_EXP,
         b.level = j, c.level = j, c.addr = B!GET_BUDDY(b.addr, j)
  PROVE  LET n == [addr |-> B!Lower(b.addr, c.addr), level |-> j + 1]
         IN /\ j < B!RootLevel
            /\ Halves((S \ {b, c}) \cup {n})
            /\ n \notin S \ {b, c}
<1> DEFINE low == B!Lower(b.addr, c.addr)
           n == [addr |-> low, level |-> j + 1]
<1>1. /\ b \in BuddyBlock /\ c \in BuddyBlock /\ b.addr \in Nat /\ c.addr \in Nat
      /\ Aligned(b) /\ After(b) <= Root /\ After(c) <= Root
      /\ \A d \in S \ {b, c} : Clear(b, d) /\ Clear(c, d) /\ d \in BuddyBlock
  BY AfterFacts DEF Halves
<1>2. j \in 0 .. MAX_EXP + 1 /\ MAX_EXP \in Nat
  BY BuddyConstants
<1>3. PICK s \in Nat \ {0} : s = B!BLOCKSIZE(j) /\ B!BLOCKSIZE(j + 1) = 2 * s
  BY <1>2, SizesDouble
<1>4. /\ low \in Nat /\ low % (2 * s) = 0
      /\ \/ b.addr = low /\ c.addr = low + s
         \/ c.addr = low /\ b.addr = low + s
  BY <1>1, <1>3, BuddyFacts DEF Aligned
<1> HIDE DEF low
<1>5. After(b) = b.addr + s /\ After(c) = c.addr + s
  BY <1>3 DEF After
<1>6. low + 2 * s <= Root /\ Root \in Nat
  BY <1>1, <1>4, <1>5, RootSize
<1>7. j < B!RootLevel
  <2>1. j + 1 \in 0 .. MAX_EXP + 1 /\ B!RootLevel \in 0 .. MAX_EXP + 1 /\ B!RootLevel \in Int
    BY <1>2, RootFacts
  <2>2. ~(Root < 2 * s)
    BY <1>4, <1>6
  <2>3. ~(B!RootLevel < j + 1)
    BY <1>3, <2>1, <2>2, SizesGrow DEF Root
  <2>4. QED
    BY <2>1, <2>3
<1>8. n \in BuddyBlock /\ n.addr = low /\ n.level = j + 1
  <2>1. j + 1 \in 0 .. MAX_EXP
    BY <1>2, <1>7, RootFacts
  <2>2. QED
    BY <1>4, <2>1 DEF BuddyBlock
<1> HIDE DEF n
<1>9. After(n) = low + 2 * s /\ Aligned(n)
  BY <1>3, <1>4, <1>8 DEF After, Aligned
<1>10. ASSUME NEW d \in S \ {b, c}
       PROVE  After(d) <= low \/ After(n) <= d.addr
  <2>1. d.addr \in Nat /\ After(d) \in Nat /\ d.addr < After(d)
    BY <1>1, AfterFacts
  <2>2. /\ b.addr + s <= d.addr \/ After(d) <= b.addr
        /\ c.addr + s <= d.addr \/ After(d) <= c.addr
    BY <1>1, <1>5 DEF Clear
  <2>3. QED
    BY <1>4, <1>9, <2>1, <2>2
<1> DEFINE Old == {b, c}
           New == {n}
           hi == After(n)
<1>11. /\ Old \in SUBSET S /\ New \in SUBSET BuddyBlock /\ hi \in Nat /\ hi <= Root
       /\ \A d \in New : Aligned(d) /\ low <= d.addr /\ After(d) <= hi
       /\ \A d, e \in New : d # e => Clear(d, e)
       /\ \A x \in low .. hi - 1 : \E d \in New : d.addr <= x /\ x < After(d)
  BY <1>4, <1>6, <1>8, <1>9
<1>12. \A d \in Old : low <= d.addr /\ After(d) <= hi
  BY <1>1, <1>4, <1>5, <1>9
<1>13. \A d \in S \ Old : After(d) <= low \/ hi <= d.addr
  BY <1>10
<1> HIDE DEF Old, New, hi
<1>14. Halves((S \ Old) \cup New) /\ New \cap (S \ Old) = {}
  <2>1. Recutting(S, Old, New, low, hi)
    BY <1>4, <1>11, <1>12, <1>13 DEF Recutting
  <2>2. QED
    BY <2>1, Recut
<1>15. QED
  BY <1>7, <1>14 DEF Old, New, n, low

(* No other block starts inside of a block.                                *)
LEMMA AloneInside ==
  ASSUME NEW S, Halves(S), NEW b \in S, NEW d \in S, b.addr <= d.addr, d.addr < After(b)
  PROVE  d = b
<1>1. b \in BuddyBlock /\ d \in BuddyBlock
  BY DEF Halves
<1>2. /\ b.addr \in Nat /\ d.addr \in Nat /\ After(b) \in Nat /\ After(d) \in Nat
      /\ d.addr < After(d)
  BY <1>1, AfterFacts
<1>3. ~Clear(b, d)
  BY <1>2 DEF Clear
<1>4. QED
  BY <1>3 DEF Halves

(* What memAllocRec() makes of a block at a of level top that it halves    *)
(* down to level l: the upper halves, and what is left for the caller.     *)
Upper(a, l, top) == {[addr |-> a + B!BLOCKSIZE(k), level |-> k] : k \in l .. top - 1}

LEMMA SplitDown ==
  ASSUME NEW S, Halves(S), NEW b \in S, NEW l \in 0 .. b.level
  PROVE  Halves((S \ {b}) \cup Upper(b.addr, l, b.level) \cup {[addr |-> b.addr, level |-> l]})
<1> DEFINE a == b.addr
           top == b.level
           low(k) == [addr |-> a, level |-> k]
           Cut(k) == (S \ {b}) \cup Upper(a, k, top) \cup {low(k)}
           Bad == {n \in 0 .. top : ~Halves(Cut(top - n))}
<1>1. b \in BuddyBlock /\ a \in Nat /\ top \in 0 .. MAX_EXP /\ top \in Nat /\ a < After(b)
      /\ MAX_EXP \in Nat
  <2>1. b \in BuddyBlock
    BY DEF Halves
  <2>2. top \in 0 .. MAX_EXP /\ MAX_EXP \in Nat
    BY <2>1, BuddyConstants DEF BuddyBlock
  <2>3. QED
    BY <2>1, <2>2, AfterFacts
<1>2. b = low(top)
  BY <1>1 DEF BuddyBlock
<1>3. Halves(Cut(top))
  <2>1. Upper(a, top, top) = {}
    BY <1>1 DEF Upper
  <2>2. Cut(top) = S
    BY <1>2, <2>1
  <2>3. QED
    BY <2>2
<1>4. ASSUME NEW k \in 0 .. top - 1, Halves(Cut(k + 1))
      PROVE  Halves(Cut(k))
  <2> DEFINE up == [addr |-> a + B!BLOCKSIZE(k), level |-> k]
             c == low(k + 1)
  <2>1. k \in 0 .. MAX_EXP /\ k \in 0 .. MAX_EXP + 1 /\ k + 1 \in 0 .. top
    BY <1>1
  <2>2. c \in Cut(k + 1) /\ c.level = k + 1 /\ c.addr = a
    OBVIOUS
  <2>3. Halves((Cut(k + 1) \ {c}) \cup {low(k), up})
    <3>1. Halves((Cut(k + 1) \ {c})
                   \cup {[addr |-> c.addr, level |-> k], [addr |-> c.addr + B!BLOCKSIZE(k), level |-> k]})
      <4> HIDE DEF Cut, c
      <4>1. QED
        BY <1>4, <2>1, <2>2, SplitHalves
    <3>2. QED
      BY <2>2, <3>1
  <2>4. c \notin S \ {b}
    <3>1. SUFFICES ASSUME c \in S
                   PROVE  c = b
      OBVIOUS
    <3> HIDE DEF c
    <3>2. QED
      BY <1>1, <2>2, <3>1, AloneInside
  <2>5. c \notin Upper(a, k + 1, top)
    <3>1. SUFFICES ASSUME NEW m \in k + 1 .. top - 1
                   PROVE  c # [addr |-> a + B!BLOCKSIZE(m), level |-> m]
      BY DEF Upper
    <3>2. m \in 0 .. MAX_EXP + 1
      BY <1>1, <2>1
    <3>3. a + B!BLOCKSIZE(m) # a
      BY <1>1, <3>2, SizesDouble
    <3>4. QED
      BY <3>3
  <2>6. Upper(a, k, top) = Upper(a, k + 1, top) \cup {up}
    <3>1. k .. top - 1 = (k + 1 .. top - 1) \cup {k}
      BY <1>1, <2>1
    <3>2. QED
      BY <3>1 DEF Upper
  <2>7. (Cut(k + 1) \ {c}) \cup {low(k), up} = Cut(k)
    <3> HIDE DEF low, up
    <3>1. QED
      BY <2>4, <2>5, <2>6
  <2>8. QED
    BY <2>3, <2>7
<1> HIDE DEF Cut
<1>5. Bad = {}
  <2>1. SUFFICES ASSUME Bad # {}
                 PROVE  FALSE
    OBVIOUS
  <2>2. PICK n \in Bad : \A m \in Bad : n <= m
    <3>1. Bad \subseteq Nat
      BY <1>1
    <3>2. QED
      BY <2>1, <3>1, LeastNumber
  <2>3. n # 0
    BY <1>1, <1>3
  <2>4. n - 1 \in 0 .. top /\ n - 1 \notin Bad
    BY <1>1, <2>2, <2>3
  <2>5. Halves(Cut(top - (n - 1)))
    BY <2>4
  <2>6. top - (n - 1) = (top - n) + 1 /\ top - n \in 0 .. top - 1
    BY <1>1, <2>3
  <2>7. Halves(Cut(top - n))
    BY <1>4, <2>5, <2>6
  <2>8. QED
    BY <2>2, <2>7
<1>6. top - l \in 0 .. top /\ top - (top - l) = l
  BY <1>1
<1>7. Halves(Cut(l))
  BY <1>5, <1>6
<1>8. QED
  BY <1>7 DEF Cut

-----------------------------------------------------------------------------
(* The lists of free blocks.  A block is in its list once.                 *)
Once(s) == \A j, k \in 1 .. Len(s) : s[j] = s[k] => j = k

LEMMA PushElements ==
  ASSUME NEW s \in Seq(Nat), NEW b \in Nat
  PROVE  /\ <<b>> \o s \in Seq(Nat)
         /\ \A c : B!In(<<b>> \o s, c) <=> c = b \/ B!In(s, c)
         /\ Once(s) /\ ~B!In(s, b) => Once(<<b>> \o s)
<1> DEFINE t == <<b>> \o s
<1>1. Len(s) \in Nat /\ \A k \in 1 .. Len(s) : s[k] \in Nat
  BY LenProperties, ElementOfSeq
<1>2. /\ t \in Seq(Nat) /\ Len(t) = Len(s) + 1 /\ t[1] = b
      /\ \A k \in 1 .. Len(s) : t[k + 1] = s[k]
  <2>1. <<b>> \in Seq(Nat) /\ Len(<<b>>) = 1 /\ <<b>>[1] = b
    OBVIOUS
  <2> DEFINE o == <<b>>
  <2> HIDE DEF o
  <2>2. /\ o \o s \in Seq(Nat) /\ Len(o \o s) = Len(o) + Len(s)
        /\ \A k \in 1 .. Len(o) + Len(s) : (o \o s)[k] = IF k <= Len(o) THEN o[k] ELSE s[k - Len(o)]
    BY <2>1, ConcatProperties DEF o
  <2>3. Len(o) = 1 /\ o[1] = b
    BY <2>1 DEF o
  <2>4. (o \o s)[1] = b /\ \A k \in 1 .. Len(s) : (o \o s)[k + 1] = s[k]
    BY <1>1, <2>2, <2>3
  <2>5. QED
    BY <1>1, <2>2, <2>3, <2>4 DEF o
<1> HIDE DEF t
<1>3. \A k \in 1 .. Len(t) : k = 1 \/ (k - 1 \in 1 .. Len(s) /\ t[k] = s[k - 1])
  <2>1. SUFFICES ASSUME NEW k \in 1 .. Len(t), k # 1
                 PROVE  k - 1 \in 1 .. Len(s) /\ t[k] = s[k - 1]
    OBVIOUS
  <2>2. k - 1 \in 1 .. Len(s) /\ (k - 1) + 1 = k
    BY <1>1, <1>2, <2>1
  <2>3. QED
    BY <1>2, <2>2
<1>4. ASSUME NEW c
      PROVE  B!In(t, c) <=> c = b \/ B!In(s, c)
  <2>1. ASSUME B!In(t, c)
        PROVE  c = b \/ B!In(s, c)
    BY <1>2, <1>3, <2>1 DEF B!In
  <2>2. ASSUME c = b
        PROVE  B!In(t, c)
    <3>1. 1 \in 1 .. Len(t)
      BY <1>1, <1>2
    <3>2. QED
      BY <1>2, <2>2, <3>1 DEF B!In
  <2>3. ASSUME B!In(s, c)
        PROVE  B!In(t, c)
    <3>1. PICK k \in 1 .. Len(s) : s[k] = c
      BY <2>3 DEF B!In
    <3>2. k + 1 \in 1 .. Len(t) /\ t[k + 1] = c
      BY <1>1, <1>2, <3>1
    <3>3. QED
      BY <3>2 DEF B!In
  <2>4. QED
    BY <2>1, <2>2, <2>3
<1>5. ASSUME Once(s), ~B!In(s, b)
      PROVE  Once(t)
  <2>1. SUFFICES ASSUME NEW j \in 1 .. Len(t), NEW k \in 1 .. Len(t), t[j] = t[k]
                 PROVE  j = k
    BY DEF Once
  <2>2. CASE j = 1
    <3>1. SUFFICES ASSUME k # 1
                   PROVE  FALSE
      BY <2>2
    <3>2. k - 1 \in 1 .. Len(s) /\ s[k - 1] = b
      BY <1>2, <1>3, <2>1, <2>2, <3>1
    <3>3. QED
      BY <1>5, <3>2 DEF B!In
  <2>3. CASE k = 1 /\ j # 1
    <3>1. j - 1 \in 1 .. Len(s) /\ s[j - 1] = b
      BY <1>2, <1>3, <2>1, <2>3
    <3>2. QED
      BY <1>5, <3>1 DEF B!In
  <2>4. CASE j # 1 /\ k # 1
    <3>1. j - 1 \in 1 .. Len(s) /\ k - 1 \in 1 .. Len(s) /\ s[j - 1] = s[k - 1]
      BY <1>3, <2>1, <2>4
    <3>2. j - 1 = k - 1
      BY <1>5, <3>1 DEF Once
    <3>3. QED
      BY <3>2
  <2>5. QED
    BY <2>2, <2>3, <2>4
<1>6. QED
  BY <1>2, <1>4, <1>5 DEF t

(* Taking out one place of a list.                                         *)
LEMMA TakenOut ==
  ASSUME NEW s \in Seq(Nat), Once(s), NEW k \in 1 .. Len(s), NEW t \in Seq(Nat),
         Len(t) = Len(s) - 1,
         \A j \in 1 .. Len(s) - 1 : t[j] = IF j < k THEN s[j] ELSE s[j + 1]
  PROVE  /\ Once(t)
         /\ \A c : B!In(t, c) <=> c # s[k] /\ B!In(s, c)
<1>1. Len(s) \in Nat
  BY LenProperties
<1>2. \A j \in 1 .. Len(t) : \E m \in 1 .. Len(s) : t[j] = s[m] /\ m # k /\ m = IF j < k THEN j ELSE j + 1
  <2>1. SUFFICES ASSUME NEW j \in 1 .. Len(t)
                 PROVE  \E m \in 1 .. Len(s) : t[j] = s[m] /\ m # k /\ m = IF j < k THEN j ELSE j + 1
    OBVIOUS
  <2>2. CASE j < k
    <3>1. j \in 1 .. Len(s) /\ j \in 1 .. Len(s) - 1 /\ j # k
      BY <1>1, <2>2
    <3>2. t[j] = s[j]
      BY <2>2, <3>1
    <3>3. QED
      BY <2>2, <3>1, <3>2
  <2>3. CASE ~(j < k)
    <3>1. j + 1 \in 1 .. Len(s) /\ j + 1 # k /\ t[j] = s[j + 1]
      <4>1. j \in 1 .. Len(s) - 1 /\ j + 1 \in 1 .. Len(s) /\ j + 1 # k
        BY <1>1, <2>3
      <4>2. t[j] = s[j + 1]
        BY <2>3, <4>1
      <4>3. QED
        BY <4>1, <4>2
    <3>2. QED
      BY <2>3, <3>1
  <2>4. QED
    BY <2>2, <2>3
<1>3. Once(t)
  <2>1. SUFFICES ASSUME NEW j \in 1 .. Len(t), NEW h \in 1 .. Len(t), t[j] = t[h]
                 PROVE  j = h
    BY DEF Once
  <2>2. PICK m \in 1 .. Len(s) : t[j] = s[m] /\ m # k /\ m = IF j < k THEN j ELSE j + 1
    BY <1>2
  <2>3. PICK n \in 1 .. Len(s) : t[h] = s[n] /\ n # k /\ n = IF h < k THEN h ELSE h + 1
    BY <1>2
  <2>4. m = n
    BY <2>1, <2>2, <2>3 DEF Once
  <2>5. m = (IF j < k THEN j ELSE j + 1) /\ m = (IF h < k THEN h ELSE h + 1)
    BY <2>2, <2>3, <2>4
  <2>6. j \in Int /\ h \in Int /\ k \in Int
    BY <1>1
  <2>7. QED
    BY <2>5, <2>6
<1>4. ASSUME NEW c
      PROVE  B!In(t, c) <=> c # s[k] /\ B!In(s, c)
  <2>1. ASSUME B!In(t, c)
        PROVE  c # s[k] /\ B!In(s, c)
    <3>1. PICK j \in 1 .. Len(t) : t[j] = c
      BY <2>1 DEF B!In
    <3>2. PICK m \in 1 .. Len(s) : t[j] = s[m] /\ m # k
      BY <1>2
    <3>3. QED
      BY <3>1, <3>2 DEF B!In, Once
  <2>2. ASSUME c # s[k], B!In(s, c)
        PROVE  B!In(t, c)
    <3>1. PICK m \in 1 .. Len(s) : s[m] = c
      BY <2>2 DEF B!In
    <3>2. m # k
      BY <2>2, <3>1
    <3>3. CASE m < k
      <4>1. m \in 1 .. Len(s) - 1 /\ t[m] = s[m]
        BY <1>1, <3>3
      <4>2. QED
        BY <3>1, <4>1 DEF B!In
    <3>4. CASE k < m
      <4>1. m - 1 \in 1 .. Len(s) - 1 /\ t[m - 1] = s[(m - 1) + 1] /\ (m - 1) + 1 = m
        BY <1>1, <3>4
      <4>2. QED
        BY <3>1, <4>1 DEF B!In
    <3>5. QED
      BY <3>2, <3>3, <3>4
  <2>3. QED
    BY <2>1, <2>2
<1>5. QED
  BY <1>3, <1>4

LEMMA TailElements ==
  ASSUME NEW s \in Seq(Nat), Once(s), s # <<>>
  PROVE  /\ Head(s) \in Nat /\ B!In(s, Head(s))
         /\ Tail(s) \in Seq(Nat) /\ Once(Tail(s))
         /\ \A c : B!In(Tail(s), c) <=> c # Head(s) /\ B!In(s, c)
<1>1. Len(s) \in Nat /\ Len(s) # 0 /\ 1 \in 1 .. Len(s) /\ Head(s) = s[1] /\ s[1] \in Nat
  BY LenProperties, ElementOfSeq, EmptySeq, HeadTailProperties
<1>2. /\ Tail(s) \in Seq(Nat) /\ Len(Tail(s)) = Len(s) - 1
      /\ \A j \in 1 .. Len(s) - 1 : Tail(s)[j] = s[j + 1]
  BY <1>1, HeadTailProperties
<1>3. \A j \in 1 .. Len(s) - 1 : Tail(s)[j] = IF j < 1 THEN s[j] ELSE s[j + 1]
  BY <1>1, <1>2
<1> DEFINE t == Tail(s)
<1> HIDE DEF t
<1>4. Once(t) /\ \A c : B!In(t, c) <=> c # s[1] /\ B!In(s, c)
  <2>1. /\ t \in Seq(Nat) /\ Len(t) = Len(s) - 1
        /\ \A j \in 1 .. Len(s) - 1 : t[j] = IF j < 1 THEN s[j] ELSE s[j + 1]
    BY <1>2, <1>3 DEF t
  <2>2. QED
    BY <1>1, <2>1, TakenOut
<1>5. B!In(s, s[1])
  BY <1>1 DEF B!In
<1>6. QED
  BY <1>1, <1>2, <1>4, <1>5 DEF t

LEMMA WithoutElements ==
  ASSUME NEW s \in Seq(Nat), Once(s), NEW b, B!In(s, b)
  PROVE  /\ B!Without(s, b) \in Seq(Nat) /\ Once(B!Without(s, b))
         /\ \A c : B!In(B!Without(s, b), c) <=> c # b /\ B!In(s, c)
<1> DEFINE P == {k \in 1 .. Len(s) : s[k] = b}
           m == B!Min(P)
<1>1. m \in P
  <2>1. PICK k \in P : \A n \in P : k <= n
    <3>1. P \subseteq Nat /\ P # {}
      BY LenProperties DEF B!In
    <3>2. QED
      BY <3>1, LeastNumber
  <2>2. QED
    BY <2>1 DEF B!Min
<1>2. B!Without(s, b) = RemoveAt(s, m)
  BY DEF B!Without, B!RemoveAt, RemoveAt
<1> HIDE DEF m
<1>3. m \in 1 .. Len(s) /\ s[m] = b
  BY <1>1
<1> DEFINE t == RemoveAt(s, m)
<1>4. /\ t \in Seq(Nat) /\ Len(t) = Len(s) - 1
      /\ \A j \in 1 .. Len(s) - 1 : t[j] = IF j < m THEN s[j] ELSE s[j + 1]
  BY <1>3, RemoveAtElements
<1> HIDE DEF t
<1>5. Once(t) /\ \A c : B!In(t, c) <=> c # s[m] /\ B!In(s, c)
  BY <1>3, <1>4, TakenOut
<1>6. QED
  BY <1>2, <1>3, <1>4, <1>5 DEF t

-----------------------------------------------------------------------------
(* What holds of the lists of buddy.c and of the blocks in use.            *)

(* The blocks in the lists.                                                *)
Listed(lists) == {b \in BuddyBlock : B!In(lists[b.level], b.addr)}

(* The lists hold distances, each of them once.                            *)
ListsOK(lists) ==
  /\ lists \in [0 .. MAX_EXP -> Seq(Nat)]
  /\ \A j \in 0 .. MAX_EXP : Once(lists[j])

(* No two buddies below the root are both free.                            *)
NoBuddies(lists) ==
  \A j \in 0 .. MAX_EXP : \A c \in Nat :
    j < B!RootLevel /\ B!In(lists[j], c) => ~B!In(lists[j], B!GET_BUDDY(c, j))

(* What always holds of the lists and of the set T of the blocks in use.   *)
BuddyInv(lists, T) ==
  /\ ListsOK(lists)
  /\ T \subseteq BuddyBlock
  /\ Listed(lists) \cap T = {}
  /\ Halves(Listed(lists) \cup T)
  /\ NoBuddies(lists)

LEMMA NoneIn == \A c : ~B!In(<<>>, c)
BY DEF B!In

LEMMA InNat ==
  ASSUME NEW s \in Seq(Nat), NEW c, B!In(s, c)
  PROVE  c \in Nat
BY ElementOfSeq DEF B!In

LEMMA BuddyIsOther ==
  ASSUME NEW j \in 0 .. MAX_EXP, NEW c \in Nat
  PROVE  B!GET_BUDDY(c, j) # c
<1>1. B!BLOCKSIZE(j) \in Nat \ {0}
  BY SizesDouble, BuddyConstants
<1>2. B!GET_BUDDY(c, j) = c + B!BLOCKSIZE(j) \/ B!GET_BUDDY(c, j) = c - B!BLOCKSIZE(j)
  BY DEF B!GET_BUDDY
<1>3. QED
  BY <1>1, <1>2

(* memAllocRec(): the block it gives is a new one in use.                  *)
LEMMA AllocKeepsInv ==
  ASSUME NEW lists, NEW T, BuddyInv(lists, T), NEW l \in 0 .. MAX_EXP + 1,
         B!Stocked(lists, l) # {}
  PROVE  LET r == B!memAllocRec(lists, l)
             n == [addr |-> r.block, level |-> l]
         IN /\ n \in BuddyBlock /\ n \notin T /\ r.block # B!NoBlock
            /\ BuddyInv(r.lists, T \cup {n})
<1> DEFINE top == B!Min(B!Stocked(lists, l))
           b   == Head(lists[top])
           blk == [addr |-> b, level |-> top]
           n   == [addr |-> b, level |-> l]
           S   == Listed(lists) \cup T
           new == B!memAllocRec(lists, l).lists
<1>1. MAX_EXP \in Nat /\ l \in Nat
  BY BuddyConstants
<1>2. /\ lists \in [0 .. MAX_EXP -> Seq(Nat)] /\ \A j \in 0 .. MAX_EXP : Once(lists[j])
      /\ T \subseteq BuddyBlock /\ Listed(lists) \cap T = {} /\ Halves(S)
  BY DEF BuddyInv, ListsOK
<1>3. top \in l .. MAX_EXP /\ lists[top] # <<>> /\ \A j \in l .. top - 1 : lists[j] = <<>>
  <2>1. PICK k \in B!Stocked(lists, l) : \A m \in B!Stocked(lists, l) : k <= m
    <3>1. B!Stocked(lists, l) \subseteq Nat
      BY <1>1 DEF B!Stocked
    <3>2. QED
      BY <3>1, LeastNumber
  <2>2. top \in B!Stocked(lists, l) /\ \A m \in B!Stocked(lists, l) : top <= m
    BY <2>1 DEF B!Min
  <2> HIDE DEF top
  <2>3. top \in l .. MAX_EXP /\ lists[top] # <<>>
    BY <2>2 DEF B!Stocked
  <2>4. ASSUME NEW j \in l .. top - 1
        PROVE  lists[j] = <<>>
    <3>1. j \notin B!Stocked(lists, l)
      BY <1>1, <2>2, <2>3
    <3>2. j \in l .. MAX_EXP
      BY <1>1, <2>3
    <3>3. QED
      BY <3>1, <3>2 DEF B!Stocked
  <2>5. QED
    BY <2>3, <2>4
<1>4. /\ B!memAllocRec(lists, l).block = b
      /\ new = [j \in 0 .. MAX_EXP |->
                  IF j \in l .. top - 1 THEN <<B!GET_BUDDY(b, j)>> \o lists[j]
                  ELSE IF j = top THEN Tail(lists[j])
                  ELSE lists[j]]
  BY DEF B!memAllocRec, B!Level
<1> HIDE DEF top, new
<1>5. top \in 0 .. MAX_EXP /\ top \in Nat /\ l \in 0 .. MAX_EXP /\ l \in 0 .. top
  BY <1>1, <1>3
<1>6. /\ b \in Nat /\ B!In(lists[top], b)
      /\ Tail(lists[top]) \in Seq(Nat) /\ Once(Tail(lists[top]))
      /\ \A c : B!In(Tail(lists[top]), c) <=> c # b /\ B!In(lists[top], c)
  BY <1>2, <1>3, <1>5, TailElements
<1> HIDE DEF b
<1>7. blk \in Listed(lists) /\ blk \in S /\ blk \notin T /\ blk.addr = b /\ blk.level = top
  BY <1>2, <1>5, <1>6 DEF Listed, BuddyBlock
<1>8. Aligned(blk) /\ After(blk) = b + B!BLOCKSIZE(top) /\ blk \in BuddyBlock
  BY <1>2, <1>7 DEF Halves, After
<1>9. \A j \in 0 .. MAX_EXP + 1 : B!BLOCKSIZE(j) \in Nat \ {0}
  BY SizesDouble
<1>10. ASSUME NEW j \in l .. top - 1
       PROVE  /\ j \in 0 .. MAX_EXP /\ B!GET_BUDDY(b, j) = b + B!BLOCKSIZE(j)
              /\ B!BLOCKSIZE(j) \in Nat \ {0} /\ B!BLOCKSIZE(j) < B!BLOCKSIZE(top)
  <2>1. /\ j \in 0 .. MAX_EXP /\ j \in 0 .. MAX_EXP + 1 /\ j + 1 \in 0 .. MAX_EXP + 1
        /\ top \in j + 1 .. MAX_EXP + 1 /\ top \in 0 .. MAX_EXP + 1 /\ j < top
    BY <1>1, <1>5
  <2>2. b % B!BLOCKSIZE(top) = 0
    BY <1>7, <1>8 DEF Aligned
  <2>3. PICK q \in Nat \ {0} : B!BLOCKSIZE(top) = q * B!BLOCKSIZE(j + 1)
    BY <2>1, SizesDivide
  <2>4. b % B!BLOCKSIZE(j + 1) = 0
    <3>1. ASSUME NEW s \in Nat \ {0}, b % (q * s) = 0
          PROVE  b % s = 0
      <4>1. q * s \in Nat \ {0}
        OBVIOUS
      <4> DEFINE m == q * s
      <4> HIDE DEF m
      <4>2. PICK h \in Nat : b = h * m
        <5>1. m \in Nat \ {0} /\ b % m = 0
          BY <3>1, <4>1 DEF m
        <5>2. QED
          BY <1>6, <5>1, Quotient
      <4>3. b = (h * q) * s /\ h * q \in Nat
        BY <4>2 DEF m
      <4>4. QED
        BY <1>6, <4>3, Multiple
    <3>2. QED
      BY <1>9, <2>1, <2>2, <2>3, <3>1
  <2>5. B!GET_BUDDY(b, j) = b + B!BLOCKSIZE(j)
    BY <1>6, <2>1, <2>4, HalfFacts
  <2>6. B!BLOCKSIZE(j) < B!BLOCKSIZE(top)
    BY <2>1, SizesGrow
  <2>7. QED
    BY <1>9, <2>1, <2>5, <2>6
<1>11. ASSUME NEW j \in 0 .. MAX_EXP
       PROVE  /\ new[j] \in Seq(Nat) /\ Once(new[j])
              /\ \A c : B!In(new[j], c) <=> \/ j \in l .. top - 1 /\ c = b + B!BLOCKSIZE(j)
                                            \/ B!In(lists[j], c) /\ ~(j = top /\ c = b)
  <2>1. lists[j] \in Seq(Nat) /\ Once(lists[j])
    BY <1>2
  <2>2. CASE j \in l .. top - 1
    <3>1. new[j] = <<b + B!BLOCKSIZE(j)>> \o lists[j] /\ lists[j] = <<>> /\ j # top
      BY <1>3, <1>4, <1>10, <2>2
    <3>2. b + B!BLOCKSIZE(j) \in Nat
      BY <1>6, <1>10, <2>2
    <3>3. ~B!In(lists[j], b + B!BLOCKSIZE(j))
      BY <3>1, NoneIn
    <3>4. QED
      BY <2>1, <2>2, <3>1, <3>2, <3>3, PushElements
  <2>3. CASE j = top
    <3>1. j \notin l .. top - 1 /\ new[j] = Tail(lists[top])
      BY <1>1, <1>4, <1>5, <2>3
    <3>2. QED
      BY <1>6, <2>3, <3>1
  <2>4. CASE j \notin l .. top - 1 /\ j # top
    <3>1. new[j] = lists[j]
      BY <1>4, <2>4
    <3>2. QED
      BY <2>1, <2>4, <3>1
  <2>5. QED
    BY <2>2, <2>3, <2>4
<1>12. ListsOK(new)
  <2>1. new \in [0 .. MAX_EXP -> Seq(Nat)]
    BY <1>4, <1>11
  <2>2. QED
    BY <1>11, <2>1 DEF ListsOK
<1>13. Listed(new) = (Listed(lists) \ {blk}) \cup Upper(b, l, top)
  <2>1. ASSUME NEW c \in Listed(new)
        PROVE  c \in (Listed(lists) \ {blk}) \cup Upper(b, l, top)
    <3>1. c \in BuddyBlock /\ B!In(new[c.level], c.addr) /\ c.level \in 0 .. MAX_EXP
          /\ c = [addr |-> c.addr, level |-> c.level]
      BY <2>1 DEF Listed, BuddyBlock
    <3>2. CASE c.level \in l .. top - 1 /\ c.addr = b + B!BLOCKSIZE(c.level)
      BY <3>1, <3>2 DEF Upper
    <3>3. CASE B!In(lists[c.level], c.addr) /\ ~(c.level = top /\ c.addr = b)
      BY <1>7, <3>1, <3>3 DEF Listed
    <3>4. QED
      BY <1>11, <3>1, <3>2, <3>3
  <2>2. ASSUME NEW c \in Listed(lists), c # blk
        PROVE  c \in Listed(new)
    <3>1. c \in BuddyBlock /\ B!In(lists[c.level], c.addr) /\ c.level \in 0 .. MAX_EXP
          /\ c = [addr |-> c.addr, level |-> c.level]
      BY <2>2 DEF Listed, BuddyBlock
    <3>2. ~(c.level = top /\ c.addr = b)
      BY <2>2, <3>1
    <3>3. QED
      BY <1>11, <3>1, <3>2 DEF Listed
  <2>3. ASSUME NEW k \in l .. top - 1
        PROVE  [addr |-> b + B!BLOCKSIZE(k), level |-> k] \in Listed(new)
    <3>1. k \in 0 .. MAX_EXP /\ b + B!BLOCKSIZE(k) \in Nat
      BY <1>6, <1>10
    <3>2. B!In(new[k], b + B!BLOCKSIZE(k))
      BY <1>11, <3>1
    <3>3. QED
      BY <3>1, <3>2 DEF Listed, BuddyBlock
  <2>4. QED
    BY <2>1, <2>2, <2>3 DEF Upper
<1>14. n \in BuddyBlock /\ n.addr = b /\ n.level = l
  BY <1>5, <1>6 DEF BuddyBlock
<1>15. n \notin S \ {blk}
  <2>1. SUFFICES ASSUME n \in S
                 PROVE  n = blk
    OBVIOUS
  <2>2. blk.addr <= n.addr /\ n.addr < After(blk)
    BY <1>6, <1>7, <1>8, <1>14, AfterFacts
  <2> HIDE DEF n, blk, S
  <2>3. QED
    BY <1>2, <1>7, <2>1, <2>2, AloneInside
<1>16. ASSUME NEW k \in l .. top - 1
       PROVE  /\ [addr |-> b + B!BLOCKSIZE(k), level |-> k] \notin S
              /\ [addr |-> b + B!BLOCKSIZE(k), level |-> k] # n
  <2> DEFINE u == [addr |-> b + B!BLOCKSIZE(k), level |-> k]
  <2>1. u.addr = b + B!BLOCKSIZE(k) /\ u.addr # b
    BY <1>6, <1>10
  <2>2. blk.addr <= u.addr /\ u.addr < After(blk)
    <3>1. top \in 0 .. MAX_EXP + 1 /\ B!BLOCKSIZE(top) \in Nat
      BY <1>1, <1>5, <1>9
    <3>2. QED
      BY <1>6, <1>7, <1>8, <1>10, <2>1, <3>1
  <2> HIDE DEF u, blk, S, n
  <2>3. ASSUME u \in S
        PROVE  FALSE
    <3>1. u = blk
      BY <1>2, <1>7, <2>2, <2>3, AloneInside
    <3>2. QED
      BY <1>7, <2>1, <3>1
  <2>4. QED
    BY <1>14, <2>1, <2>3 DEF u
<1>17. n \notin T /\ n \notin Listed(new) /\ Listed(new) \cap T = {}
  <2> DEFINE U == Upper(b, l, top)
  <2>1. \A u \in U : u \notin S /\ u # n
    BY <1>16 DEF Upper
  <2> HIDE DEF n, blk, U
  <2>2. QED
    BY <1>2, <1>7, <1>13, <1>15, <2>1 DEF U
<1>18. Halves(Listed(new) \cup (T \cup {n}))
  <2>1. Halves((S \ {blk}) \cup Upper(blk.addr, l, blk.level) \cup {[addr |-> blk.addr, level |-> l]})
    <3> HIDE DEF S, blk
    <3>1. l \in 0 .. blk.level
      BY <1>5, <1>7
    <3>2. QED
      BY <1>2, <1>7, <3>1, SplitDown
  <2>2. Halves((S \ {blk}) \cup Upper(b, l, top) \cup {n})
    BY <1>7, <2>1
  <2> HIDE DEF blk, n
  <2>3. (S \ {blk}) \cup Upper(b, l, top) \cup {n} = Listed(new) \cup (T \cup {n})
    BY <1>7, <1>13
  <2>4. QED
    BY <2>2, <2>3
<1>19. NoBuddies(new)
  <2>1. SUFFICES ASSUME NEW j \in 0 .. MAX_EXP, NEW c \in Nat, j < B!RootLevel, B!In(new[j], c),
                        B!In(new[j], B!GET_BUDDY(c, j))
                 PROVE  FALSE
    BY DEF NoBuddies
  <2>2. CASE j \in l .. top - 1
    <3>1. \A d : ~B!In(lists[j], d)
      BY <1>3, <2>2, NoneIn
    <3>2. c = b + B!BLOCKSIZE(j) /\ B!GET_BUDDY(c, j) = b + B!BLOCKSIZE(j)
      BY <1>11, <2>1, <3>1
    <3>3. QED
      BY <3>2, BuddyIsOther
  <2>3. CASE j \notin l .. top - 1
    <3>1. B!In(lists[j], c) /\ B!In(lists[j], B!GET_BUDDY(c, j))
      BY <1>11, <2>1, <2>3
    <3>2. QED
      BY <2>1, <3>1 DEF BuddyInv, NoBuddies
  <2>4. QED
    BY <2>2, <2>3
<1>20. BuddyInv(new, T \cup {n})
  BY <1>2, <1>12, <1>14, <1>17, <1>18, <1>19 DEF BuddyInv
<1>21. b # B!NoBlock
  BY <1>6 DEF B!NoBlock
<1>22. QED
  BY <1>4, <1>14, <1>17, <1>20, <1>21 DEF new

-----------------------------------------------------------------------------
(* memFreeRec(): where a block is when it has grown.                       *)

LEMMA BuddyNat ==
  ASSUME NEW x \in Nat, NEW j \in 0 .. MAX_EXP
  PROVE  B!GET_BUDDY(x, j) \in Nat /\ B!Lower(x, B!GET_BUDDY(x, j)) \in Nat
<1>1. PICK s \in Nat \ {0} : s = B!BLOCKSIZE(j)
  BY SizesDouble, BuddyConstants
<1>2. (x \div s) % 2 # 0 => x - s \in Nat
  <2>1. x < s => x \div s = 0
    OBVIOUS
  <2>2. QED
    BY <2>1
<1>3. B!GET_BUDDY(x, j) \in Nat
  BY <1>1, <1>2 DEF B!GET_BUDDY
<1>4. QED
  BY <1>3 DEF B!Lower

(* Where memFreeRec() is at each level.                                    *)
LEMMA GrownFacts ==
  ASSUME NEW l \in 0 .. MAX_EXP, NEW b \in Nat
  PROVE  /\ B!Grown(b, l)[l] = b
         /\ \A j \in l .. MAX_EXP :
              B!Grown(b, l)[j + 1] = B!Lower(B!Grown(b, l)[j], B!GET_BUDDY(B!Grown(b, l)[j], j))
<1> DEFINE dom == l .. MAX_EXP + 1
           next(x, j) == B!Lower(x, B!GET_BUDDY(x, j - 1))
           G == [p \in Int \X Nat |-> IF p[1] - 1 \in 0 .. MAX_EXP THEN next(p[2], p[1]) ELSE 0]
           at == B!Grown(b, l)
<1>1. MAX_EXP \in Nat /\ l \in Nat
  BY BuddyConstants
<1>2. G \in [Int \X Nat -> Nat]
  <2>1. SUFFICES ASSUME NEW p \in Int \X Nat
                 PROVE  (IF p[1] - 1 \in 0 .. MAX_EXP THEN next(p[2], p[1]) ELSE 0) \in Nat
    OBVIOUS
  <2>2. p[2] \in Nat
    OBVIOUS
  <2>3. QED
    BY <2>2, BuddyNat
<1>3. PICK f : Recursion(f, l, MAX_EXP + 1, b, G)
  <2> HIDE DEF G
  <2>1. l \in Int /\ MAX_EXP + 1 \in Int /\ l <= MAX_EXP + 1
    BY <1>1
  <2>2. QED
    BY <1>2, <2>1, RecursionExists
<1>4. f \in [dom -> Nat] /\ \A k \in dom : f[k] = IF k = l THEN b ELSE G[<<k, f[k - 1]>>]
  BY <1>3 DEF Recursion
<1>5. \A k \in dom : f[k] = IF k = l THEN b ELSE next(f[k - 1], k)
  <2>1. SUFFICES ASSUME NEW k \in dom, k # l
                 PROVE  f[k] = next(f[k - 1], k)
    BY <1>4
  <2>2. k - 1 \in dom /\ k \in Int /\ k - 1 \in 0 .. MAX_EXP
    BY <1>1, <2>1
  <2>3. f[k - 1] \in Nat
    BY <1>4, <2>2
  <2>4. <<k, f[k - 1]>> \in Int \X Nat
    BY <2>2, <2>3
  <2>5. G[<<k, f[k - 1]>>] = next(f[k - 1], k)
    <3> HIDE DEF next
    <3>1. QED
      BY <2>2, <2>4
  <2> HIDE DEF G, next
  <2>6. QED
    BY <1>4, <2>1, <2>5
<1> HIDE DEF G
<1>6. f = [k \in dom |-> IF k = l THEN b ELSE next(f[k - 1], k)]
  <2> HIDE DEF next
  <2>1. QED
    BY <1>4, <1>5
<1>7. at = [k \in dom |-> IF k = l THEN b ELSE next(at[k - 1], k)]
  BY <1>6 DEF B!Grown
<1> HIDE DEF at
<1>8. at[l] = b
  BY <1>1, <1>7
<1>9. ASSUME NEW j \in l .. MAX_EXP
      PROVE  at[j + 1] = B!Lower(at[j], B!GET_BUDDY(at[j], j))
  <2>1. j + 1 \in dom /\ j + 1 # l /\ (j + 1) - 1 = j
    BY <1>1
  <2>2. at[j + 1] = next(at[(j + 1) - 1], j + 1)
    <3> HIDE DEF next
    <3>1. QED
      BY <1>7, <2>1
  <2>3. QED
    BY <2>1, <2>2
<1>10. QED
  BY <1>8, <1>9 DEF at

(* memFreeRec(): the block that is freed grows for as long as its buddy is *)
(* in the lists, and the list of the level where it stops takes it.        *)
LEMMA FreeKeepsInv ==
  ASSUME NEW lists, NEW T, BuddyInv(lists, T), NEW blk \in T
  PROVE  BuddyInv(B!memFreeRec(lists, blk.addr, blk.level), T \ {blk})
<1> DEFINE l       == blk.level
           at      == B!Grown(blk.addr, blk.level)
           pair(j) == B!GET_BUDDY(at[j], j)
           half(j) == [addr |-> pair(j), level |-> j]
           S       == Listed(lists) \cup T
           n(j)    == [addr |-> at[j], level |-> j]
           Halved(j) == {half(k) : k \in l .. j - 1}
           R(j)    == S \ ({blk} \cup Halved(j))
           Joins(j) == \A k \in l .. j - 1 : B!In(lists[k], pair(k))
           Good(j) == at[j] \in Nat /\ n(j) \notin R(j) /\ Halves(R(j) \cup {n(j)})
           Stop    == {j \in l .. MAX_EXP : ~B!In(lists[j], pair(j))}
           top     == B!Min(Stop)
           new     == B!memFreeRec(lists, blk.addr, blk.level)
<1>1. /\ lists \in [0 .. MAX_EXP -> Seq(Nat)] /\ \A j \in 0 .. MAX_EXP : Once(lists[j])
      /\ T \subseteq BuddyBlock /\ Listed(lists) \cap T = {} /\ Halves(S)
  BY DEF BuddyInv, ListsOK
<1>2. /\ MAX_EXP \in Nat /\ l \in 0 .. MAX_EXP /\ l \in Nat /\ blk \in BuddyBlock
      /\ blk.addr \in Nat /\ blk = [addr |-> blk.addr, level |-> l] /\ blk \notin Listed(lists)
  BY <1>1, BuddyConstants DEF BuddyBlock
<1>3. /\ at[l] = blk.addr
      /\ \A j \in l .. MAX_EXP : at[j + 1] = B!Lower(at[j], pair(j))
  BY <1>2, GrownFacts
<1> HIDE DEF at
<1>4. \A j \in l .. MAX_EXP : at[j] \in Nat => pair(j) \in Nat /\ pair(j) # at[j]
  BY <1>2, BuddyNat, BuddyIsOther
<1>5. Good(l)
  <2>1. Halved(l) = {}
    BY <1>2
  <2>2. R(l) = S \ {blk} /\ n(l) = blk
    BY <1>2, <1>3, <2>1
  <2>3. R(l) \cup {n(l)} = S
    <3> HIDE DEF R, n
    <3>1. QED
      BY <2>2
  <2>4. QED
    <3> HIDE DEF R, n
    <3>1. QED
      BY <1>1, <1>2, <1>3, <2>2, <2>3
<1>6. ASSUME NEW j \in l .. MAX_EXP, Good(j), B!In(lists[j], pair(j))
      PROVE  /\ j < B!RootLevel /\ j + 1 \in l .. MAX_EXP /\ Good(j + 1)
  <2>1. j \in 0 .. MAX_EXP /\ at[j] \in Nat /\ pair(j) \in Nat /\ pair(j) # at[j]
    BY <1>2, <1>4, <1>6
  <2>2. half(j) \in Listed(lists)
    BY <1>6, <2>1 DEF Listed, BuddyBlock
  <2>3. half(j) \notin Halved(j) /\ half(j) # blk
    <3>1. \A k \in l .. j - 1 : k # j
      BY <1>2
    <3>2. \A k \in l .. j - 1 : half(k).level = k /\ half(j).level = j
      OBVIOUS
    <3>3. QED
      BY <1>2, <2>2, <3>1, <3>2
  <2>4. half(j) \in R(j) /\ half(j) # n(j)
    BY <2>1, <2>2, <2>3
  <2> DEFINE Q == R(j) \cup {n(j)}
             big == [addr |-> B!Lower(n(j).addr, half(j).addr), level |-> j + 1]
  <2>5. /\ j < B!RootLevel
        /\ Halves((Q \ {n(j), half(j)}) \cup {big})
        /\ big \notin Q \ {n(j), half(j)}
    <3>1. /\ n(j).level = j /\ half(j).level = j /\ n(j).addr = at[j] /\ half(j).addr = pair(j)
          /\ half(j).addr = B!GET_BUDDY(n(j).addr, j)
      OBVIOUS
    <3>2. n(j) \in Q /\ half(j) \in Q /\ Halves(Q)
      BY <1>6, <2>4
    <3> HIDE DEF Q, n, half
    <3>3. QED
      BY <2>1, <3>1, <3>2, JoinHalves
  <2>6. Halved(j + 1) = Halved(j) \cup {half(j)}
    <3>1. l .. (j + 1) - 1 = (l .. j - 1) \cup {j}
      BY <1>2
    <3>2. QED
      BY <3>1
  <2>7. Q \ {n(j), half(j)} = R(j + 1)
    <3> HIDE DEF Halved, half, n, S
    <3>1. QED
      BY <1>6, <2>4, <2>6
  <2>8. big = n(j + 1)
    BY <1>3
  <2>9. j + 1 \in 0 .. MAX_EXP /\ j + 1 \in l .. MAX_EXP
    BY <1>2, <2>1, <2>5, RootFacts
  <2>10. at[j + 1] \in Nat
    BY <1>3, <2>1, BuddyNat
  <2>11. Halves(R(j + 1) \cup {n(j + 1)}) /\ n(j + 1) \notin R(j + 1)
    <3> HIDE DEF Q, R, n, big
    <3>1. QED
      BY <2>5, <2>7, <2>8
  <2>12. QED
    BY <2>5, <2>9, <2>10, <2>11
<1> HIDE DEF Good, R
<1>7. ASSUME NEW j \in l .. MAX_EXP, Joins(j)
      PROVE  Good(j)
  <2> DEFINE Bad == {k \in l .. j : ~Good(k)}
  <2>1. SUFFICES ASSUME Bad # {}
                 PROVE  FALSE
    BY <1>2
  <2>2. PICK k \in Bad : \A m \in Bad : k <= m
    <3>1. Bad \subseteq Nat
      BY <1>2
    <3>2. QED
      BY <2>1, <3>1, LeastNumber
  <2>3. k # l
    BY <1>5
  <2>4. k - 1 \in l .. MAX_EXP /\ k - 1 \in l .. j - 1 /\ k - 1 \in l .. j /\ k - 1 \notin Bad
    BY <1>2, <2>2, <2>3
  <2>5. Good(k - 1) /\ B!In(lists[k - 1], pair(k - 1)) /\ (k - 1) + 1 = k
    BY <1>7, <2>4
  <2>6. Good((k - 1) + 1)
    <3> HIDE DEF pair
    <3>1. QED
      BY <1>6, <2>4, <2>5
  <2>7. QED
    BY <2>2, <2>5, <2>6
<1>8. top \in l .. MAX_EXP /\ ~B!In(lists[top], pair(top)) /\ Joins(top)
  <2>1. Stop # {}
    <3>1. SUFFICES ASSUME Stop = {}
                   PROVE  FALSE
      OBVIOUS
    <3>2. \A k \in l .. MAX_EXP : B!In(lists[k], pair(k))
      BY <3>1
    <3>3. MAX_EXP \in l .. MAX_EXP /\ Joins(MAX_EXP)
      BY <1>2, <3>2
    <3>4. MAX_EXP < B!RootLevel
      <4> HIDE DEF pair
      <4>1. QED
        BY <1>6, <1>7, <3>2, <3>3
    <3>5. QED
      BY <1>2, <3>4, RootFacts
  <2>2. PICK low \in Stop : \A m \in Stop : low <= m
    <3>1. Stop \subseteq Nat
      BY <1>2
    <3>2. QED
      BY <2>1, <3>1, LeastNumber
  <2>3. top \in Stop /\ \A m \in Stop : top <= m
    BY <2>2 DEF B!Min
  <2> HIDE DEF top, pair
  <2>4. ASSUME NEW k \in l .. top - 1
        PROVE  B!In(lists[k], pair(k))
    <3>1. k \in l .. MAX_EXP /\ ~(top <= k)
      BY <1>2, <2>3
    <3>2. QED
      BY <2>3, <3>1
  <2>5. QED
    BY <2>3, <2>4
<1>9. new = [j \in 0 .. MAX_EXP |->
               IF j \in l .. top - 1 THEN B!Without(lists[j], pair(j))
               ELSE IF j = top THEN <<at[j]>> \o lists[j]
               ELSE lists[j]]
  BY DEF B!memFreeRec, B!Level, at
<1> HIDE DEF top, new, Stop
<1>10. top \in 0 .. MAX_EXP /\ top \in Nat
  BY <1>2, <1>8
<1>11. at[top] \in Nat /\ n(top) \notin R(top) /\ Halves(R(top) \cup {n(top)})
  BY <1>7, <1>8 DEF Good
<1>12. ASSUME NEW k \in l .. top - 1
       PROVE  /\ k \in 0 .. MAX_EXP /\ k # top /\ B!In(lists[k], pair(k))
              /\ half(k) \in Listed(lists)
  <2>1. k \in 0 .. MAX_EXP /\ k # top
    BY <1>2, <1>8, <1>10
  <2>2. B!In(lists[k], pair(k))
    BY <1>8
  <2>3. pair(k) \in Nat
    <3> HIDE DEF pair
    <3>1. QED
      BY <1>1, <2>1, <2>2, InNat
  <2>4. half(k) \in BuddyBlock /\ half(k).addr = pair(k) /\ half(k).level = k
    BY <2>1, <2>3 DEF BuddyBlock
  <2>5. QED
    BY <2>1, <2>2, <2>4 DEF Listed
<1>13. n(top) \in BuddyBlock /\ n(top).addr = at[top] /\ n(top).level = top
  BY <1>10, <1>11 DEF BuddyBlock
<1>14. ~B!In(lists[top], at[top])
  <2>1. SUFFICES ASSUME B!In(lists[top], at[top])
                 PROVE  FALSE
    OBVIOUS
  <2>2. n(top) \in Listed(lists)
    BY <1>13, <2>1 DEF Listed
  <2>3. \A k \in l .. top - 1 : half(k) # n(top)
    <3>1. \A k \in l .. top - 1 : half(k).level = k
      OBVIOUS
    <3> HIDE DEF half
    <3>2. QED
      BY <1>12, <1>13, <3>1
  <2>4. n(top) # blk
    BY <1>2, <2>2
  <2>5. n(top) \in R(top)
    BY <2>2, <2>3, <2>4 DEF R
  <2>6. QED
    BY <1>11, <2>5
<1>15. ASSUME NEW j \in 0 .. MAX_EXP
       PROVE  /\ new[j] \in Seq(Nat) /\ Once(new[j])
              /\ \A c : B!In(new[j], c) <=> \/ j = top /\ c = at[top]
                                            \/ B!In(lists[j], c) /\ ~(j \in l .. top - 1 /\ c = pair(j))
  <2>1. lists[j] \in Seq(Nat) /\ Once(lists[j])
    BY <1>1
  <2>2. CASE j \in l .. top - 1
    <3>1. new[j] = B!Without(lists[j], pair(j)) /\ j # top /\ B!In(lists[j], pair(j))
      BY <1>9, <1>12, <2>2
    <3> HIDE DEF pair
    <3>2. QED
      BY <2>1, <2>2, <3>1, WithoutElements
  <2>3. CASE j = top
    <3>1. j \notin l .. top - 1 /\ new[j] = <<at[top]>> \o lists[j]
      BY <1>2, <1>9, <1>10, <2>3
    <3>2. QED
      BY <1>11, <1>14, <2>1, <2>3, <3>1, PushElements
  <2>4. CASE j \notin l .. top - 1 /\ j # top
    <3>1. new[j] = lists[j]
      BY <1>9, <2>4
    <3>2. QED
      BY <2>1, <2>4, <3>1
  <2>5. QED
    BY <2>2, <2>3, <2>4
<1>16. ListsOK(new)
  <2>1. new \in [0 .. MAX_EXP -> Seq(Nat)]
    BY <1>9, <1>15
  <2>2. QED
    BY <1>15, <2>1 DEF ListsOK
<1>17. Listed(new) = (Listed(lists) \ Halved(top)) \cup {n(top)}
  <2>1. ASSUME NEW c \in BuddyBlock
        PROVE  c \in Listed(new) <=> c = n(top) \/ (c \in Listed(lists) /\ c \notin Halved(top))
    <3>1. /\ c.level \in 0 .. MAX_EXP /\ c = [addr |-> c.addr, level |-> c.level]
      BY DEF BuddyBlock
    <3>2. c = n(top) <=> c.level = top /\ c.addr = at[top]
      BY <3>1
    <3>3. c \in Halved(top) <=> c.level \in l .. top - 1 /\ c.addr = pair(c.level)
      <4>1. ASSUME c \in Halved(top)
            PROVE  c.level \in l .. top - 1 /\ c.addr = pair(c.level)
        BY <4>1
      <4>2. ASSUME c.level \in l .. top - 1, c.addr = pair(c.level)
            PROVE  c \in Halved(top)
        <5>1. c = half(c.level)
          BY <3>1, <4>2
        <5>2. QED
          BY <4>2, <5>1
      <4>3. QED
        BY <4>1, <4>2
    <3>4. B!In(new[c.level], c.addr) <=>
            \/ c.level = top /\ c.addr = at[top]
            \/ B!In(lists[c.level], c.addr) /\ ~(c.level \in l .. top - 1 /\ c.addr = pair(c.level))
      BY <1>15, <3>1
    <3> HIDE DEF n, Halved, pair
    <3>5. QED
      BY <3>2, <3>3, <3>4 DEF Listed
  <2>2. n(top) \in BuddyBlock /\ Listed(new) \subseteq BuddyBlock /\ Listed(lists) \subseteq BuddyBlock
    BY <1>13 DEF Listed
  <2> HIDE DEF n, Halved
  <2>3. QED
    BY <2>1, <2>2
<1>18. Halved(top) \subseteq Listed(lists)
  BY <1>12
<1> HIDE DEF Halved, n
<1>19. R(top) = (Listed(lists) \ Halved(top)) \cup (T \ {blk})
  BY <1>1, <1>2, <1>18 DEF R
<1>20. Listed(new) \cap (T \ {blk}) = {}
  BY <1>1, <1>11, <1>17, <1>19
<1>21. Halves(Listed(new) \cup (T \ {blk}))
  <2>1. R(top) \cup {n(top)} = Listed(new) \cup (T \ {blk})
    BY <1>17, <1>19
  <2>2. QED
    BY <1>11, <2>1
<1>22. NoBuddies(new)
  <2>1. SUFFICES ASSUME NEW j \in 0 .. MAX_EXP, NEW c \in Nat, j < B!RootLevel, B!In(new[j], c),
                        B!In(new[j], B!GET_BUDDY(c, j))
                 PROVE  FALSE
    BY DEF NoBuddies
  <2>2. ~(B!In(lists[j], c) /\ B!In(lists[j], B!GET_BUDDY(c, j)))
    BY <2>1 DEF BuddyInv, NoBuddies
  <2>3. j = top
    BY <1>15, <2>1, <2>2
  <2>4. CASE c = at[top]
    <3>1. B!GET_BUDDY(c, j) # c
      BY BuddyIsOther
    <3>2. B!In(lists[top], pair(top))
      BY <1>15, <2>1, <2>3, <2>4, <3>1
    <3>3. QED
      BY <1>8, <3>2
  <2>5. CASE c # at[top]
    <3>1. B!In(lists[top], c) /\ B!GET_BUDDY(c, top) = at[top]
      BY <1>15, <2>1, <2>2, <2>3, <2>5
    <3> DEFINE d == [addr |-> c, level |-> top]
    <3>2. d \in Listed(lists) /\ d.addr = c /\ d.level = top
      BY <1>10, <3>1 DEF Listed, BuddyBlock
    <3> HIDE DEF d
    <3>3. c % B!BLOCKSIZE(top) = 0
      BY <1>1, <3>2 DEF Halves, Aligned
    <3>4. B!GET_BUDDY(at[top], top) = c
      BY <1>10, <3>1, <3>3, BuddyFacts
    <3>5. QED
      BY <1>8, <3>1, <3>4
  <2>6. QED
    BY <2>4, <2>5
<1>23. BuddyInv(new, T \ {blk})
  BY <1>1, <1>16, <1>20, <1>21, <1>22 DEF BuddyInv
<1>24. QED
  BY <1>23 DEF new

-----------------------------------------------------------------------------
(* The model's own names for the blocks of the lists, and the first state. *)

(* B!Spans is what the lists hold.                                         *)
LEMMA SpansListed ==
  ASSUME ListsOK(free_lists)
  PROVE  B!Spans = Listed(free_lists)
<1>1. \A j \in 0 .. MAX_EXP : free_lists[j] \in Seq(Nat)
  BY DEF ListsOK
<1>2. ASSUME NEW b \in B!Spans
      PROVE  b \in Listed(free_lists)
  <2>1. PICK j \in 0 .. MAX_EXP : \E k \in 1 .. Len(free_lists[j]) :
          b = [addr |-> free_lists[j][k], level |-> j]
    BY DEF B!Spans, B!Level
  <2>2. PICK k \in 1 .. Len(free_lists[j]) : b = [addr |-> free_lists[j][k], level |-> j]
    BY <2>1
  <2>3. free_lists[j][k] \in Nat
    BY <1>1, <2>1, <2>2, ElementOfSeq
  <2>4. b.addr = free_lists[j][k] /\ b.level = j /\ b \in BuddyBlock
    BY <2>1, <2>2, <2>3 DEF BuddyBlock
  <2>5. B!In(free_lists[b.level], b.addr)
    BY <2>2, <2>4 DEF B!In
  <2>6. QED
    BY <2>4, <2>5 DEF Listed
<1>3. ASSUME NEW b \in Listed(free_lists)
      PROVE  b \in B!Spans
  <2>1. /\ b.level \in 0 .. MAX_EXP /\ b = [addr |-> b.addr, level |-> b.level]
        /\ B!In(free_lists[b.level], b.addr)
    BY DEF Listed, BuddyBlock
  <2>2. PICK k \in 1 .. Len(free_lists[b.level]) : free_lists[b.level][k] = b.addr
    BY <2>1 DEF B!In
  <2>3. b = [addr |-> free_lists[b.level][k], level |-> b.level]
    BY <2>1, <2>2
  <2>4. QED
    BY <2>1, <2>2, <2>3 DEF B!Spans, B!Level
<1>4. QED
  BY <1>2, <1>3

(* memInit(): one free block, the root.                                    *)
LEMMA InitBuddies == B!memInit => BuddyInv(free_lists, taken)
<1> SUFFICES ASSUME B!memInit
             PROVE  BuddyInv(free_lists, taken)
  OBVIOUS
<1> DEFINE r == B!RootLevel
           w == [addr |-> 0, level |-> B!RootLevel]
<1>1. /\ free_lists = [j \in 0 .. MAX_EXP |-> IF j = r THEN <<0>> ELSE <<>>]
      /\ taken = {}
  BY DEF B!memInit, B!Level
<1>2. r \in 0 .. MAX_EXP /\ Root \in Nat \ {0}
  BY RootFacts, RootSize
<1>3. /\ <<0>> \in Seq(Nat) /\ <<>> \in Seq(Nat) /\ Once(<<0>>) /\ Once(<<>>)
      /\ \A c : B!In(<<0>>, c) <=> c = 0
  <2>1. <<0>> \in Seq(Nat) /\ <<>> \in Seq(Nat) /\ Len(<<0>>) = 1 /\ Len(<<>>) = 0 /\ <<0>>[1] = 0
    OBVIOUS
  <2>2. Once(<<0>>) /\ Once(<<>>)
    BY <2>1 DEF Once
  <2>3. \A c : B!In(<<0>>, c) <=> c = 0
    BY <2>1 DEF B!In
  <2>4. QED
    BY <2>1, <2>2, <2>3
<1> HIDE DEF r
<1>4. ListsOK(free_lists)
  BY <1>1, <1>3 DEF ListsOK
<1>5. w \in BuddyBlock /\ w.addr = 0 /\ w.level = r
  BY <1>2 DEF BuddyBlock, r
<1> HIDE DEF w
<1>6. Listed(free_lists) = {w}
  <2>1. ASSUME NEW b \in BuddyBlock
        PROVE  b \in Listed(free_lists) <=> b = w
    <3>1. b.level \in 0 .. MAX_EXP /\ b = [addr |-> b.addr, level |-> b.level]
          /\ w = [addr |-> 0, level |-> r]
      BY <1>5 DEF BuddyBlock, w, r
    <3>2. B!In(free_lists[b.level], b.addr) <=> b.level = r /\ b.addr = 0
      <4>1. CASE b.level = r
        BY <1>1, <1>3, <3>1, <4>1
      <4>2. CASE b.level # r
        BY <1>1, <3>1, <4>2, NoneIn
      <4>3. QED
        BY <4>1, <4>2
    <3>3. QED
      BY <3>1, <3>2 DEF Listed
  <2>2. Listed(free_lists) \subseteq BuddyBlock
    BY DEF Listed
  <2>3. QED
    BY <1>5, <2>1, <2>2
<1>7. Halves({w})
  <2>1. After(w) = Root
    BY <1>2, <1>5 DEF After, Root, r
  <2>2. Aligned(w)
    <3>1. 0 = 0 * Root
      BY <1>2
    <3>2. 0 % Root = 0
      BY <1>2, <3>1, Multiple
    <3>3. QED
      BY <1>5, <3>2 DEF Aligned, Root, r
  <2>3. QED
    BY <1>2, <1>5, <2>1, <2>2 DEF Halves
<1>8. NoBuddies(free_lists)
  <2>1. SUFFICES ASSUME NEW j \in 0 .. MAX_EXP, NEW c \in Nat, j < B!RootLevel, B!In(free_lists[j], c)
                 PROVE  FALSE
    BY DEF NoBuddies
  <2>2. j # r
    BY <1>2, <2>1 DEF r
  <2>3. free_lists[j] = <<>>
    BY <1>1, <2>2
  <2>4. QED
    BY <2>1, <2>3, NoneIn
<1>9. {w} \cup taken = {w} /\ {w} \cap taken = {} /\ taken \subseteq BuddyBlock
  BY <1>1
<1>10. QED
  BY <1>4, <1>6, <1>7, <1>8, <1>9 DEF BuddyInv

-----------------------------------------------------------------------------
LEMMA Compare ==
  ASSUME NEW p \in Nat, NEW q \in Nat, NEW s \in Nat \ {0}
  PROVE  /\ p * s < q * s => p < q
         /\ p <= q => p * s <= q * s
         /\ (p + 1) * s = p * s + s
OBVIOUS

(* The bounds of a block are multiples of the size of each level that is   *)
(* not above its own.                                                      *)
LEMMA Bounds ==
  ASSUME NEW b \in BuddyBlock, Aligned(b), NEW j \in 0 .. b.level
  PROVE  \E p, q \in Nat : b.addr = p * B!BLOCKSIZE(j) /\ After(b) = q * B!BLOCKSIZE(j)
<1>1. /\ MAX_EXP \in Nat /\ b.addr \in Nat /\ b.level \in 0 .. MAX_EXP
      /\ B!BLOCKSIZE(b.level) \in Nat \ {0}
  BY BuddyConstants, AfterFacts
<1>2. j \in 0 .. MAX_EXP + 1 /\ b.level \in j .. MAX_EXP + 1
  BY <1>1
<1>3. PICK s \in Nat \ {0} : s = B!BLOCKSIZE(j)
  BY <1>2, SizesDouble
<1>4. PICK m \in Nat \ {0} : B!BLOCKSIZE(b.level) = m * s
  BY <1>2, <1>3, SizesDivide
<1>5. PICK h \in Nat : b.addr = h * B!BLOCKSIZE(b.level)
  BY <1>1, Quotient DEF Aligned
<1>6. b.addr = (h * m) * s /\ After(b) = (h * m + m) * s
  <2>1. h * (m * s) = (h * m) * s /\ h * (m * s) + m * s = (h * m + m) * s
    OBVIOUS
  <2>2. QED
    BY <1>4, <1>5, <2>1 DEF After
<1>7. h * m \in Nat /\ h * m + m \in Nat
  OBVIOUS
<1>8. QED
  BY <1>3, <1>6, <1>7

(* When nothing is in use the root is whole: the smallest free block would *)
(* have a free buddy.                                                      *)
LEMMA AloneIsRoot ==
  ASSUME NEW lists, BuddyInv(lists, {})
  PROVE  Listed(lists) = {[addr |-> 0, level |-> B!RootLevel]}
<1> DEFINE S == Listed(lists)
<1>1. S \subseteq BuddyBlock /\ Halves(S) /\ NoBuddies(lists)
  <2>1. S = S \cup {}
    OBVIOUS
  <2>2. QED
    BY <2>1 DEF BuddyInv, Listed
<1>2. Root \in Nat \ {0} /\ B!RootLevel \in 0 .. MAX_EXP /\ MAX_EXP \in Nat
  BY RootSize, RootFacts, BuddyConstants
<1>3. PICK b \in S : \A c \in S : b.level <= c.level
  <2> DEFINE L == {c.level : c \in S}
  <2>1. PICK c \in S : c.addr <= 0
    <3>1. 0 \in 0 .. Root - 1
      BY <1>2
    <3>2. QED
      BY <1>1, <3>1 DEF Halves
  <2>2. \A d \in S : d.level \in Nat
    BY <1>1, <1>2 DEF BuddyBlock
  <2>3. L \subseteq Nat /\ L # {}
    BY <2>1, <2>2
  <2>4. PICK m \in L : \A k \in L : m <= k
    BY <2>3, LeastNumber
  <2>5. QED
    BY <2>4
<1> DEFINE j == b.level
<1>4. /\ b \in BuddyBlock /\ b.addr \in Nat /\ After(b) \in Nat /\ j \in 0 .. MAX_EXP
      /\ Aligned(b) /\ After(b) <= Root /\ B!In(lists[j], b.addr) /\ j \in 0 .. MAX_EXP + 1
  BY <1>1, AfterFacts DEF Halves, Listed
<1>5. ~(B!RootLevel < j)
  <2>1. B!BLOCKSIZE(j) <= Root /\ B!BLOCKSIZE(j) \in Nat
    BY <1>2, <1>4, SizesDouble DEF After
  <2>2. ~(Root < B!BLOCKSIZE(j))
    BY <1>2, <2>1
  <2>3. B!RootLevel \in 0 .. MAX_EXP + 1
    BY <1>2
  <2>4. QED
    BY <1>4, <2>2, <2>3, SizesGrow DEF Root
<1>6. ASSUME j < B!RootLevel
      PROVE  FALSE
  <2> DEFINE c   == B!GET_BUDDY(b.addr, j)
             low == B!Lower(b.addr, c)
  <2>1. PICK s \in Nat \ {0} : s = B!BLOCKSIZE(j) /\ B!BLOCKSIZE(j + 1) = 2 * s
    BY <1>4, SizesDouble
  <2>2. /\ c \in Nat /\ c % s = 0 /\ low \in Nat /\ low % (2 * s) = 0
        /\ \/ b.addr = low /\ c = low + s
           \/ c = low /\ b.addr = low + s
    BY <1>4, <2>1, BuddyFacts DEF Aligned
  <2>3. ~B!In(lists[j], c)
    BY <1>1, <1>4, <1>6 DEF NoBuddies
  <2> HIDE DEF low, c
  <2>4. After(b) = b.addr + s
    BY <2>1 DEF After
  <2> DEFINE s2 == 2 * s
  <2>5. s2 \in Nat \ {0} /\ s2 = B!BLOCKSIZE(j + 1) /\ low % s2 = 0
    BY <2>1, <2>2
  <2>6. j + 1 \in 0 .. MAX_EXP + 1 /\ j + 1 \in 0 .. MAX_EXP /\ B!RootLevel \in j + 1 .. MAX_EXP + 1
    BY <1>2, <1>4, <1>6
  <2>7. PICK p \in Nat : low = p * s2
    <3> HIDE DEF s2
    <3>1. QED
      BY <2>2, <2>5, Quotient
  <2>8. PICK q \in Nat \ {0} : Root = q * s2
    <3> HIDE DEF s2
    <3>1. QED
      BY <2>5, <2>6, SizesDivide DEF Root
  <2>9. low + s2 <= Root
    <3>1. low < Root
      BY <1>2, <1>4, <2>1, <2>2, <2>4
    <3> HIDE DEF s2
    <3>2. p < q /\ q \in Nat
      BY <2>5, <2>7, <2>8, <3>1, Compare
    <3>3. p + 1 <= q /\ p + 1 \in Nat
      BY <3>2
    <3>4. (p + 1) * s2 <= q * s2 /\ (p + 1) * s2 = p * s2 + s2
      BY <2>5, <3>2, <3>3, Compare
    <3>5. QED
      BY <2>7, <2>8, <3>4
  <2>10. c \in 0 .. Root - 1 /\ low <= c /\ c < low + s2
    BY <1>2, <2>1, <2>2, <2>9
  <2>11. PICK d \in S : d.addr <= c /\ c < After(d)
    BY <1>1, <2>10 DEF Halves
  <2>12. /\ d \in BuddyBlock /\ d.addr \in Nat /\ After(d) \in Nat /\ Aligned(d)
         /\ d.level \in 0 .. MAX_EXP /\ j <= d.level
    BY <1>1, <1>3, AfterFacts DEF Halves
  <2>13. d # b
    BY <1>4, <2>1, <2>2, <2>4, <2>11
  <2>14. Clear(b, d)
    BY <1>1, <2>13 DEF Halves
  <2>15. CASE d.level = j
    <3>1. After(d) = d.addr + s /\ d.addr % s = 0
      BY <2>1, <2>12, <2>15 DEF After, Aligned
    <3>2. PICK m \in Nat : d.addr = m * s
      BY <2>1, <2>12, <3>1, Quotient
    <3>3. PICK h \in Nat : c = h * s
      BY <2>1, <2>2, Quotient
    <3>4. h * s < (m + 1) * s /\ m + 1 \in Nat
      BY <2>1, <2>11, <3>1, <3>2, <3>3, Compare
    <3>5. h < m + 1
      BY <2>1, <3>4, Compare
    <3>6. ~(h < m)
      <4>1. SUFFICES ASSUME h < m
                     PROVE  FALSE
        OBVIOUS
      <4>2. h + 1 <= m /\ h + 1 \in Nat
        BY <4>1
      <4>3. (h + 1) * s <= m * s /\ (h + 1) * s = h * s + s
        BY <2>1, <4>2, Compare
      <4>4. QED
        BY <2>1, <2>2, <2>11, <2>12, <3>2, <3>3, <4>3
    <3>7. d.addr = c
      BY <3>2, <3>3, <3>5, <3>6
    <3>8. B!In(lists[j], c)
      BY <2>15, <3>7 DEF Listed
    <3>9. QED
      BY <2>3, <3>8
  <2>16. CASE d.level # j
    <3>1. j + 1 \in 0 .. d.level
      BY <1>4, <2>12, <2>16
    <3>2. PICK m \in Nat, h \in Nat : d.addr = m * s2 /\ After(d) = h * s2
      <4> HIDE DEF s2
      <4>1. QED
        BY <2>5, <2>12, <3>1, Bounds
    <3> HIDE DEF s2
    <3>3. m * s2 < (p + 1) * s2 /\ p * s2 < h * s2 /\ p + 1 \in Nat
      <4>1. (p + 1) * s2 = p * s2 + s2
        BY <2>5, Compare
      <4>2. d.addr < low + s2 /\ low < After(d)
        BY <2>2, <2>5, <2>10, <2>11, <2>12
      <4>3. QED
        BY <2>7, <3>2, <4>1, <4>2
    <3>4. m < p + 1 /\ p < h
      BY <2>5, <3>3, Compare
    <3>5. m <= p /\ p + 1 <= h
      BY <3>4
    <3>6. m * s2 <= p * s2 /\ (p + 1) * s2 <= h * s2 /\ (p + 1) * s2 = p * s2 + s2
      BY <2>5, <3>3, <3>5, Compare
    <3>7. d.addr <= low /\ low + s2 <= After(d)
      BY <2>7, <3>2, <3>6
    <3>8. After(b) <= low + s2 /\ low <= b.addr /\ b.addr < After(b)
      BY <2>1, <2>2, <2>4 DEF s2
    <3>9. QED
      BY <1>4, <2>2, <2>5, <2>12, <2>14, <3>7, <3>8 DEF Clear
  <2>17. QED
    BY <2>15, <2>16
<1>7. j = B!RootLevel
  BY <1>2, <1>4, <1>5, <1>6
<1>8. b.addr = 0 /\ After(b) = Root /\ b = [addr |-> 0, level |-> B!RootLevel]
  <2>1. After(b) = b.addr + Root
    BY <1>7 DEF After, Root
  <2>2. b.addr = 0
    BY <1>2, <1>4, <2>1
  <2>3. b = [addr |-> b.addr, level |-> b.level]
    BY <1>4 DEF BuddyBlock
  <2>4. QED
    BY <1>2, <1>7, <2>1, <2>2, <2>3
<1>9. ASSUME NEW d \in S
      PROVE  d = b
  <2>1. d.addr \in Nat /\ After(d) \in Nat /\ d.addr < After(d) /\ After(d) <= Root
    BY <1>1, AfterFacts DEF Halves
  <2>2. b.addr <= d.addr /\ d.addr < After(b)
    BY <1>2, <1>8, <2>1
  <2> HIDE DEF S
  <2>3. QED
    BY <1>1, <2>2, AloneInside
<1>10. QED
  BY <1>8, <1>9

-----------------------------------------------------------------------------
(* From the invariant to what the run checks.                              *)

LEMMA RootList ==
  ASSUME NEW lists, BuddyInv(lists, {}), NEW j \in 0 .. MAX_EXP
  PROVE  lists[j] = IF j = B!RootLevel THEN <<0>> ELSE <<>>
<1> DEFINE s == lists[j]
           w == [addr |-> 0, level |-> B!RootLevel]
<1>1. s \in Seq(Nat) /\ Once(s) /\ Len(s) \in Nat
  BY LenProperties DEF BuddyInv, ListsOK
<1>2. Listed(lists) = {w}
  BY AloneIsRoot
<1>3. ASSUME NEW c \in Nat, B!In(s, c)
      PROVE  j = B!RootLevel /\ c = 0
  <2>1. [addr |-> c, level |-> j] \in Listed(lists)
    BY <1>3 DEF Listed, BuddyBlock
  <2>2. QED
    BY <1>2, <2>1
<1>4. \A k \in 1 .. Len(s) : s[k] \in Nat /\ B!In(s, s[k])
  BY <1>1, ElementOfSeq DEF B!In
<1>5. CASE j = B!RootLevel
  <2>1. B!In(s, 0)
    <3>1. w \in Listed(lists)
      BY <1>2
    <3>2. QED
      BY <1>5, <3>1 DEF Listed
  <2>2. PICK at \in 1 .. Len(s) : s[at] = 0
    BY <2>1 DEF B!In
  <2>3. \A m \in 1 .. Len(s) : s[m] = 0
    BY <1>3, <1>4
  <2>4. Len(s) = 1
    <3>1. SUFFICES ASSUME Len(s) # 1
                   PROVE  FALSE
      OBVIOUS
    <3>2. 1 \in 1 .. Len(s) /\ 2 \in 1 .. Len(s)
      <4> HIDE DEF s
      <4>1. Len(s) \in Nat /\ at \in 1 .. Len(s) /\ Len(s) # 1
        BY <1>1, <2>2, <3>1
      <4>2. ASSUME NEW n \in Nat, NEW m \in 1 .. n, n # 1
            PROVE  1 \in 1 .. n /\ 2 \in 1 .. n
        <5>1. 1 <= m /\ m <= n
          OBVIOUS
        <5>2. n >= 2
          BY <4>2, <5>1
        <5>3. QED
          BY <5>2
      <4>3. QED
        BY <4>1, <4>2
    <3>3. s[1] = s[2]
      BY <2>3, <3>2
    <3>4. QED
      BY <1>1, <3>2, <3>3 DEF Once
  <2>5. s[1] = 0
    BY <2>3, <2>4
  <2> HIDE DEF s
  <2>6. s = <<0>>
    <3>1. <<0>> \in Seq(Nat) /\ Len(<<0>>) = 1 /\ <<0>>[1] = 0
      OBVIOUS
    <3>2. \A k \in 1 .. Len(s) : s[k] = <<0>>[k]
      BY <2>4, <2>5, <3>1
    <3>3. QED
      BY <1>1, <2>4, <3>1, <3>2, SeqEqual
  <2>7. QED
    BY <1>5, <2>6 DEF s
<1>6. CASE j # B!RootLevel
  <2>1. Len(s) = 0
    <3>1. SUFFICES ASSUME Len(s) # 0
                   PROVE  FALSE
      OBVIOUS
    <3>2. 1 \in 1 .. Len(s)
      BY <1>1, <3>1
    <3>3. QED
      BY <1>3, <1>4, <1>6, <3>2
  <2>2. s = <<>>
    BY <1>1, <2>1, EmptySeq
  <2>3. QED
    BY <1>6, <2>2
<1>7. QED
  BY <1>5, <1>6

LEMMA BuddyInvTiles ==
  ASSUME BuddyInv(free_lists, taken)
  PROVE  BuddiesTile
<1> DEFINE S == Listed(free_lists) \cup taken
<1>1. /\ B!Spans = Listed(free_lists) /\ ListsOK(free_lists) /\ Halves(S)
      /\ S \subseteq BuddyBlock /\ Listed(free_lists) \cap taken = {}
  BY SpansListed DEF BuddyInv, Halves
<1>2. Root \in Nat \ {0}
  BY RootSize
<1>3. \A b \in S : After(b) = b.addr + B!BLOCKSIZE(b.level)
  BY DEF After
<1>4. \A b \in S : b.addr % B!BLOCKSIZE(b.level) = 0
  BY <1>1 DEF Halves, Aligned
<1>5. \A b, c \in S : b # c => After(b) <= c.addr \/ After(c) <= b.addr
  BY <1>1 DEF Halves, Clear
<1>6. \A j \in B!Level : B!IsInjective(free_lists[j])
  <2>1. SUFFICES ASSUME NEW j \in 0 .. MAX_EXP
                 PROVE  B!IsInjective(free_lists[j])
    BY DEF B!Level
  <2> DEFINE s == free_lists[j]
  <2>2. s \in Seq(Nat) /\ Once(s)
    BY <1>1 DEF ListsOK
  <2>3. DOMAIN s = 1 .. Len(s)
    BY <2>2
  <2> HIDE DEF s
  <2>4. \A k, m \in DOMAIN s : s[k] = s[m] => k = m
    BY <2>2, <2>3 DEF Once
  <2>5. QED
    BY <2>4 DEF B!IsInjective, s
<1>7. \E b \in S : b.addr = 0
  <2>1. PICK b \in S : b.addr <= 0
    <3>1. 0 \in 0 .. Root - 1
      BY <1>2
    <3>2. QED
      BY <1>1, <3>1 DEF Halves
  <2>2. b.addr = 0
    BY <1>1, <2>1, AfterFacts
  <2>3. QED
    BY <2>2
<1>8. ASSUME NEW b \in S, After(b) # Root
      PROVE  \E c \in S : c.addr = After(b)
  <2>1. /\ After(b) \in Nat /\ After(b) <= Root /\ b.addr \in Nat /\ b.addr < After(b)
    BY <1>1, AfterFacts DEF Halves
  <2>2. After(b) \in 0 .. Root - 1
    BY <1>2, <1>8, <2>1
  <2>3. PICK c \in S : c.addr <= After(b) /\ After(b) < After(c)
    BY <1>1, <2>2 DEF Halves
  <2>4. c.addr \in Nat /\ After(c) \in Nat
    BY <1>1, AfterFacts
  <2>5. c # b
    BY <2>1, <2>3
  <2>6. After(b) <= c.addr \/ After(c) <= b.addr
    BY <1>5, <2>5
  <2>7. c.addr = After(b)
    BY <2>1, <2>3, <2>4, <2>6
  <2>8. QED
    BY <2>7
<1>9. B!Halved
  <2>1. S = B!Spans \cup taken
    BY <1>1
  <2> HIDE DEF S
  <2>2. \A b \in S : \/ b.addr + B!BLOCKSIZE(b.level) = B!BLOCKSIZE(B!RootLevel)
                     \/ \E c \in S : c.addr = b.addr + B!BLOCKSIZE(b.level)
    BY <1>3, <1>8 DEF Root
  <2>3. \A b, c \in S : b # c => \/ b.addr + B!BLOCKSIZE(b.level) <= c.addr
                                 \/ c.addr + B!BLOCKSIZE(c.level) <= b.addr
    BY <1>3, <1>5
  <2>4. B!Spans \cap taken = {}
    BY <1>1
  <2>5. QED
    BY <1>4, <1>6, <1>7, <2>1, <2>2, <2>3, <2>4 DEF B!Halved
<1>10. ASSUME NEW j \in B!Level, NEW b \in {s \in B!Spans : s.level = j}, j < B!RootLevel
       PROVE  ~B!In(free_lists[j], B!GET_BUDDY(b.addr, j))
  <2>1. b \in Listed(free_lists) /\ b.level = j /\ j \in 0 .. MAX_EXP
    BY <1>1 DEF B!Level
  <2>2. b.addr \in Nat /\ B!In(free_lists[j], b.addr)
    BY <2>1, AfterFacts DEF Listed
  <2>3. QED
    BY <1>10, <2>1, <2>2 DEF BuddyInv, NoBuddies
<1>11. taken = {} => \A j \in B!Level : free_lists[j] = IF j = B!RootLevel THEN <<0>> ELSE <<>>
  BY RootList DEF B!Level
<1>12. B!Joined
  BY <1>10, <1>11 DEF B!Joined
<1>13. QED
  BY <1>9, <1>12 DEF BuddiesTile

-----------------------------------------------------------------------------
(* The tests: who holds which block.                                       *)

(* What a caller may write into: the room behind each header.              *)
Rooms ==
  IF manager = "free list"
  THEN {[address |-> b.addr + Header, size |-> b.size] : b \in allocated_list}
  ELSE {[address |-> Start + b.addr + BuddyHeader,
         size |-> B!BLOCKSIZE(b.level) - BuddyHeader] : b \in taken}

(* The slots of a test that have a block, not a refusal.                  *)
Real(t) == {k \in 1 .. Len(mm_rqs[t]) : mm_rqs[t][k].address # Refused}

(* A block lies in a room.                                                 *)
Roomy(b) == \E r \in Rooms : r.address = b.address /\ b.size <= r.size

(* Who holds what: a block that was given has a room, and nobody else has  *)
(* a block at its address.                                                 *)
Holding ==
  /\ \A t \in Tests : \A k \in Real(t) : Roomy(mm_rqs[t][k])
  /\ \A b \in leaked : b.address # Refused => Roomy(b)
  /\ \A t, u \in Tests : \A k \in Real(t), m \in Real(u) :
       mm_rqs[t][k].address = mm_rqs[u][m].address => t = u /\ k = m
  /\ \A t \in Tests : \A k \in Real(t) : \A b \in leaked : mm_rqs[t][k].address # b.address
  /\ \A b, c \in leaked : b.address # Refused /\ b.address = c.address => b = c

(* Where each test is: how many blocks it has, which one it is at, and     *)
(* which ones have their pattern.                                          *)
Phase(t) ==
  /\ pc[t] \notin {"request", "wrecked"} => Len(mm_rqs[t]) >= 1
  /\ Len(mm_rqs[t]) <= MAX_BLOCKS
  /\ IF pc[t] \in {"set", "check"} THEN i[t] \in 1 .. Len(mm_rqs[t])
     ELSE pc[t] \notin {"error", "wrecked"} => i[t] = 1
  /\ \A k \in 1 .. Len(mm_rqs[t]) : mm_rqs[t][k].size \in 1 .. MaxMemory
  /\ pc[t] = "set" => \A k \in Real(t) : k < i[t] => k \in intact[t]
  /\ pc[t] = "check" => Real(t) \subseteq intact[t]
  /\ pc[t] = "error" => Real(t) # 1 .. Len(mm_rqs[t])

Phases == \A t \in Tests : Phase(t)

(* What always holds of the two allocators.                                *)
HeapInv ==
  /\ FreeListTypeOK /\ HeapTiled /\ Gaps(free_list)
  /\ BuddyInv(free_lists, taken)

(* Two stretches of bytes do not meet.                                     *)
Outside(b, c) == b.address + b.size <= c.address \/ c.address + c.size <= b.address

(* The blocks of freeList.c in use, with their headers.                    *)
LEMMA FreeListRooms ==
  ASSUME FreeListTypeOK, HeapTiled, NEW b \in allocated_list
  PROVE  /\ b.addr \in Nat /\ b.size \in Nat /\ Start <= b.addr
         /\ b.addr + Header + b.size <= Start + Total
         /\ \A c \in Blocks : /\ c.addr \in Nat
                              /\ c # b => \/ b.addr + Header + b.size <= c.addr
                                          \/ c.addr + Header <= b.addr
         /\ \A c \in allocated_list : c # b => \/ b.addr + Header + b.size <= c.addr
                                               \/ c.addr + Header + c.size <= b.addr
<1>1. /\ Blocks \subseteq Block /\ b \in Blocks /\ allocated_list \subseteq Blocks
      /\ InHeap(b) /\ \A c \in Blocks : c # b => Apart(b, c)
  <2>1. free_list \in Seq(Block) /\ allocated_list \subseteq Block
    BY DEF FreeListTypeOK
  <2>2. InList(free_list) \subseteq Block
    BY <2>1, ListFacts
  <2>3. QED
    BY <2>1, <2>2 DEF HeapTiled, Tiled, Blocks
<1>2. \A c \in Blocks : c.addr \in Nat /\ c.size \in Nat
  BY <1>1, EndAfter
<1>3. Start \in Nat /\ Total \in Nat /\ Header \in Nat
  BY FreeListAssumption
<1>4. \A c \in Blocks : c # b => \/ b.addr + Header + b.size <= c.addr
                                 \/ c.addr + Header + c.size <= b.addr
  BY <1>1 DEF Apart, End
<1>5. \A c \in Blocks : c # b => \/ b.addr + Header + b.size <= c.addr
                                 \/ c.addr + Header <= b.addr
  BY <1>1, <1>2, <1>3, <1>4
<1>6. QED
  BY <1>1, <1>2, <1>4, <1>5 DEF InHeap, End

(* Those of buddy.c.                                                       *)
LEMMA BuddyRooms ==
  ASSUME BuddyInv(free_lists, taken), NEW b \in taken
  PROVE  /\ b.addr \in Nat /\ B!BLOCKSIZE(b.level) \in Nat /\ BuddyHeader < B!BLOCKSIZE(b.level)
         /\ b.addr + B!BLOCKSIZE(b.level) <= Total
         /\ \A c \in B!Spans \cup taken :
              /\ c.addr \in Nat
              /\ c # b => \/ b.addr + B!BLOCKSIZE(b.level) <= c.addr
                          \/ c.addr + BuddyHeader <= b.addr
         /\ \A c \in taken : c # b => \/ b.addr + B!BLOCKSIZE(b.level) <= c.addr
                                      \/ c.addr + B!BLOCKSIZE(c.level) <= b.addr
<1> DEFINE S == Listed(free_lists) \cup taken
<1>1. B!Spans \cup taken = S /\ Halves(S) /\ b \in S /\ S \subseteq BuddyBlock
  BY SpansListed DEF BuddyInv, Halves
<1>2. ASSUME NEW c \in S
      PROVE  /\ c.addr \in Nat /\ B!BLOCKSIZE(c.level) \in Nat
             /\ BuddyHeader < B!BLOCKSIZE(c.level) /\ c.addr + B!BLOCKSIZE(c.level) <= Root
  <2>1. /\ c.addr \in Nat /\ c.level \in 0 .. MAX_EXP + 1 /\ B!BLOCKSIZE(c.level) \in Nat
        /\ After(c) <= Root
    BY <1>1, AfterFacts DEF Halves
  <2>2. 0 \in 0 .. MAX_EXP + 1 /\ B!BLOCKSIZE(0) = BuddyMin
    BY BuddyConstants, SizesDouble
  <2>3. ~(B!BLOCKSIZE(c.level) < B!BLOCKSIZE(0))
    <3>1. ~(c.level < 0)
      BY <2>1, BuddyConstants
    <3>2. QED
      BY <2>1, <2>2, <3>1, SizesGrow
  <2>4. BuddyHeader < B!BLOCKSIZE(c.level)
    BY <2>1, <2>2, <2>3, BuddyConstants
  <2>5. QED
    BY <2>1, <2>4 DEF After
<1>3. Root <= Total /\ Root \in Nat /\ Total \in Nat /\ BuddyHeader \in Nat
  BY RootFacts, RootSize, FreeListAssumption, BuddyConstants DEF Root
<1>4. \A c \in S : c # b => \/ b.addr + B!BLOCKSIZE(b.level) <= c.addr
                            \/ c.addr + B!BLOCKSIZE(c.level) <= b.addr
  BY <1>1 DEF Halves, Clear, After
<1>5. \A c \in S : c # b => \/ b.addr + B!BLOCKSIZE(b.level) <= c.addr
                            \/ c.addr + BuddyHeader <= b.addr
  <2>1. SUFFICES ASSUME NEW c \in S, c # b
                 PROVE  \/ b.addr + B!BLOCKSIZE(b.level) <= c.addr
                        \/ c.addr + BuddyHeader <= b.addr
    OBVIOUS
  <2>2. \/ b.addr + B!BLOCKSIZE(b.level) <= c.addr
        \/ c.addr + B!BLOCKSIZE(c.level) <= b.addr
    BY <1>4, <2>1
  <2>3. /\ c.addr \in Nat /\ B!BLOCKSIZE(c.level) \in Nat /\ BuddyHeader < B!BLOCKSIZE(c.level)
        /\ b.addr \in Nat
    BY <1>1, <1>2
  <2>4. QED
    BY <1>3, <2>2, <2>3
<1>6. /\ b.addr \in Nat /\ B!BLOCKSIZE(b.level) \in Nat /\ BuddyHeader < B!BLOCKSIZE(b.level)
      /\ b.addr + B!BLOCKSIZE(b.level) <= Total
  <2>1. /\ b.addr \in Nat /\ B!BLOCKSIZE(b.level) \in Nat /\ BuddyHeader < B!BLOCKSIZE(b.level)
        /\ b.addr + B!BLOCKSIZE(b.level) <= Root
    BY <1>1, <1>2
  <2>2. QED
    BY <1>3, <2>1
<1> HIDE DEF S
<1>7. \A c \in B!Spans \cup taken :
        /\ c.addr \in Nat
        /\ c # b => \/ b.addr + B!BLOCKSIZE(b.level) <= c.addr
                    \/ c.addr + BuddyHeader <= b.addr
  BY <1>1, <1>2, <1>5
<1>8. \A c \in taken : c # b => \/ b.addr + B!BLOCKSIZE(b.level) <= c.addr
                                \/ c.addr + B!BLOCKSIZE(c.level) <= b.addr
  BY <1>4 DEF S
<1>9. QED
  BY <1>6, <1>7, <1>8

(* With either manager the rooms are inside of the heap, apart from each   *)
(* other and from all headers.                                             *)
LEMMA RoomFacts ==
  ASSUME HeapInv, manager \in Managers, NEW r \in Rooms
  PROVE  /\ r.address \in Nat /\ r.size \in Nat /\ Start <= r.address
         /\ r.address + r.size <= Start + Total
         /\ r.address # Refused /\ r.address # NULL
         /\ \A q \in Rooms : q # r => Outside(q, r) /\ q.address # r.address
         /\ \A h \in Headers : Outside(h, r)
<1>1. /\ Start \in Nat /\ Total \in Nat /\ Header \in Nat \ {0} /\ Header < Start
      /\ BuddyHeader \in Nat /\ Refused = Header /\ NULL = 0
  BY FreeListAssumption, BuddyConstants DEF Refused, NULL
<1>2. CASE manager = "free list"
  <2>1. PICK b \in allocated_list : r = [address |-> b.addr + Header, size |-> b.size]
    BY <1>2 DEF Rooms
  <2>2. /\ b.addr \in Nat /\ b.size \in Nat /\ Start <= b.addr
        /\ b.addr + Header + b.size <= Start + Total
        /\ \A c \in Blocks : /\ c.addr \in Nat
                             /\ c # b => \/ b.addr + Header + b.size <= c.addr
                                         \/ c.addr + Header <= b.addr
        /\ \A c \in allocated_list : c # b => \/ b.addr + Header + b.size <= c.addr
                                              \/ c.addr + Header + c.size <= b.addr
    BY FreeListRooms DEF HeapInv
  <2>3. r.address = b.addr + Header /\ r.size = b.size
    BY <2>1
  <2>4. ASSUME NEW q \in Rooms, q # r
        PROVE  Outside(q, r) /\ q.address # r.address
    <3>1. PICK c \in allocated_list : q = [address |-> c.addr + Header, size |-> c.size]
      BY <1>2 DEF Rooms
    <3>2. c # b /\ q.address = c.addr + Header /\ q.size = c.size
      BY <2>1, <2>4, <3>1
    <3>3. c.addr \in Nat /\ c.size \in Nat
      BY FreeListRooms DEF HeapInv
    <3>4. \/ b.addr + Header + b.size <= c.addr
          \/ c.addr + Header + c.size <= b.addr
      BY <2>2, <3>2
    <3>5. QED
      BY <1>1, <2>2, <2>3, <3>2, <3>3, <3>4 DEF Outside
  <2>5. ASSUME NEW h \in Headers
        PROVE  Outside(h, r)
    <3>1. PICK c \in Blocks : h = [address |-> c.addr, size |-> Header]
      BY <1>2 DEF Headers
    <3>2. h.address = c.addr /\ h.size = Header /\ c.addr \in Nat
      BY <2>2, <3>1
    <3>3. CASE c = b
      BY <1>1, <2>2, <2>3, <3>2, <3>3 DEF Outside
    <3>4. CASE c # b
      <4>1. \/ b.addr + Header + b.size <= c.addr
            \/ c.addr + Header <= b.addr
        BY <2>2, <3>4
      <4>2. QED
        BY <1>1, <2>2, <2>3, <3>2, <4>1 DEF Outside
    <3>5. QED
      BY <3>3, <3>4
  <2>6. QED
    BY <1>1, <2>2, <2>3, <2>4, <2>5
<1>3. CASE manager = "buddy"
  <2> DEFINE size(c) == B!BLOCKSIZE(c.level)
  <2>1. PICK b \in taken : r = [address |-> Start + b.addr + BuddyHeader,
                                size |-> size(b) - BuddyHeader]
    BY <1>3 DEF Rooms
  <2>2. /\ b.addr \in Nat /\ size(b) \in Nat /\ BuddyHeader < size(b)
        /\ b.addr + size(b) <= Total
        /\ \A c \in B!Spans \cup taken :
             /\ c.addr \in Nat
             /\ c # b => b.addr + size(b) <= c.addr \/ c.addr + BuddyHeader <= b.addr
        /\ \A c \in taken : c # b => b.addr + size(b) <= c.addr \/ c.addr + size(c) <= b.addr
    BY BuddyRooms DEF HeapInv
  <2>3. r.address = Start + b.addr + BuddyHeader /\ r.size = size(b) - BuddyHeader
    BY <2>1
  <2>4. ASSUME NEW q \in Rooms, q # r
        PROVE  Outside(q, r) /\ q.address # r.address
    <3>1. PICK c \in taken : q = [address |-> Start + c.addr + BuddyHeader,
                                  size |-> size(c) - BuddyHeader]
      BY <1>3 DEF Rooms
    <3>2. c # b /\ q.address = Start + c.addr + BuddyHeader /\ q.size = size(c) - BuddyHeader
      BY <2>1, <2>4, <3>1
    <3>3. c.addr \in Nat /\ size(c) \in Nat /\ BuddyHeader < size(c)
      BY BuddyRooms DEF HeapInv
    <3>4. b.addr + size(b) <= c.addr \/ c.addr + size(c) <= b.addr
      BY <2>2, <3>2
    <3> HIDE DEF size
    <3>5. QED
      BY <1>1, <2>2, <2>3, <3>2, <3>3, <3>4 DEF Outside
  <2>5. ASSUME NEW h \in Headers
        PROVE  Outside(h, r)
    <3>1. PICK c \in B!Spans \cup taken : h = [address |-> Start + c.addr, size |-> BuddyHeader]
      BY <1>3 DEF Headers
    <3>2. h.address = Start + c.addr /\ h.size = BuddyHeader /\ c.addr \in Nat
      BY <2>2, <3>1
    <3> HIDE DEF size
    <3>3. CASE c = b
      BY <1>1, <2>2, <2>3, <3>2, <3>3 DEF Outside
    <3>4. CASE c # b
      <4>1. b.addr + size(b) <= c.addr \/ c.addr + BuddyHeader <= b.addr
        BY <2>2, <3>4
      <4>2. QED
        BY <1>1, <2>2, <2>3, <3>2, <4>1 DEF Outside
    <3>5. QED
      BY <3>3, <3>4
  <2> HIDE DEF size
  <2>6. QED
    BY <1>1, <2>2, <2>3, <2>4, <2>5
<1>4. QED
  BY <1>2, <1>3, TestMMAssumption

-----------------------------------------------------------------------------
(* A system call of a test, with either manager.                           *)

(* What a request does to the rooms, with either manager: nothing, and it  *)
(* answers NULL or NULL and a header, or it adds one at the address that   *)
(* it answers, with as many bytes as were asked for.                       *)
Refuses(n) == Address(n) \in {NULL, Refused} /\ Rooms' = Rooms

Gives(n) ==
  \E r : /\ r \notin Rooms /\ Rooms' = Rooms \cup {r}
         /\ r.address = Address(n) /\ n <= r.size

(* Which manager it is.                                                    *)
WithFreeList == manager = "free list"

WithBuddy == manager = "buddy"

(* The arithmetic of the constants, once.                                  *)
LEMMA HeaderFacts ==
  /\ Header \in Nat \ {0} /\ Start \in Nat \ {0} /\ Total \in Nat /\ Header < Start
  /\ BuddyHeader \in Nat /\ NULL = 0 /\ Refused = Header /\ NULL + Header = Header
  /\ \A n \in Request : n \in Nat
<1>1. /\ Header \in Nat \ {0} /\ Start \in Nat /\ Header < Start
      /\ Total \in Nat /\ Request \subseteq Nat
  BY FreeListAssumption
<1>2. BuddyHeader \in Nat
  BY BuddyConstants
<1>3. QED
  BY <1>1, <1>2 DEF Refused, NULL

LEMMA MallocFreeList ==
  ASSUME HeapInv, WithFreeList, NEW n \in Request, memAlloc(n),
         UNCHANGED <<free_lists, taken, manager>>
  PROVE  HeapInv' /\ (Refuses(n) \/ Gives(n))
<1>1. n \in Nat
  BY HeaderFacts
<1>2. HeapInv'
  <2>1. FreeListTypeOK' /\ HeapTiled'
    BY StepTiled DEF HeapInv, freeListNext
  <2>2. Gaps(free_list')
    BY StepGaps DEF HeapInv, freeListNext
  <2>3. BuddyInv(free_lists, taken)'
    BY DEF HeapInv
  <2>4. QED
    BY <2>1, <2>2, <2>3 DEF HeapInv
<1>3. /\ Address(n) = Allocated(n)
      /\ Rooms = {[address |-> b.addr + Header, size |-> b.size] : b \in allocated_list}
      /\ Rooms' = {[address |-> b.addr + Header, size |-> b.size] : b \in allocated_list'}
  BY DEF Address, Rooms, WithFreeList, WithBuddy
<1>4. CASE Fitting(Needs(n)) = {}
  <2>1. allocated_list' = allocated_list
    BY <1>4 DEF memAlloc, memAllocInner, freeListVars
  <2>2. Allocated(n) = Refused
    <3>1. Allocated(n) = Header + NULL
      BY <1>4 DEF Allocated
    <3>2. QED
      BY <3>1, HeaderFacts
  <2>3. QED
    BY <1>2, <1>3, <2>1, <2>2 DEF Refuses
<1>5. CASE Fitting(Needs(n)) # {}
  <2> DEFINE best == free_list[Best(Needs(n))]
             new  == [addr |-> best.addr, size |-> Needs(n) - Header]
             r    == [address |-> new.addr + Header, size |-> new.size]
  <2>1. Best(Needs(n)) \in 1 .. Len(free_list) /\ Needs(n) \in Nat /\ n + Header <= Needs(n)
    BY <1>1, <1>5, NeedsEnough, BestFits DEF HeapInv
  <2>2. best \in InList(free_list) /\ best \in Block
    BY <2>1, ListFacts DEF HeapInv, FreeListTypeOK
  <2>3. allocated_list' = allocated_list \cup {new}
    BY <1>5 DEF memAlloc, memAllocInner
  <2>4. Allocated(n) = r.address /\ n <= r.size
    <3>1. Allocated(n) = Header + best.addr /\ r.address = best.addr + Header
          /\ r.size = Needs(n) - Header
      BY <1>5 DEF Allocated
    <3>2. best.addr \in Nat
      BY <2>2, EndAfter
    <3> HIDE DEF best, new, r
    <3>3. QED
      BY <1>1, <2>1, <3>1, <3>2, HeaderFacts
  <2>5. \A b \in allocated_list : b.addr # new.addr
    <3>1. SUFFICES ASSUME NEW b \in allocated_list, b.addr = best.addr
                   PROVE  FALSE
      OBVIOUS
    <3>2. b # best /\ b \in Block /\ Apart(b, best)
      BY <2>2 DEF HeapInv, FreeListTypeOK, HeapTiled, Tiled
    <3>3. /\ End(b) <= best.addr \/ End(best) <= b.addr
          /\ b.addr < End(b) /\ best.addr < End(best)
          /\ b.addr \in Nat /\ End(b) \in Nat /\ End(best) \in Nat
      BY <2>2, <3>2, EndAfter DEF Apart
    <3> HIDE DEF best
    <3>4. QED
      BY <3>1, <3>3
  <2> HIDE DEF best
  <2>6. r \notin Rooms
    <3>1. SUFFICES ASSUME NEW b \in allocated_list,
                          r = [address |-> b.addr + Header, size |-> b.size]
                   PROVE  FALSE
      BY <1>3
    <3>2. b.addr \in Nat /\ new.addr \in Nat /\ new.addr + Header = b.addr + Header
      BY <2>2, <3>1, EndAfter DEF HeapInv, FreeListTypeOK
    <3>3. new.addr = b.addr
      BY <3>2, HeaderFacts
    <3>4. QED
      BY <2>5, <3>3
  <2> HIDE DEF new
  <2>7. Rooms' = Rooms \cup {r}
    BY <1>3, <2>3
  <2> HIDE DEF r
  <2>8. QED
    BY <1>2, <1>3, <2>4, <2>6, <2>7 DEF Gives
<1>6. QED
  BY <1>4, <1>5

LEMMA MallocBuddy ==
  ASSUME HeapInv, WithBuddy, NEW n \in Request, B!memAlloc(n),
         UNCHANGED <<freeListVars, manager>>
  PROVE  HeapInv' /\ (Refuses(n) \/ Gives(n))
<1> DEFINE room(b) == [address |-> Start + b.addr + BuddyHeader,
                       size |-> B!BLOCKSIZE(b.level) - BuddyHeader]
<1>1. n \in Nat /\ BuddyHeader \in Nat /\ Start \in Nat \ {0} /\ n + BuddyHeader \in Nat
  BY FreeListAssumption, BuddyConstants
<1>2. BuddyInv(free_lists', taken') => HeapInv'
  BY DEF HeapInv, freeListVars, FreeListTypeOK, HeapTiled
<1>3. /\ Address(n) = B!Allocated(n)
      /\ Rooms = {room(b) : b \in taken}
      /\ Rooms' = {room(b) : b \in taken'}
  BY DEF Address, Rooms, WithFreeList, WithBuddy
<1> DEFINE l == B!Needed(n)
<1>4. l \in 0 .. MAX_EXP + 1 /\ (l <= MAX_EXP => n + BuddyHeader <= B!BLOCKSIZE(l))
  <2>1. B!Needed(n) = B!obtainIndex(n + BuddyHeader)
    BY DEF B!Needed
  <2>2. QED
    BY <1>1, <2>1, IndexFound
<1> HIDE DEF room
<1>5. CASE n = 0 \/ B!Stocked(free_lists, l) = {}
  <2>1. B!Answer(n).block = B!NoBlock /\ B!Answer(n).lists = free_lists
    BY <1>5 DEF B!Answer, B!memAllocRec
  <2>2. free_lists' = free_lists /\ taken' = taken /\ B!Allocated(n) = NULL
    BY <2>1 DEF B!memAlloc, B!Allocated, B!NULL, NULL
  <2>3. QED
    BY <1>2, <1>3, <2>2 DEF Refuses, HeapInv
<1>6. CASE ~(n = 0 \/ B!Stocked(free_lists, l) = {})
  <2> DEFINE res == B!memAllocRec(free_lists, l)
             new == [addr |-> res.block, level |-> l]
  <2>1. B!Answer(n) = res
    BY <1>6 DEF B!Answer
  <2>2. /\ new \in BuddyBlock /\ new \notin taken /\ res.block # B!NoBlock
        /\ BuddyInv(res.lists, taken \cup {new})
    <3> HIDE DEF l
    <3>1. QED
      BY <1>4, <1>6, AllocKeepsInv DEF HeapInv
  <2>3. /\ free_lists' = res.lists /\ taken' = taken \cup {new}
        /\ B!Allocated(n) = Start + new.addr + BuddyHeader
    BY <2>1, <2>2 DEF B!memAlloc, B!Allocated
  <2>4. HeapInv'
    BY <1>2, <2>2, <2>3
  <2>5. new.level = l /\ new.addr \in Nat /\ l \in 0 .. MAX_EXP
    BY <2>2, AfterFacts
  <2> HIDE DEF new, res, l
  <2>6. room(new).address = Address(n) /\ n <= room(new).size
    <3>1. B!BLOCKSIZE(l) \in Nat /\ n + BuddyHeader <= B!BLOCKSIZE(l)
      BY <1>4, <2>5, SizesDouble, BuddyConstants
    <3>2. QED
      BY <1>1, <1>3, <2>3, <2>5, <3>1 DEF room
  <2>7. room(new) \notin Rooms
    <3>1. SUFFICES ASSUME NEW b \in taken, room(new) = room(b)
                   PROVE  FALSE
      BY <1>3
    <3>2. room(new).address = Start + new.addr + BuddyHeader
          /\ room(b).address = Start + b.addr + BuddyHeader
      BY DEF room
    <3>3. b.addr \in Nat /\ new.addr \in Nat /\ b \in BuddyBlock
      BY <2>5, BuddyRooms DEF HeapInv, BuddyInv
    <3>4. new.addr = b.addr
      BY <1>1, <3>1, <3>2, <3>3
    <3> DEFINE S == Listed(res.lists) \cup (taken \cup {new})
    <3>5. Halves(S) /\ new \in S /\ b \in S /\ b \in BuddyBlock
      BY <2>2, <3>3 DEF BuddyInv
    <3>6. new.addr <= b.addr /\ b.addr < After(new)
      BY <2>2, <3>3, <3>4, AfterFacts
    <3> HIDE DEF S
    <3>7. b = new
      BY <3>5, <3>6, AloneInside
    <3>8. QED
      BY <2>2, <3>7
  <2>8. Rooms' = Rooms \cup {room(new)}
    BY <1>3, <2>3
  <2>9. QED
    BY <2>4, <2>6, <2>7, <2>8 DEF Gives
<1>7. QED
  BY <1>5, <1>6

LEMMA MallocRooms ==
  ASSUME HeapInv, manager \in Managers, manager' = manager, NEW n \in Request, sys_malloc(n)
  PROVE  HeapInv' /\ (Refuses(n) \/ Gives(n))
BY MallocFreeList, MallocBuddy DEF sys_malloc, WithFreeList, WithBuddy

(* No two blocks in use start at the same byte.                            *)
LEMMA SameStart ==
  ASSUME HeapInv, NEW b \in allocated_list, NEW c \in allocated_list, b.addr = c.addr
  PROVE  b = c
<1>1. b \in Block /\ c \in Block /\ (b # c => Apart(b, c))
  BY DEF HeapInv, FreeListTypeOK, HeapTiled, Tiled
<1>2. /\ b.addr < End(b) /\ c.addr < End(c)
      /\ b.addr \in Nat /\ c.addr \in Nat /\ End(b) \in Nat /\ End(c) \in Nat
  BY <1>1, EndAfter
<1>3. QED
  BY <1>1, <1>2 DEF Apart

(* A free takes away the room at the address, or nothing when it is the    *)
(* answer of a refusal.                                                    *)
LEMMA FreeFreeList ==
  ASSUME HeapInv, WithFreeList, NEW ptr, memFree(ptr),
         UNCHANGED <<free_lists, taken, manager>>
  PROVE  /\ HeapInv'
         /\ ptr = Refused => Rooms' = Rooms
         /\ \A r \in Rooms : ptr = r.address => Rooms' = Rooms \ {r}
<1> DEFINE room(b) == [address |-> b.addr + Header, size |-> b.size]
<1>1. /\ Header \in Nat \ {0} /\ Start \in Nat /\ Header < Start /\ Refused = Header /\ NULL = 0
  BY HeaderFacts
<1>2. \A b \in allocated_list : b.addr \in Nat /\ b.size \in Nat /\ Start <= b.addr
  BY FreeListRooms DEF HeapInv
<1>3. HeapInv'
  <2>1. FreeListTypeOK' /\ HeapTiled' /\ Gaps(free_list')
    <3>1. CASE UNCHANGED freeListVars
      BY <3>1, StepTiled, StepGaps DEF HeapInv
    <3>2. CASE \E b \in Given(ptr) : memFreeInner(b)
      <4>1. PICK b \in Given(ptr) : memFreeInner(b)
        BY <3>2
      <4>2. b \in allocated_list /\ b \in Given(b.addr + Header)
        BY <4>1 DEF Given
      <4>3. memFree(b.addr + Header)
        BY <4>1, <4>2 DEF memFree
      <4>4. freeListNext
        BY <4>2, <4>3 DEF freeListNext
      <4>5. QED
        BY <4>4, StepTiled, StepGaps DEF HeapInv
    <3>3. QED
      BY <3>1, <3>2 DEF memFree
  <2>2. BuddyInv(free_lists, taken)'
    BY DEF HeapInv
  <2>3. QED
    BY <2>1, <2>2 DEF HeapInv
<1>4. /\ Rooms = {room(b) : b \in allocated_list}
      /\ Rooms' = {room(b) : b \in allocated_list'}
  BY DEF Rooms, WithFreeList, WithBuddy
<1>5. ASSUME ptr = Refused
      PROVE  Rooms' = Rooms
  <2>1. Given(ptr) = {}
    <3>1. ASSUME NEW b \in Given(ptr)
          PROVE  FALSE
      <4>1. b \in allocated_list /\ b.addr + Header = Header
        BY <1>1, <1>5 DEF Given
      <4>2. b.addr \in Nat /\ Start <= b.addr
        BY <1>2, <4>1
      <4>3. QED
        BY <1>1, <4>1, <4>2
    <3>2. QED
      BY <3>1
  <2>2. allocated_list' = allocated_list
    BY <2>1 DEF memFree, freeListVars
  <2>3. QED
    BY <1>4, <2>2
<1>6. ASSUME NEW r \in Rooms, ptr = r.address
      PROVE  Rooms' = Rooms \ {r}
  <2>1. PICK c \in allocated_list : r = room(c)
    BY <1>4
  <2>2. ptr - Header # NULL
    <3>1. ptr = c.addr + Header
      BY <1>6, <2>1
    <3>2. c.addr \in Nat /\ Start <= c.addr
      BY <1>2
    <3>3. QED
      BY <1>1, <3>1, <3>2
  <2>3. PICK b \in Given(ptr) : memFreeInner(b)
    BY <2>2 DEF memFree
  <2>4. b \in allocated_list /\ b.addr + Header = ptr /\ allocated_list' = allocated_list \ {b}
    BY <2>3 DEF Given, memFreeInner
  <2>5. b.addr = c.addr
    <3>1. b.addr + Header = c.addr + Header
      BY <1>6, <2>1, <2>4
    <3>2. b.addr \in Nat /\ c.addr \in Nat
      BY <1>2, <2>4
    <3>3. QED
      BY <1>1, <3>1, <3>2
  <2>6. ASSUME NEW d \in allocated_list, room(d) = room(b)
        PROVE  d = b
    <3>1. d.addr + Header = b.addr + Header
      BY <2>6
    <3>2. d.addr \in Nat /\ b.addr \in Nat
      BY <1>2, <2>4
    <3>3. d.addr = b.addr
      BY <1>1, <3>1, <3>2
    <3>4. QED
      BY <2>4, <3>3, SameStart
  <2>7. c = b
    BY <2>4, <2>5, SameStart
  <2> HIDE DEF room
  <2>8. QED
    BY <1>4, <2>1, <2>4, <2>6, <2>7
<1>7. QED
  BY <1>3, <1>5, <1>6

LEMMA FreeBuddy ==
  ASSUME HeapInv, WithBuddy, NEW ptr, B!memFree(ptr), UNCHANGED <<freeListVars, manager>>
  PROVE  /\ HeapInv'
         /\ ptr # Refused
         /\ \A r \in Rooms : ptr = r.address => Rooms' = Rooms \ {r}
<1> DEFINE room(b) == [address |-> Start + b.addr + BuddyHeader,
                       size |-> B!BLOCKSIZE(b.level) - BuddyHeader]
<1>1. /\ BuddyHeader \in Nat /\ Start \in Nat /\ Header < Start /\ Refused = Header
      /\ Header \in Nat
  BY FreeListAssumption, BuddyConstants DEF Refused, NULL
<1>2. \A b \in taken : b.addr \in Nat
  BY BuddyRooms DEF HeapInv
<1>3. PICK b \in taken : /\ Start + b.addr + BuddyHeader = ptr
                         /\ free_lists' = B!memFreeRec(free_lists, b.addr, b.level)
                         /\ taken' = taken \ {b}
  BY DEF B!memFree, B!Given
<1>4. HeapInv'
  <2>1. BuddyInv(free_lists', taken')
    BY <1>3, FreeKeepsInv DEF HeapInv
  <2>2. QED
    BY <2>1 DEF HeapInv, freeListVars, FreeListTypeOK, HeapTiled
<1>5. ptr # Refused
  BY <1>1, <1>2, <1>3
<1>6. /\ Rooms = {room(c) : c \in taken}
      /\ Rooms' = {room(c) : c \in taken'}
  BY DEF Rooms, WithFreeList, WithBuddy
<1>7. ASSUME NEW c \in taken, room(c).address = ptr
      PROVE  c = b
  <2>1. room(c).address = Start + c.addr + BuddyHeader
    OBVIOUS
  <2>2. c.addr = b.addr
    BY <1>1, <1>2, <1>3, <1>7, <2>1
  <2> DEFINE S == Listed(free_lists) \cup taken
  <2>3. Halves(S) /\ c \in S /\ b \in S /\ b \in BuddyBlock
    BY DEF HeapInv, BuddyInv
  <2>4. b.addr <= c.addr /\ c.addr < After(b)
    BY <2>2, <2>3, AfterFacts
  <2> HIDE DEF S
  <2>5. QED
    BY <2>3, <2>4, AloneInside
<1>8. room(b).address = ptr
  BY <1>3
<1> HIDE DEF room
<1>9. ASSUME NEW r \in Rooms, ptr = r.address
      PROVE  Rooms' = Rooms \ {r}
  <2>1. PICK c \in taken : r = room(c)
    BY <1>6
  <2>2. c = b
    BY <1>7, <1>9, <2>1
  <2>3. \A d \in taken : room(d) = room(b) => d = b
    BY <1>7, <1>8
  <2>4. QED
    BY <1>3, <1>6, <2>1, <2>2, <2>3
<1>10. QED
  BY <1>4, <1>5, <1>9

LEMMA FreeRooms ==
  ASSUME HeapInv, manager \in Managers, manager' = manager, NEW ptr, sys_free(ptr)
  PROVE  /\ HeapInv'
         /\ ptr = Refused => Rooms' = Rooms
         /\ \A r \in Rooms : ptr = r.address => Rooms' = Rooms \ {r}
BY FreeFreeList, FreeBuddy DEF sys_free, WithFreeList, WithBuddy

-----------------------------------------------------------------------------
(* The types of the tests, and what the blocks of a state cannot do.       *)

(* Every variable of the tests has its type.                               *)
ClientTypeOK ==
  /\ manager \in Managers
  /\ pc \in [Tests -> {"request", "set", "wrecked", "check", "free", "error"}]
  /\ mm_rqs \in [Tests -> Seq([address : Nat, size : Request])]
  /\ i \in [Tests -> 1 .. MAX_BLOCKS]
  /\ intact \in [Tests -> SUBSET (1 .. MAX_BLOCKS)]
  /\ leaked \in SUBSET [address : Nat, size : Request]
  /\ kills \in 0 .. MaxKills

LEMMA ClientConstants ==
  MAX_BLOCKS \in Nat \ {0} /\ MaxMemory \in Nat \ {0} /\ MaxKills \in Nat
BY TestMMAssumption

LEMMA SlotFacts ==
  ASSUME ClientTypeOK, NEW t \in Tests
  PROVE  /\ mm_rqs[t] \in Seq([address : Nat, size : Request]) /\ Len(mm_rqs[t]) \in Nat
         /\ \A k \in 1 .. Len(mm_rqs[t]) : /\ mm_rqs[t][k] \in [address : Nat, size : Request]
                                           /\ mm_rqs[t][k].address \in Nat
                                           /\ mm_rqs[t][k].size \in Nat
                                           /\ mm_rqs[t][k].size \in Request
         /\ \A k \in Real(t) : k \in 1 .. Len(mm_rqs[t])
<1>1. mm_rqs[t] \in Seq([address : Nat, size : Request]) /\ Len(mm_rqs[t]) \in Nat
  <2>1. mm_rqs \in [Tests -> Seq([address : Nat, size : Request])]
    BY DEF ClientTypeOK
  <2>2. mm_rqs[t] \in Seq([address : Nat, size : Request])
    BY <2>1
  <2>3. QED
    BY <2>2, LenProperties
<1>2. ASSUME NEW k \in 1 .. Len(mm_rqs[t])
      PROVE  /\ mm_rqs[t][k] \in [address : Nat, size : Request]
             /\ mm_rqs[t][k].address \in Nat
             /\ mm_rqs[t][k].size \in Nat
             /\ mm_rqs[t][k].size \in Request
  <2>1. mm_rqs[t][k] \in [address : Nat, size : Request]
    BY <1>1, ElementOfSeq
  <2>2. QED
    BY <2>1, HeaderFacts
<1>3. QED
  BY <1>1, <1>2 DEF Real

(* What a test has been given so far is a number, 0 at first.              *)
LEMMA TotalNat ==
  ASSUME ClientTypeOK, NEW t \in Tests
  PROVE  total(t) \in Nat /\ (Len(mm_rqs[t]) = 0 => total(t) = 0)
<1> DEFINE s == mm_rqs[t]
           dom == 0 .. Len(s)
           next(x, k) == x + s[k].size
           G == [p \in Int \X Nat |-> IF p[1] \in 1 .. Len(s) THEN next(p[2], p[1]) ELSE 0]
           T == [k \in dom |-> 0]
<1>1. Len(s) \in Nat /\ \A k \in 1 .. Len(s) : s[k].size \in Nat
  BY SlotFacts
<1> HIDE DEF s
<1>2. G \in [Int \X Nat -> Nat]
  <2>1. SUFFICES ASSUME NEW p \in Int \X Nat
                 PROVE  (IF p[1] \in 1 .. Len(s) THEN next(p[2], p[1]) ELSE 0) \in Nat
    OBVIOUS
  <2>2. p[2] \in Nat
    OBVIOUS
  <2>3. QED
    BY <1>1, <2>2
<1>3. PICK f : Recursion(f, 0, Len(s), 0, G)
  <2> HIDE DEF G
  <2>1. 0 \in Int /\ Len(s) \in Int /\ 0 <= Len(s)
    BY <1>1
  <2>2. QED
    BY <1>2, <2>1, RecursionExists
<1>4. f \in [dom -> Nat] /\ \A k \in dom : f[k] = IF k = 0 THEN 0 ELSE G[<<k, f[k - 1]>>]
  BY <1>3 DEF Recursion
<1>5. \A k \in dom : f[k] = IF k = 0 THEN 0 ELSE next(f[k - 1], k)
  <2>1. SUFFICES ASSUME NEW k \in dom, k # 0
                 PROVE  f[k] = next(f[k - 1], k)
    BY <1>4
  <2>2. k - 1 \in dom /\ k \in Int /\ k \in 1 .. Len(s)
    BY <1>1, <2>1
  <2>3. f[k - 1] \in Nat
    BY <1>4, <2>2
  <2>4. <<k, f[k - 1]>> \in Int \X Nat
    BY <2>2, <2>3
  <2>5. G[<<k, f[k - 1]>>] = next(f[k - 1], k)
    <3> HIDE DEF next
    <3>1. QED
      BY <2>2, <2>4
  <2> HIDE DEF G, next
  <2>6. QED
    BY <1>4, <2>1, <2>5
<1> HIDE DEF G
<1>6. f = [k \in dom |-> IF k = 0 THEN 0 ELSE next(f[k - 1], k)]
  <2> HIDE DEF next
  <2>1. QED
    BY <1>4, <1>5
<1> DEFINE at == CHOOSE g : g = [k \in dom |-> IF k = 0 THEN 0 ELSE next(g[k - 1], k)]
<1>7. at = [k \in dom |-> IF k = 0 THEN 0 ELSE next(at[k - 1], k)]
  <2> HIDE DEF next, dom
  <2>1. QED
    BY <1>6
<1>8. total(t) = at[Len(s)]
  BY DEF total, s
<1> HIDE DEF at
<1>9. \A k \in Nat : k \in dom => at[k] \in Nat
  <2> DEFINE Bad == {k \in Nat : k \in dom /\ at[k] \notin Nat}
  <2>1. SUFFICES ASSUME Bad # {}
                 PROVE  FALSE
    OBVIOUS
  <2>2. PICK m \in Bad : \A k \in Bad : m <= k
    BY <2>1, LeastNumber
  <2>3. at[0] = 0
    BY <1>1, <1>7
  <2>4. m \in Nat /\ m # 0 /\ m \in dom
    BY <2>2, <2>3
  <2>5. m - 1 \in Nat /\ m - 1 \in dom /\ m - 1 \notin Bad /\ m \in 1 .. Len(s)
    BY <1>1, <2>2, <2>4
  <2>6. at[m] = next(at[m - 1], m)
    <3> HIDE DEF next
    <3>1. QED
      BY <1>7, <2>4
  <2>7. at[m - 1] \in Nat /\ s[m].size \in Nat
    BY <1>1, <2>5
  <2>8. QED
    BY <2>2, <2>6, <2>7
<1>10. Len(s) \in dom /\ at[0] = 0
  BY <1>1, <1>7
<1>11. QED
  BY <1>1, <1>8, <1>9, <1>10 DEF s

LEMMA AskedSizes ==
  ASSUME ClientTypeOK, NEW t \in Tests, NEW n \in Size(t)
  PROVE  n \in Request /\ n \in 1 .. MaxMemory
<1>1. n \in Request /\ n \in Nat /\ n >= 1 /\ (n = 1 \/ n <= MaxMemory - total(t) - 1)
  BY HeaderFacts DEF Size
<1>2. total(t) \in Nat
  BY TotalNat
<1>3. QED
  BY <1>1, <1>2, ClientConstants

(* A test that asks for no more has a block.                               *)
LEMMA EnoughIsSome ==
  ASSUME ClientTypeOK, NEW t \in Tests, ~More(t)
  PROVE  Len(mm_rqs[t]) >= 1
<1>1. total(t) \in Nat /\ (Len(mm_rqs[t]) = 0 => total(t) = 0) /\ Len(mm_rqs[t]) \in Nat
  BY TotalNat, SlotFacts
<1>2. QED
  BY <1>1, ClientConstants DEF More

-----------------------------------------------------------------------------
(* The inductive invariant is Owners and the phases of all tests.          *)
Owners == ClientTypeOK /\ HeapInv /\ Holding

(* A block lies in its room, so no header is in it.                        *)
LEMMA BlockInRoom ==
  ASSUME Owners, NEW t \in Tests, NEW k \in Real(t)
  PROVE  \E r \in Rooms : /\ r.address = mm_rqs[t][k].address /\ mm_rqs[t][k].size <= r.size
                          /\ r.address \in Nat /\ r.size \in Nat /\ mm_rqs[t][k].size \in Nat
                          /\ Start <= r.address
<1>1. PICK r \in Rooms : r.address = mm_rqs[t][k].address /\ mm_rqs[t][k].size <= r.size
  BY DEF Owners, Holding, Roomy
<1>2. r.address \in Nat /\ r.size \in Nat /\ Start <= r.address
  BY RoomFacts DEF Owners, ClientTypeOK
<1>3. mm_rqs[t][k].size \in Nat
  BY SlotFacts DEF Owners
<1>4. QED
  BY <1>1, <1>2, <1>3

(* A header is a stretch of bytes.                                         *)
LEMMA HeaderNat ==
  ASSUME HeapInv, NEW h \in Headers
  PROVE  h.address \in Nat /\ h.size \in Nat
<1>1. CASE manager = "free list"
  <2>1. PICK b \in Blocks : h = [address |-> b.addr, size |-> Header]
    BY <1>1 DEF Headers
  <2>2. free_list \in Seq(Block) /\ allocated_list \subseteq Block
    BY DEF HeapInv, FreeListTypeOK
  <2>3. InList(free_list) \subseteq Block
    BY <2>2, ListFacts
  <2>4. b.addr \in Nat
    BY <2>2, <2>3, EndAfter DEF Blocks
  <2>5. h.address = b.addr /\ h.size = Header
    BY <2>1
  <2>6. Header \in Nat
    BY HeaderFacts
  <2>7. QED
    BY <2>4, <2>5, <2>6
<1>2. CASE manager # "free list"
  <2>1. PICK b \in B!Spans \cup taken : h = [address |-> Start + b.addr, size |-> BuddyHeader]
    BY <1>2 DEF Headers
  <2>2. B!Spans \cup taken \subseteq BuddyBlock
    BY SpansListed DEF HeapInv, BuddyInv, Halves
  <2>3. b.addr \in Nat
    BY <2>2 DEF BuddyBlock
  <2>4. h.address = Start + b.addr /\ h.size = BuddyHeader
    BY <2>1
  <2>5. Start \in Nat /\ BuddyHeader \in Nat
    BY HeaderFacts
  <2>6. QED
    BY <2>3, <2>4, <2>5
<1>3. QED
  BY <1>1, <1>2

LEMMA NoHeaderInside ==
  ASSUME Owners, NEW t \in Tests, NEW k \in Real(t), NEW h \in Headers
  PROVE  ~Overlap(mm_rqs[t][k], h)
<1>1. PICK r \in Rooms : /\ r.address = mm_rqs[t][k].address /\ mm_rqs[t][k].size <= r.size
                         /\ r.address \in Nat /\ r.size \in Nat /\ mm_rqs[t][k].size \in Nat
  BY BlockInRoom
<1>2. Outside(h, r)
  BY RoomFacts DEF Owners, ClientTypeOK
<1>3. h.address \in Nat /\ h.size \in Nat
  BY HeaderNat DEF Owners
<1>4. QED
  BY <1>1, <1>2, <1>3 DEF Outside, Overlap

(* Filling a block does not reach into any other that was given, unless it *)
(* is a refusal that reaches the heap.                                     *)
LEMMA ApartSlots ==
  ASSUME Owners, NEW t \in Tests, NEW k \in Real(t),
         NEW u \in Tests, NEW m \in 1 .. Len(mm_rqs[u]), ~(t = u /\ k = m),
         ~Reaches(mm_rqs[u][m])
  PROVE  ~Overlap(mm_rqs[t][k], mm_rqs[u][m])
<1>1. PICK r \in Rooms : /\ r.address = mm_rqs[t][k].address /\ mm_rqs[t][k].size <= r.size
                         /\ r.address \in Nat /\ r.size \in Nat /\ mm_rqs[t][k].size \in Nat
                         /\ Start <= r.address
  BY BlockInRoom
<1>2. CASE m \in Real(u)
  <2>1. PICK q \in Rooms : /\ q.address = mm_rqs[u][m].address /\ mm_rqs[u][m].size <= q.size
                           /\ q.address \in Nat /\ q.size \in Nat /\ mm_rqs[u][m].size \in Nat
    BY <1>2, BlockInRoom
  <2>2. mm_rqs[t][k].address # mm_rqs[u][m].address
    BY <1>2 DEF Owners, Holding
  <2>3. Outside(q, r)
    BY <1>1, <2>1, <2>2, RoomFacts DEF Owners, ClientTypeOK
  <2> DEFINE b == mm_rqs[t][k]
             c == mm_rqs[u][m]
  <2>4. /\ r.address = b.address /\ b.size <= r.size /\ q.address = c.address /\ c.size <= q.size
        /\ r.address \in Nat /\ r.size \in Nat /\ q.address \in Nat /\ q.size \in Nat
        /\ b.size \in Nat /\ c.size \in Nat
        /\ q.address + q.size <= r.address \/ r.address + r.size <= q.address
    BY <1>1, <2>1, <2>3 DEF Outside
  <2> HIDE DEF b, c
  <2>5. ~Overlap(b, c)
    BY <2>4 DEF Overlap
  <2>6. QED
    BY <2>5 DEF b, c
<1>3. CASE m \notin Real(u)
  <2>1. mm_rqs[u][m].address = Refused /\ Refused = Header /\ Header \in Nat /\ Start \in Nat
    BY <1>3, HeaderFacts DEF Real
  <2>2. mm_rqs[u][m].size \in Nat
    BY SlotFacts DEF Owners
  <2>3. Header + mm_rqs[u][m].size <= Start
    BY <2>1, <2>2 DEF Reaches
  <2>4. QED
    BY <1>1, <2>1, <2>2, <2>3 DEF Overlap
<1>4. QED
  BY <1>2, <1>3

(* The facts about rooms and headers, of the next state too.               *)
RoomsApart ==
  \A r \in Rooms :
    /\ r.address \in Nat /\ r.size \in Nat /\ Start <= r.address
    /\ r.address + r.size <= Start + Total
    /\ r.address # Refused /\ r.address # NULL
    /\ \A q \in Rooms : q # r => Outside(q, r) /\ q.address # r.address

HeadersOutside ==
  \A t \in Tests : \A k \in Real(t) : \A h \in Headers : ~Overlap(mm_rqs[t][k], h)

LEMMA RoomsAreApart == HeapInv /\ manager \in Managers => RoomsApart
BY RoomFacts DEF RoomsApart

LEMMA HeadersAreOutside == Owners => HeadersOutside
BY NoHeaderInside DEF HeadersOutside

LEMMA SurvivesFacts ==
  ASSUME ClientTypeOK, NEW W
  PROVE  /\ Survives(W) \in [Tests -> SUBSET (1 .. MAX_BLOCKS)]
         /\ \A t \in Tests : Survives(W)[t] =
                               {k \in intact[t] : \A b \in W : ~Overlap(mm_rqs[t][k], b)}
<1>1. intact \in [Tests -> SUBSET (1 .. MAX_BLOCKS)]
  BY DEF ClientTypeOK
<1>2. QED
  BY <1>1 DEF Survives

(* A test is where it was if its blocks are and none has lost its pattern. *)
LEMMA SamePhase ==
  ASSUME NEW u \in Tests, Phase(u),
         pc'[u] = pc[u], i'[u] = i[u], mm_rqs'[u] = mm_rqs[u],
         \A k \in Real(u) : k \in intact[u] => k \in intact'[u]
  PROVE  Phase(u)'
<1>1. Real(u)' = Real(u)
  BY DEF Real, Refused, NULL
<1>2. QED
  BY <1>1 DEF Phase

(* What was given keeps its pattern when the allocator has written its     *)
(* headers.                                                                *)
LEMMA HeadersWritten ==
  ASSUME ClientTypeOK, HeadersOutside', intact' = Survives(Headers'),
         NEW u \in Tests, mm_rqs'[u] = mm_rqs[u]
  PROVE  \A k \in Real(u) : k \in intact[u] => k \in intact'[u]
<1>1. Real(u)' = Real(u)
  BY DEF Real, Refused, NULL
<1>2. SUFFICES ASSUME NEW k \in Real(u), k \in intact[u]
               PROVE  k \in intact'[u]
  OBVIOUS
<1>3. \A h \in Headers' : ~Overlap(mm_rqs[u][k], h)
  BY <1>1, <1>2 DEF HeadersOutside, Overlap
<1>4. QED
  BY <1>2, <1>3, SurvivesFacts

-----------------------------------------------------------------------------
(* Every action keeps the invariant.                                       *)

(* One block more for a test that asks.                                    *)
Slots(t, blk) == mm_rqs' = [mm_rqs EXCEPT ![t] = Append(@, blk)]

LEMMA OneMore ==
  ASSUME ClientTypeOK, NEW t \in Tests, NEW blk \in [address : Nat, size : Request],
         Slots(t, blk)
  PROVE  /\ mm_rqs' \in [Tests -> Seq([address : Nat, size : Request])]
         /\ \A u \in Tests : u # t => mm_rqs'[u] = mm_rqs[u]
         /\ Len(mm_rqs'[t]) = Len(mm_rqs[t]) + 1
         /\ \A k \in 1 .. Len(mm_rqs[t]) : mm_rqs'[t][k] = mm_rqs[t][k]
         /\ mm_rqs'[t][Len(mm_rqs[t]) + 1] = blk
         /\ \A u \in Tests : \A k \in Real(u)' :
              \/ k \in Real(u) /\ mm_rqs'[u][k] = mm_rqs[u][k]
              \/ u = t /\ k = Len(mm_rqs[t]) + 1 /\ blk.address # Refused
<1> DEFINE s == mm_rqs[t]
<1>1. /\ s \in Seq([address : Nat, size : Request]) /\ Len(s) \in Nat
      /\ mm_rqs \in [Tests -> Seq([address : Nat, size : Request])]
  BY SlotFacts DEF ClientTypeOK
<1>2. /\ \A u \in Tests : u # t => mm_rqs'[u] = mm_rqs[u]
      /\ mm_rqs'[t] = Append(s, blk)
  BY <1>1 DEF Slots
<1>3. /\ Append(s, blk) \in Seq([address : Nat, size : Request])
      /\ Len(Append(s, blk)) = Len(s) + 1
      /\ \A k \in 1 .. Len(s) : Append(s, blk)[k] = s[k]
      /\ Append(s, blk)[Len(s) + 1] = blk
  BY <1>1, AppendProperties
<1>4. mm_rqs' \in [Tests -> Seq([address : Nat, size : Request])]
  BY <1>1, <1>3 DEF Slots
<1>5. ASSUME NEW u \in Tests, NEW k \in Real(u)'
      PROVE  \/ k \in Real(u) /\ mm_rqs'[u][k] = mm_rqs[u][k]
             \/ u = t /\ k = Len(s) + 1 /\ blk.address # Refused
  <2>1. k \in 1 .. Len(mm_rqs'[u]) /\ mm_rqs'[u][k].address # Refused
    BY <1>5 DEF Real, Refused, NULL
  <2>2. CASE u # t
    BY <1>2, <2>1, <2>2 DEF Real
  <2>3. CASE u = t
    <3>1. k \in 1 .. Len(s) \/ k = Len(s) + 1
      <4>1. k \in 1 .. Len(s) + 1
        BY <1>2, <1>3, <2>1, <2>3
      <4>2. QED
        BY <1>1, <4>1
    <3>2. CASE k \in 1 .. Len(s)
      BY <1>2, <1>3, <2>1, <2>3, <3>2 DEF Real
    <3>3. CASE k = Len(s) + 1
      BY <1>2, <1>3, <2>1, <2>3, <3>3
    <3>4. QED
      BY <3>1, <3>2, <3>3
  <2>4. QED
    BY <2>2, <2>3
<1>6. QED
  BY <1>2, <1>3, <1>4, <1>5

LEMMA OneMoreHeld ==
  ASSUME Owners, HeapInv', RoomsApart', NEW n \in Request, NEW t \in Tests,
         NEW blk, blk = [address |-> Address(n), size |-> n],
         Slots(t, blk), leaked' = leaked, Refuses(n) \/ Gives(n),
         blk \in [address : Nat, size : Request], Address(n) # NULL
  PROVE  Holding'
<1> DEFINE new == Len(mm_rqs[t]) + 1
<1>1. /\ \A u \in Tests : \A k \in Real(u)' :
           \/ k \in Real(u) /\ mm_rqs'[u][k] = mm_rqs[u][k]
           \/ u = t /\ k = new /\ mm_rqs'[u][k] = blk /\ Address(n) # Refused
  BY OneMore DEF Owners
<1>2. Rooms \subseteq Rooms'
  BY DEF Refuses, Gives
<1>3. ASSUME Address(n) # Refused
      PROVE  /\ \E r \in Rooms' : r.address = Address(n) /\ n <= r.size
             /\ \A q \in Rooms : q.address # Address(n)
  <2>1. PICK r : /\ r \notin Rooms /\ Rooms' = Rooms \cup {r}
                 /\ r.address = Address(n) /\ n <= r.size
    BY <1>3 DEF Refuses, Gives
  <2>2. \A q \in Rooms : q.address # r.address
    BY <2>1 DEF RoomsApart
  <2>3. QED
    BY <2>1, <2>2
<1>4. blk.address = Address(n) /\ blk.size = n
  OBVIOUS
<1>5. Holding
  BY DEF Owners
<1>6. ASSUME NEW u \in Tests, NEW k \in Real(u), Address(n) # Refused
      PROVE  mm_rqs[u][k].address # Address(n)
  BY <1>3, <1>5, <1>6 DEF Holding, Roomy
<1>7. ASSUME NEW b \in leaked, Address(n) # Refused
      PROVE  b.address # Address(n)
  BY <1>3, <1>5, <1>7 DEF Holding, Roomy
<1>8. ASSUME NEW u \in Tests, NEW k \in Real(u)'
      PROVE  Roomy(mm_rqs[u][k])'
  <2>1. CASE k \in Real(u) /\ mm_rqs'[u][k] = mm_rqs[u][k]
    BY <1>2, <1>5, <2>1 DEF Holding, Roomy
  <2>2. CASE mm_rqs'[u][k] = blk /\ Address(n) # Refused
    BY <1>3, <1>4, <2>2 DEF Roomy
  <2>3. QED
    BY <1>1, <2>1, <2>2
<1>9. ASSUME NEW b \in leaked', b.address # Refused
      PROVE  Roomy(b)'
  BY <1>2, <1>5, <1>9 DEF Holding, Roomy
<1>10. ASSUME NEW u \in Tests, NEW w \in Tests, NEW k \in Real(u)', NEW m \in Real(w)',
              mm_rqs'[u][k].address = mm_rqs'[w][m].address
       PROVE  u = w /\ k = m
  <2>1. CASE k \in Real(u) /\ m \in Real(w)
                /\ mm_rqs'[u][k] = mm_rqs[u][k] /\ mm_rqs'[w][m] = mm_rqs[w][m]
    BY <1>5, <1>10, <2>1 DEF Holding
  <2>2. CASE k \in Real(u) /\ mm_rqs'[u][k] = mm_rqs[u][k]
                /\ mm_rqs'[w][m] = blk /\ Address(n) # Refused
    BY <1>4, <1>6, <1>10, <2>2
  <2>3. CASE m \in Real(w) /\ mm_rqs'[w][m] = mm_rqs[w][m]
                /\ mm_rqs'[u][k] = blk /\ Address(n) # Refused
    BY <1>4, <1>6, <1>10, <2>3
  <2>4. CASE u = t /\ k = new /\ w = t /\ m = new
    BY <2>4
  <2> HIDE DEF new
  <2>5. QED
    BY <1>1, <2>1, <2>2, <2>3, <2>4
<1>11. ASSUME NEW u \in Tests, NEW k \in Real(u)', NEW b \in leaked'
       PROVE  mm_rqs'[u][k].address # b.address
  <2>1. CASE k \in Real(u) /\ mm_rqs'[u][k] = mm_rqs[u][k]
    BY <1>5, <2>1 DEF Holding
  <2>2. CASE mm_rqs'[u][k] = blk /\ Address(n) # Refused
    BY <1>4, <1>7, <2>2
  <2>3. QED
    BY <1>1, <2>1, <2>2
<1>12. \A b, c \in leaked' : b.address # Refused /\ b.address = c.address => b = c
  BY <1>5 DEF Holding
<1>13. Refused' = Refused
  BY DEF Refused, NULL
<1>14. QED
  BY <1>8, <1>9, <1>10, <1>11, <1>12, <1>13 DEF Holding

(* The phases of the other tests, and of one that asks.                    *)
LEMMA AskKeeps ==
  ASSUME Owners, Phases, NEW t \in Tests, Ask(t)
  PROVE  Owners' /\ Phases'
<1>1. PICK n \in Size(t) :
        /\ sys_malloc(n)
        /\ mm_rqs' = IF Address(n) = NULL THEN mm_rqs
                     ELSE [mm_rqs EXCEPT ![t] = Append(@, [address |-> Address(n), size |-> n])]
  BY DEF Ask
<1>2. /\ manager' = manager /\ pc' = pc /\ i' = i /\ leaked' = leaked /\ kills' = kills
      /\ intact' = Survives(Headers')
  BY DEF Ask
<1>3. ClientTypeOK /\ HeapInv /\ Holding /\ manager \in Managers
  BY DEF Owners, ClientTypeOK
<1>4. n \in Request /\ n \in Nat /\ n \in 1 .. MaxMemory
  BY <1>3, AskedSizes, HeaderFacts
<1>5. HeapInv' /\ (Refuses(n) \/ Gives(n))
  BY <1>1, <1>2, <1>3, <1>4, MallocRooms
<1>6. RoomsApart'
  <2>1. (manager \in Managers)'
    BY <1>2, <1>3
  <2>2. QED
    BY <1>5, <2>1, RoomsAreApart, PTL
<1> DEFINE blk == [address |-> Address(n), size |-> n]
<1>7. blk \in [address : Nat, size : Request]
  <2>1. Address(n) \in Nat
    <3>1. CASE Refuses(n)
      BY <3>1, HeaderFacts DEF Refuses
    <3>2. CASE Gives(n)
      BY <1>6, <3>2 DEF Gives, RoomsApart
    <3>3. QED
      BY <1>5, <3>1, <3>2
  <2>2. QED
    BY <1>4, <2>1
<1>8. mm_rqs' = mm_rqs \/ (Address(n) # NULL /\ Slots(t, blk))
  BY <1>1 DEF Slots
<1> HIDE DEF blk
<1>9. mm_rqs' \in [Tests -> Seq([address : Nat, size : Request])]
  <2>1. mm_rqs \in [Tests -> Seq([address : Nat, size : Request])]
    BY <1>3 DEF ClientTypeOK
  <2>2. QED
    BY <1>3, <1>7, <1>8, <2>1, OneMore
<1>10. ClientTypeOK'
  <2>1. intact' \in [Tests -> SUBSET (1 .. MAX_BLOCKS)]
    BY <1>2, <1>3, SurvivesFacts
  <2>2. QED
    BY <1>2, <1>3, <1>9, <2>1 DEF ClientTypeOK
<1>11. Holding'
  <2>1. CASE mm_rqs' = mm_rqs
    <3>1. Rooms \subseteq Rooms'
      BY <1>5 DEF Refuses, Gives
    <3>2. \A u \in Tests : Real(u)' = Real(u)
      BY <2>1 DEF Real, Refused, NULL
    <3>3. Refused' = Refused
      BY DEF Refused, NULL
    <3>4. \A b : Roomy(b) => Roomy(b)'
      BY <3>1 DEF Roomy
    <3>5. QED
      BY <1>2, <1>3, <2>1, <3>2, <3>3, <3>4 DEF Holding, Roomy
  <2>2. CASE Address(n) # NULL /\ Slots(t, blk)
    BY <1>2, <1>4, <1>5, <1>6, <1>7, <2>2, OneMoreHeld DEF blk
  <2>3. QED
    BY <1>8, <2>1, <2>2
<1>12. Owners'
  BY <1>5, <1>10, <1>11 DEF Owners
<1>13. HeadersOutside'
  BY <1>12, HeadersAreOutside, PTL
<1>14. ASSUME NEW u \in Tests, mm_rqs'[u] = mm_rqs[u]
       PROVE  Phase(u)'
  <2>1. \A k \in Real(u) : k \in intact[u] => k \in intact'[u]
    BY <1>2, <1>3, <1>13, <1>14, HeadersWritten
  <2>2. QED
    BY <1>2, <1>14, <2>1, SamePhase DEF Phases
<1>15. ASSUME Slots(t, blk)
       PROVE  Phase(t)'
  <2>1. /\ Len(mm_rqs'[t]) = Len(mm_rqs[t]) + 1
        /\ \A k \in 1 .. Len(mm_rqs[t]) : mm_rqs'[t][k] = mm_rqs[t][k]
        /\ mm_rqs'[t][Len(mm_rqs[t]) + 1] = blk
    BY <1>3, <1>7, <1>15, OneMore
  <2>2. Len(mm_rqs'[t]) <= MAX_BLOCKS
    <3>1. Len(mm_rqs[t]) < MAX_BLOCKS /\ Len(mm_rqs[t]) \in Nat
      BY <1>3, SlotFacts DEF Ask, More
    <3>2. QED
      BY <2>1, <3>1, ClientConstants
  <2>3. ASSUME NEW k \in 1 .. Len(mm_rqs'[t])
        PROVE  mm_rqs'[t][k].size \in 1 .. MaxMemory
    <3>1. Len(mm_rqs[t]) \in Nat
      BY <1>3, SlotFacts
    <3>2. k \in 1 .. Len(mm_rqs[t]) \/ k = Len(mm_rqs[t]) + 1
      BY <2>1, <3>1
    <3>3. CASE k \in 1 .. Len(mm_rqs[t])
      BY <2>1, <3>3 DEF Phases, Phase
    <3>4. CASE k = Len(mm_rqs[t]) + 1
      BY <1>4, <2>1, <3>4 DEF blk
    <3>5. QED
      BY <3>2, <3>3, <3>4
  <2>4. pc'[t] = "request" /\ i'[t] = 1
    BY <1>2 DEF Ask, Phases, Phase
  <2>5. QED
    BY <2>2, <2>3, <2>4 DEF Phase
<1>16. Phases'
  <2>1. ASSUME NEW u \in Tests
        PROVE  Phase(u)'
    <3>1. mm_rqs'[u] = mm_rqs[u] \/ (u = t /\ Slots(t, blk))
      BY <1>3, <1>7, <1>8, OneMore
    <3>2. QED
      BY <1>14, <1>15, <3>1
  <2>2. QED
    BY <2>1 DEF Phases
<1>17. QED
  BY <1>12, <1>16

(* A step that leaves the heap, the blocks and who holds them alone.       *)
HeapSame == UNCHANGED <<freeListVars, free_lists, taken, manager, mm_rqs, leaked, kills>>

LEMMA SameOwners ==
  ASSUME Owners, HeapSame,
         pc' \in [Tests -> {"request", "set", "wrecked", "check", "free", "error"}],
         i' \in [Tests -> 1 .. MAX_BLOCKS],
         intact' \in [Tests -> SUBSET (1 .. MAX_BLOCKS)]
  PROVE  Owners'
<1>1. /\ free_list' = free_list /\ allocated_list' = allocated_list
      /\ free_lists' = free_lists /\ taken' = taken
      /\ manager' = manager /\ mm_rqs' = mm_rqs /\ leaked' = leaked /\ kills' = kills
  BY DEF HeapSame, freeListVars
<1>2. ClientTypeOK'
  BY <1>1 DEF Owners, ClientTypeOK
<1>3. HeapInv'
  BY <1>1 DEF Owners, HeapInv, FreeListTypeOK, HeapTiled
<1>4. Holding'
  <2>1. Rooms' = Rooms /\ Refused' = Refused
    BY <1>1 DEF Rooms, Refused, NULL
  <2>2. \A u \in Tests : Real(u)' = Real(u)
    BY <1>1, <2>1 DEF Real
  <2>3. \A b : Roomy(b)' = Roomy(b)
    BY <2>1 DEF Roomy
  <2>4. QED
    BY <1>1, <2>1, <2>2, <2>3 DEF Owners, Holding, Roomy
<1>5. QED
  BY <1>2, <1>3, <1>4 DEF Owners

(* A step from one place of the program to another.                        *)
Pcs == {"request", "set", "wrecked", "check", "free", "error"}

LEMMA GoFacts ==
  ASSUME ClientTypeOK, NEW t \in Tests, NEW from, NEW to \in Pcs, Go(t, from, to)
  PROVE  /\ pc' \in [Tests -> Pcs] /\ pc[t] = from /\ pc'[t] = to
         /\ \A u \in Tests : u # t => pc'[u] = pc[u]
<1>1. pc \in [Tests -> Pcs]
  BY DEF ClientTypeOK, Pcs
<1>2. pc' = [pc EXCEPT ![t] = to] /\ pc[t] = from
  BY DEF Go
<1>3. QED
  BY <1>1, <1>2

LEMMA CounterFacts ==
  ASSUME ClientTypeOK, NEW t \in Tests, NEW n \in 1 .. MAX_BLOCKS, i' = [i EXCEPT ![t] = n]
  PROVE  /\ i' \in [Tests -> 1 .. MAX_BLOCKS] /\ i'[t] = n
         /\ \A u \in Tests : u # t => i'[u] = i[u]
BY DEF ClientTypeOK

LEMMA AskedKeeps ==
  ASSUME Owners, Phases, NEW t \in Tests, Asked(t)
  PROVE  Owners' /\ Phases'
<1>1. ~More(t) /\ Go(t, "request", "set") /\ HeapSame /\ i' = i /\ intact' = intact
  BY DEF Asked, HeapSame
<1>2. ClientTypeOK
  BY DEF Owners
<1>3. /\ pc' \in [Tests -> Pcs] /\ pc[t] = "request" /\ pc'[t] = "set"
      /\ \A u \in Tests : u # t => pc'[u] = pc[u]
  <2>1. "set" \in Pcs
    BY DEF Pcs
  <2>2. QED
    BY <1>1, <1>2, <2>1, GoFacts
<1>4. Owners'
  BY <1>1, <1>2, <1>3, SameOwners DEF ClientTypeOK, Pcs
<1>5. mm_rqs' = mm_rqs
  BY <1>1 DEF HeapSame
<1>6. ASSUME NEW u \in Tests, u # t
      PROVE  Phase(u)'
  BY <1>1, <1>3, <1>5, <1>6, SamePhase DEF Phases
<1>7. Phase(t)'
  <2>1. Len(mm_rqs[t]) >= 1 /\ Len(mm_rqs[t]) \in Nat
    BY <1>1, <1>2, EnoughIsSome, SlotFacts
  <2>2. Phase(t) /\ i[t] = 1
    BY <1>3 DEF Phases, Phase
  <2>3. i'[t] \in 1 .. Len(mm_rqs'[t]) /\ Len(mm_rqs'[t]) >= 1
    BY <1>1, <1>5, <2>1, <2>2
  <2>4. Real(t)' = Real(t)
    BY <1>5 DEF Real, Refused, NULL
  <2>5. \A k \in Real(t)' : ~(k < i'[t])
    <3>1. \A k \in Real(t) : k \in 1 .. Len(mm_rqs[t])
      BY DEF Real
    <3>2. i'[t] = 1
      BY <1>1, <2>2
    <3>3. QED
      BY <2>1, <2>4, <3>1, <3>2
  <2>6. /\ Len(mm_rqs'[t]) <= MAX_BLOCKS
        /\ \A k \in 1 .. Len(mm_rqs'[t]) : mm_rqs'[t][k].size \in 1 .. MaxMemory
    BY <1>5, <2>2 DEF Phase
  <2>7. QED
    BY <1>3, <2>3, <2>5, <2>6 DEF Phase
<1>8. QED
  BY <1>4, <1>6, <1>7 DEF Phases

(* A turn of a loop over the blocks, and what it means for the phase.      *)
LEMMA LoopFacts ==
  ASSUME ClientTypeOK, NEW t \in Tests, Phase(t), NEW from, NEW to \in Pcs, from \in {"set", "check"},
         Loop(t, from, to)
  PROVE  /\ pc' \in [Tests -> Pcs] /\ pc[t] = from
         /\ \A u \in Tests : u # t => pc'[u] = pc[u] /\ i'[u] = i[u]
         /\ i' \in [Tests -> 1 .. MAX_BLOCKS]
         /\ i[t] \in 1 .. Len(mm_rqs[t]) /\ Len(mm_rqs[t]) <= MAX_BLOCKS
         /\ \/ /\ pc'[t] = from /\ i'[t] = i[t] + 1 /\ i'[t] \in 1 .. Len(mm_rqs[t])
            \/ pc'[t] = to /\ i'[t] = 1 /\ i[t] = Len(mm_rqs[t])
<1>1. from \in Pcs
  BY DEF Pcs
<1>2. \/ i[t] < Len(mm_rqs[t]) /\ Go(t, from, from) /\ i' = [i EXCEPT ![t] = i[t] + 1]
      \/ ~(i[t] < Len(mm_rqs[t])) /\ Go(t, from, to) /\ i' = [i EXCEPT ![t] = 1]
  BY DEF Loop
<1>3. pc[t] = from
  BY <1>2 DEF Go
<1>4. i[t] \in 1 .. Len(mm_rqs[t]) /\ Len(mm_rqs[t]) <= MAX_BLOCKS /\ Len(mm_rqs[t]) \in Nat
  BY <1>3, SlotFacts DEF Phase
<1>5. CASE i[t] < Len(mm_rqs[t]) /\ Go(t, from, from) /\ i' = [i EXCEPT ![t] = i[t] + 1]
  <2>1. i[t] < Len(mm_rqs[t])
    BY <1>5
  <2>2. i[t] + 1 \in 1 .. MAX_BLOCKS /\ i[t] + 1 \in 1 .. Len(mm_rqs[t])
    BY <1>4, <2>1, ClientConstants
  <2>3. /\ pc' \in [Tests -> Pcs] /\ pc'[t] = from
        /\ \A u \in Tests : u # t => pc'[u] = pc[u]
    BY <1>1, <1>5, GoFacts
  <2>4. /\ i' \in [Tests -> 1 .. MAX_BLOCKS] /\ i'[t] = i[t] + 1
        /\ \A u \in Tests : u # t => i'[u] = i[u]
    BY <1>5, <2>2, CounterFacts
  <2>5. QED
    BY <1>3, <1>4, <2>2, <2>3, <2>4
<1>6. CASE ~(i[t] < Len(mm_rqs[t])) /\ Go(t, from, to) /\ i' = [i EXCEPT ![t] = 1]
  <2>1. ~(i[t] < Len(mm_rqs[t]))
    BY <1>6
  <2>2. 1 \in 1 .. MAX_BLOCKS /\ i[t] = Len(mm_rqs[t])
    BY <1>4, <2>1, ClientConstants
  <2>3. /\ pc' \in [Tests -> Pcs] /\ pc'[t] = to
        /\ \A u \in Tests : u # t => pc'[u] = pc[u]
    BY <1>6, GoFacts
  <2>4. /\ i' \in [Tests -> 1 .. MAX_BLOCKS] /\ i'[t] = 1
        /\ \A u \in Tests : u # t => i'[u] = i[u]
    BY <1>6, <2>2, CounterFacts
  <2>5. QED
    BY <1>3, <1>4, <2>2, <2>3, <2>4
<1>7. QED
  BY <1>2, <1>5, <1>6

LEMMA SetKeeps ==
  ASSUME Owners, Phases, NEW t \in Tests, Set(t)
  PROVE  Owners' /\ Phases'
<1> DEFINE W == {mm_rqs[t][i[t]]}
<1>1. /\ Loop(t, "set", "check") /\ HeapSame /\ ~Reaches(mm_rqs[t][i[t]])
      /\ intact' = [Survives(W) EXCEPT ![t] = @ \cup {i[t]}]
  BY DEF Set, HeapSame
<1>2. ClientTypeOK /\ Phase(t)
  BY DEF Owners, Phases
<1>3. /\ pc' \in [Tests -> Pcs] /\ pc[t] = "set"
      /\ \A u \in Tests : u # t => pc'[u] = pc[u] /\ i'[u] = i[u]
      /\ i' \in [Tests -> 1 .. MAX_BLOCKS]
      /\ i[t] \in 1 .. Len(mm_rqs[t]) /\ Len(mm_rqs[t]) <= MAX_BLOCKS
      /\ \/ /\ pc'[t] = "set" /\ i'[t] = i[t] + 1 /\ i'[t] \in 1 .. Len(mm_rqs[t])
         \/ pc'[t] = "check" /\ i'[t] = 1 /\ i[t] = Len(mm_rqs[t])
  <2>1. "check" \in Pcs /\ "set" \in {"set", "check"}
    BY DEF Pcs
  <2>2. QED
    BY <1>1, <1>2, <2>1, LoopFacts
<1>4. Survives(W) \in [Tests -> SUBSET (1 .. MAX_BLOCKS)]
  BY <1>2, SurvivesFacts
<1> DEFINE left == Survives(W)
<1>5. /\ intact' \in [Tests -> SUBSET (1 .. MAX_BLOCKS)]
      /\ intact'[t] = left[t] \cup {i[t]} /\ \A u \in Tests : u # t => intact'[u] = left[u]
  <2>1. i[t] \in 1 .. MAX_BLOCKS
    BY <1>2 DEF ClientTypeOK
  <2> HIDE DEF left
  <2>2. QED
    BY <1>1, <1>4, <2>1 DEF left
<1>6. ASSUME NEW u \in Tests, NEW k \in Real(u), k \in intact[u]
      PROVE  k \in intact'[u]
  <2>1. CASE u = t /\ k = i[t]
    BY <1>5, <2>1
  <2>2. CASE ~(u = t /\ k = i[t])
    <3>1. ~Overlap(mm_rqs[u][k], mm_rqs[t][i[t]])
      BY <1>1, <1>3, <2>2, ApartSlots
    <3>2. left[u] = {m \in intact[u] : \A b \in W : ~Overlap(mm_rqs[u][m], b)}
      BY <1>2, SurvivesFacts
    <3>3. k \in left[u]
      BY <1>6, <3>1, <3>2
    <3> HIDE DEF left
    <3>4. QED
      BY <1>5, <3>3
  <2>3. QED
    BY <2>1, <2>2
<1>7. Owners'
  BY <1>1, <1>3, <1>5, SameOwners DEF Pcs
<1>8. mm_rqs' = mm_rqs
  BY <1>1 DEF HeapSame
<1>9. ASSUME NEW u \in Tests, u # t
      PROVE  Phase(u)'
  BY <1>3, <1>6, <1>8, <1>9, SamePhase DEF Phases
<1> HIDE DEF left, W
<1>10. Phase(t)'
  <2>1. Real(t)' = Real(t)
    BY <1>8 DEF Real, Refused, NULL
  <2>2. /\ Len(mm_rqs'[t]) <= MAX_BLOCKS
        /\ \A k \in 1 .. Len(mm_rqs'[t]) : mm_rqs'[t][k].size \in 1 .. MaxMemory
    BY <1>2, <1>8 DEF Phase
  <2>3. Len(mm_rqs[t]) \in Nat /\ \A k \in Real(t) : k \in 1 .. Len(mm_rqs[t])
    BY <1>2, SlotFacts
  <2>4. \A k \in Real(t) : k < i[t] \/ k = i[t] => k \in intact'[t]
    BY <1>2, <1>3, <1>5, <1>6 DEF Phase
  <2>5. Len(mm_rqs'[t]) >= 1 /\ 1 \in 1 .. Len(mm_rqs'[t])
    BY <1>3, <1>8, <2>3
  <2>6. CASE pc'[t] = "set" /\ i'[t] = i[t] + 1 /\ i'[t] \in 1 .. Len(mm_rqs[t])
    <3>1. i'[t] = i[t] + 1 /\ i[t] \in Nat
      BY <1>3, <2>6
    <3>2. \A k \in Real(t) : k < i'[t] => k < i[t] \/ k = i[t]
      BY <2>3, <3>1
    <3>3. \A k \in Real(t)' : k < i'[t] => k \in intact'[t]
      BY <2>1, <2>4, <3>2
    <3>4. pc'[t] = "set" /\ i'[t] \in 1 .. Len(mm_rqs'[t])
      BY <1>8, <2>6
    <3>5. QED
      BY <2>2, <2>5, <3>3, <3>4 DEF Phase
  <2>7. CASE pc'[t] = "check" /\ i'[t] = 1 /\ i[t] = Len(mm_rqs[t])
    <3>1. i[t] = Len(mm_rqs[t])
      BY <2>7
    <3>2. \A k \in Real(t) : k < i[t] \/ k = i[t]
      BY <2>3, <3>1
    <3>3. Real(t)' \subseteq intact'[t]
      BY <2>1, <2>4, <3>2
    <3>4. pc'[t] = "check" /\ i'[t] \in 1 .. Len(mm_rqs'[t])
      BY <2>5, <2>7
    <3>5. QED
      BY <2>2, <2>5, <3>3, <3>4 DEF Phase
  <2>8. QED
    BY <1>3, <2>6, <2>7
<1>11. QED
  BY <1>7, <1>9, <1>10 DEF Phases

(* Where the model stops nothing has changed but the places of the tests.  *)
LEMMA WreckKeeps ==
  ASSUME Owners, Phases, NEW t \in Tests, Wreck(t)
  PROVE  Owners' /\ Phases'
<1>1. /\ HeapSame /\ i' = i /\ intact' = intact /\ mm_rqs' = mm_rqs
      /\ pc' = [u \in Tests |-> "wrecked"]
  BY DEF Wreck, HeapSame
<1>2. Owners'
  BY <1>1, SameOwners DEF Owners, ClientTypeOK
<1>3. ASSUME NEW u \in Tests
      PROVE  Phase(u)'
  <2>1. Phase(u) /\ pc'[u] = "wrecked"
    BY <1>1 DEF Phases
  <2>2. QED
    BY <1>1, <2>1 DEF Phase
<1>4. QED
  BY <1>2, <1>3 DEF Phases

LEMMA CheckKeeps ==
  ASSUME Owners, Phases, NEW t \in Tests, Check(t)
  PROVE  Owners' /\ Phases'
<1>1. /\ IF i[t] \in intact[t] THEN Loop(t, "check", "free") ELSE Go(t, "check", "error") /\ i' = i
      /\ HeapSame
      /\ intact' = IF pc'[t] = "free" THEN [intact EXCEPT ![t] = {}] ELSE intact
  BY DEF Check, HeapSame
<1>2. ClientTypeOK /\ Phase(t)
  BY DEF Owners, Phases
<1>3. mm_rqs' = mm_rqs
  BY <1>1 DEF HeapSame
<1>4. pc[t] = "check"
  BY <1>1 DEF Loop, Go
<1>5. /\ Real(t) \subseteq intact[t] /\ i[t] \in 1 .. Len(mm_rqs[t])
      /\ Len(mm_rqs[t]) >= 1 /\ Len(mm_rqs[t]) <= MAX_BLOCKS
  BY <1>2, <1>4 DEF Phase
<1>6. /\ Real(t)' = Real(t)
      /\ Len(mm_rqs'[t]) >= 1 /\ Len(mm_rqs'[t]) <= MAX_BLOCKS
      /\ \A k \in 1 .. Len(mm_rqs'[t]) : mm_rqs'[t][k].size \in 1 .. MaxMemory
  BY <1>2, <1>3, <1>5 DEF Real, Refused, NULL, Phase
<1>7. intact' \in [Tests -> SUBSET (1 .. MAX_BLOCKS)]
      /\ \A u \in Tests : u # t => intact'[u] = intact[u]
  <2>1. intact \in [Tests -> SUBSET (1 .. MAX_BLOCKS)]
    BY <1>2 DEF ClientTypeOK
  <2>2. QED
    BY <1>1, <2>1
<1>8. /\ pc' \in [Tests -> Pcs] /\ i' \in [Tests -> 1 .. MAX_BLOCKS]
      /\ \A u \in Tests : u # t => pc'[u] = pc[u] /\ i'[u] = i[u]
      /\ Phase(t)'
  <2>1. CASE i[t] \in intact[t]
    <3>1. "free" \in Pcs /\ "check" \in {"set", "check"}
      BY DEF Pcs
    <3>2. Loop(t, "check", "free")
      BY <1>1, <2>1
    <3>3. /\ pc' \in [Tests -> Pcs]
          /\ \A u \in Tests : u # t => pc'[u] = pc[u] /\ i'[u] = i[u]
          /\ i' \in [Tests -> 1 .. MAX_BLOCKS]
          /\ \/ pc'[t] = "check" /\ i'[t] = i[t] + 1 /\ i'[t] \in 1 .. Len(mm_rqs[t])
             \/ pc'[t] = "free" /\ i'[t] = 1
      BY <1>2, <3>1, <3>2, LoopFacts
    <3>4. CASE pc'[t] = "check" /\ i'[t] \in 1 .. Len(mm_rqs[t])
      <4>1. intact' = intact
        BY <1>1, <3>4
      <4>2. pc'[t] = "check" /\ i'[t] \in 1 .. Len(mm_rqs'[t]) /\ Real(t)' \subseteq intact'[t]
        BY <1>3, <1>5, <1>6, <3>4, <4>1
      <4>3. Phase(t)'
        BY <1>6, <4>2 DEF Phase
      <4>4. QED
        BY <3>3, <4>3
    <3>5. CASE pc'[t] = "free" /\ i'[t] = 1
      <4>1. Phase(t)'
        BY <1>6, <3>5 DEF Phase
      <4>2. QED
        BY <3>3, <4>1
    <3>6. QED
      BY <3>3, <3>4, <3>5
  <2>2. CASE i[t] \notin intact[t]
    <3>1. "error" \in Pcs
      BY DEF Pcs
    <3>2. Go(t, "check", "error") /\ i' = i
      BY <1>1, <2>2
    <3>3. /\ pc' \in [Tests -> Pcs] /\ pc'[t] = "error"
          /\ \A u \in Tests : u # t => pc'[u] = pc[u]
      BY <1>2, <3>1, <3>2, GoFacts
    <3>4. i' \in [Tests -> 1 .. MAX_BLOCKS]
      BY <1>2, <3>2 DEF ClientTypeOK
    <3>5. Real(t)' # 1 .. Len(mm_rqs'[t])
      BY <1>3, <1>5, <1>6, <2>2
    <3>6. Phase(t)'
      BY <1>6, <3>3, <3>5 DEF Phase
    <3>7. QED
      BY <3>2, <3>3, <3>4, <3>6
  <2>3. QED
    BY <2>1, <2>2
<1>9. Owners'
  BY <1>1, <1>7, <1>8, SameOwners DEF Pcs
<1>10. ASSUME NEW u \in Tests, u # t
       PROVE  Phase(u)'
  BY <1>3, <1>7, <1>8, <1>10, SamePhase DEF Phases
<1>11. QED
  BY <1>8, <1>9, <1>10 DEF Phases

(* A test that is killed keeps its blocks for ever.                        *)
LEMMA RestartKeeps ==
  ASSUME Owners, Phases, NEW t \in Tests, Restart(t)
  PROVE  Owners' /\ Phases'
<1>1. /\ ClientTypeOK /\ HeapInv /\ Holding /\ MAX_BLOCKS \in Nat \ {0}
      /\ kills \in 0 .. MaxKills /\ leaked \in SUBSET [address : Nat, size : Request]
  BY ClientConstants DEF Owners, ClientTypeOK
<1>2. /\ leaked' = leaked \cup Owns(t) /\ pc' = [pc EXCEPT ![t] = "request"]
      /\ mm_rqs' = [mm_rqs EXCEPT ![t] = <<>>] /\ intact' = [intact EXCEPT ![t] = {}]
      /\ i' = [i EXCEPT ![t] = 1] /\ manager' = manager
      /\ free_list' = free_list /\ allocated_list' = allocated_list
      /\ free_lists' = free_lists /\ taken' = taken
  BY DEF Restart, freeListVars
<1>3. kills' \in 0 .. MaxKills
  <2>1. kills < MaxKills /\ kills' = kills + 1
    BY DEF Restart
  <2>2. QED
    BY <1>1, <2>1, ClientConstants
<1>4. /\ pc' \in [Tests -> Pcs] /\ pc'[t] = "request"
      /\ \A u \in Tests : u # t => pc'[u] = pc[u]
  <2>1. pc \in [Tests -> Pcs]
    BY <1>1 DEF ClientTypeOK, Pcs
  <2>2. QED
    BY <1>2, <2>1 DEF Pcs
<1>5. /\ mm_rqs' \in [Tests -> Seq([address : Nat, size : Request])] /\ mm_rqs'[t] = <<>>
      /\ \A u \in Tests : u # t => mm_rqs'[u] = mm_rqs[u]
  <2>1. mm_rqs \in [Tests -> Seq([address : Nat, size : Request])]
    BY <1>1 DEF ClientTypeOK
  <2>2. mm_rqs' = [mm_rqs EXCEPT ![t] = <<>>]
    BY <1>2
  <2>3. <<>> \in Seq([address : Nat, size : Request])
    OBVIOUS
  <2> DEFINE T == Seq([address : Nat, size : Request])
  <2>4. mm_rqs \in [Tests -> T] /\ <<>> \in T
    BY <2>1, <2>3
  <2> HIDE DEF T
  <2>5. mm_rqs' \in [Tests -> T] /\ mm_rqs'[t] = <<>> /\ \A u \in Tests : u # t => mm_rqs'[u] = mm_rqs[u]
    BY <2>2, <2>4
  <2>6. QED
    BY <2>5 DEF T
<1>6. /\ intact' \in [Tests -> SUBSET (1 .. MAX_BLOCKS)]
      /\ \A u \in Tests : u # t => intact'[u] = intact[u]
  <2>1. intact \in [Tests -> SUBSET (1 .. MAX_BLOCKS)]
    BY <1>1 DEF ClientTypeOK
  <2>2. QED
    BY <1>2, <2>1
<1>7. /\ i' \in [Tests -> 1 .. MAX_BLOCKS] /\ i'[t] = 1
      /\ \A u \in Tests : u # t => i'[u] = i[u]
  <2>1. 1 \in 1 .. MAX_BLOCKS
    BY <1>1
  <2>2. QED
    BY <1>1, <1>2, <2>1, CounterFacts
<1>8. ClientTypeOK'
  <2>1. Owns(t) \subseteq [address : Nat, size : Request]
    BY <1>1, SlotFacts DEF Owns
  <2>2. leaked' \in SUBSET [address : Nat, size : Request]
    BY <1>1, <1>2, <2>1
  <2>3. manager' \in Managers
    BY <1>1, <1>2 DEF ClientTypeOK
  <2>4. QED
    BY <1>3, <1>4, <1>5, <1>6, <1>7, <2>2, <2>3 DEF ClientTypeOK, Pcs
<1>9. HeapInv'
  BY <1>1, <1>2 DEF HeapInv, FreeListTypeOK, HeapTiled
<1>10. /\ Real(t)' = {} /\ \A u \in Tests : u # t => Real(u)' = Real(u)
       /\ Refused' = Refused /\ Rooms' = Rooms
  <2>1. Len(<<>>) = 0
    OBVIOUS
  <2>2. QED
    BY <1>2, <1>5, <2>1 DEF Real, Refused, NULL, Rooms
<1>11. ASSUME NEW b \in Owns(t), b.address # Refused
       PROVE  \E k \in Real(t) : b = mm_rqs[t][k]
  BY <1>11 DEF Owns, Real
<1>12. \A b : Roomy(b)' = Roomy(b)
  BY <1>10 DEF Roomy
<1>13. \A u \in Tests : \A k \in Real(u)' : u # t /\ k \in Real(u) /\ mm_rqs'[u][k] = mm_rqs[u][k]
  BY <1>5, <1>10
<1>14. Holding'
  <2>1. \A u \in Tests : \A k \in Real(u)' : Roomy(mm_rqs[u][k])'
    BY <1>1, <1>10, <1>13 DEF Holding, Roomy
  <2>2. \A b \in leaked' : b.address # Refused => Roomy(b)'
    BY <1>1, <1>2, <1>11, <1>12 DEF Holding
  <2>3. \A u, w \in Tests : \A k \in Real(u)', m \in Real(w)' :
          mm_rqs'[u][k].address = mm_rqs'[w][m].address => u = w /\ k = m
    BY <1>1, <1>13 DEF Holding
  <2>4. ASSUME NEW u \in Tests, NEW k \in Real(u)', NEW b \in leaked'
        PROVE  mm_rqs'[u][k].address # b.address
    <3>1. u # t /\ k \in Real(u) /\ mm_rqs'[u][k] = mm_rqs[u][k] /\ mm_rqs[u][k].address # Refused
      BY <1>13 DEF Real
    <3>2. CASE b \in leaked
      BY <1>1, <3>1, <3>2 DEF Holding
    <3>3. CASE b \in Owns(t) /\ b.address # Refused
      BY <1>1, <1>11, <3>1, <3>3 DEF Holding
    <3>4. CASE b.address = Refused
      BY <3>1, <3>4
    <3>5. QED
      BY <1>2, <3>2, <3>3, <3>4
  <2>5. ASSUME NEW b \in leaked', NEW c \in leaked', b.address # Refused, b.address = c.address
        PROVE  b = c
    <3>1. CASE b \in leaked /\ c \in leaked
      BY <1>1, <2>5, <3>1 DEF Holding
    <3>2. CASE b \in Owns(t) /\ c \in leaked
      BY <1>1, <1>11, <2>5, <3>2 DEF Holding
    <3>3. CASE b \in leaked /\ c \in Owns(t)
      BY <1>1, <1>11, <2>5, <3>3 DEF Holding
    <3>4. CASE b \in Owns(t) /\ c \in Owns(t)
      BY <1>1, <1>11, <2>5, <3>4 DEF Holding
    <3>5. QED
      BY <1>2, <3>1, <3>2, <3>3, <3>4
  <2>6. QED
    BY <1>10, <2>1, <2>2, <2>3, <2>4, <2>5 DEF Holding
<1>15. ASSUME NEW u \in Tests, u # t
       PROVE  Phase(u)'
  BY <1>4, <1>5, <1>6, <1>7, <1>15, SamePhase DEF Phases
<1>16. Phase(t)'
  <2>1. Len(mm_rqs'[t]) = 0
    BY <1>5
  <2>2. Len(mm_rqs'[t]) <= MAX_BLOCKS /\ 1 .. Len(mm_rqs'[t]) = {}
    BY <1>1, <2>1
  <2>3. QED
    BY <1>4, <1>7, <2>2 DEF Phase
<1>17. QED
  BY <1>8, <1>9, <1>14, <1>15, <1>16 DEF Owners, Phases

(* One block less for a test that frees.                                   *)
LEMMA OneLess ==
  ASSUME ClientTypeOK, NEW t \in Tests, Len(mm_rqs[t]) >= 1, mm_rqs' = [mm_rqs EXCEPT ![t] = Tail(@)]
  PROVE  /\ mm_rqs' \in [Tests -> Seq([address : Nat, size : Request])]
         /\ \A u \in Tests : u # t => mm_rqs'[u] = mm_rqs[u]
         /\ Len(mm_rqs'[t]) = Len(mm_rqs[t]) - 1
         /\ \A k \in 1 .. Len(mm_rqs'[t]) : /\ k + 1 \in 1 .. Len(mm_rqs[t])
                                            /\ mm_rqs'[t][k] = mm_rqs[t][k + 1]
<1> DEFINE T == Seq([address : Nat, size : Request])
           s == mm_rqs[t]
<1>1. mm_rqs \in [Tests -> T] /\ s \in T /\ Len(s) \in Nat
  BY SlotFacts DEF ClientTypeOK
<1>2. s # <<>>
  BY <1>1
<1>3. /\ Tail(s) \in T /\ Len(Tail(s)) = Len(s) - 1
      /\ \A k \in 1 .. Len(Tail(s)) : Tail(s)[k] = s[k + 1]
  BY <1>1, <1>2, HeadTailProperties
<1>4. mm_rqs' = [mm_rqs EXCEPT ![t] = Tail(s)]
  OBVIOUS
<1> HIDE DEF T, s
<1>5. /\ mm_rqs' \in [Tests -> T] /\ mm_rqs'[t] = Tail(s)
      /\ \A u \in Tests : u # t => mm_rqs'[u] = mm_rqs[u]
  BY <1>1, <1>3, <1>4
<1>6. \A k \in 1 .. Len(Tail(s)) : k + 1 \in 1 .. Len(s)
  BY <1>1, <1>3
<1>7. QED
  BY <1>3, <1>5, <1>6 DEF s, T

(* The room of the block that is freed goes, and no other.                 *)
LEMMA OthersKeepRooms ==
  ASSUME Owners, NEW t \in Tests, 1 \in 1 .. Len(mm_rqs[t]), manager' = manager,
         sys_free(mm_rqs[t][1].address)
  PROVE  /\ HeapInv'
         /\ \A b : Roomy(b) /\ b.address # mm_rqs[t][1].address => Roomy(b)'
<1> DEFINE ptr == mm_rqs[t][1].address
<1>1. HeapInv /\ manager \in Managers
  BY DEF Owners, ClientTypeOK
<1>2. /\ HeapInv'
      /\ ptr = Refused => Rooms' = Rooms
      /\ \A r \in Rooms : ptr = r.address => Rooms' = Rooms \ {r}
  BY <1>1, FreeRooms
<1>3. CASE ptr = Refused
  BY <1>2, <1>3 DEF Roomy
<1>4. CASE ptr # Refused
  <2>1. 1 \in Real(t)
    BY <1>4 DEF Real
  <2>2. PICK r \in Rooms : r.address = ptr
    BY <2>1 DEF Owners, Holding, Roomy
  <2>3. Rooms' = Rooms \ {r}
    BY <1>2, <2>2
  <2> HIDE DEF ptr
  <2>4. \A b : Roomy(b) /\ b.address # ptr => Roomy(b)'
    BY <2>2, <2>3 DEF Roomy
  <2>5. QED
    BY <1>2, <2>4 DEF ptr
<1>5. QED
  BY <1>3, <1>4

LEMMA FreeKeeps ==
  ASSUME Owners, Phases, NEW t \in Tests, Free(t)
  PROVE  Owners' /\ Phases'
<1> DEFINE ptr == mm_rqs[t][1].address
           old(u, k) == IF u = t THEN k + 1 ELSE k
<1>1. /\ IF Len(mm_rqs[t]) > 1 THEN Go(t, "free", "free") ELSE Go(t, "free", "request")
      /\ sys_free(ptr) /\ mm_rqs' = [mm_rqs EXCEPT ![t] = Tail(@)]
      /\ manager' = manager /\ i' = i /\ leaked' = leaked /\ kills' = kills
      /\ intact' = Survives(Headers')
  BY DEF Free
<1>2. ClientTypeOK /\ HeapInv /\ Holding /\ manager \in Managers /\ Phase(t)
  BY DEF Owners, ClientTypeOK, Phases
<1>3. pc[t] = "free"
  BY <1>1 DEF Go
<1>4. /\ Len(mm_rqs[t]) >= 1 /\ Len(mm_rqs[t]) \in Nat /\ Len(mm_rqs[t]) <= MAX_BLOCKS
      /\ 1 \in 1 .. Len(mm_rqs[t]) /\ i[t] = 1
  BY <1>2, <1>3, SlotFacts DEF Phase
<1>5. /\ mm_rqs' \in [Tests -> Seq([address : Nat, size : Request])]
      /\ \A u \in Tests : u # t => mm_rqs'[u] = mm_rqs[u]
      /\ Len(mm_rqs'[t]) = Len(mm_rqs[t]) - 1
      /\ \A k \in 1 .. Len(mm_rqs'[t]) : /\ k + 1 \in 1 .. Len(mm_rqs[t])
                                         /\ mm_rqs'[t][k] = mm_rqs[t][k + 1]
  BY <1>1, <1>2, <1>4, OneLess
<1>6. /\ HeapInv'
      /\ \A b : Roomy(b) /\ b.address # ptr => Roomy(b)'
  BY <1>1, <1>4, OthersKeepRooms
<1>7. Refused' = Refused
  BY DEF Refused, NULL
<1>8. /\ pc' \in [Tests -> Pcs] /\ \A u \in Tests : u # t => pc'[u] = pc[u]
      /\ \/ pc'[t] = "free" /\ Len(mm_rqs'[t]) >= 1
         \/ pc'[t] = "request"
  <2>1. "free" \in Pcs /\ "request" \in Pcs
    BY DEF Pcs
  <2>2. CASE Go(t, "free", "free") /\ Len(mm_rqs[t]) > 1
    <3>1. /\ pc' \in [Tests -> Pcs] /\ \A u \in Tests : u # t => pc'[u] = pc[u]
          /\ pc'[t] = "free"
      BY <1>2, <2>1, <2>2, GoFacts
    <3>2. Len(mm_rqs[t]) > 1
      BY <2>2
    <3>3. Len(mm_rqs'[t]) >= 1
      BY <1>4, <1>5, <3>2
    <3>4. QED
      BY <3>1, <3>3
  <2>3. CASE Go(t, "free", "request")
    BY <1>2, <2>1, <2>3, GoFacts
  <2>4. QED
    BY <1>1, <2>2, <2>3
<1>9. ClientTypeOK'
  <2>1. intact' \in [Tests -> SUBSET (1 .. MAX_BLOCKS)]
    BY <1>1, <1>2, SurvivesFacts
  <2>2. QED
    BY <1>1, <1>2, <1>5, <1>8, <2>1 DEF ClientTypeOK, Pcs
<1>10. ASSUME NEW u \in Tests, NEW k \in Real(u)'
       PROVE  /\ old(u, k) \in Real(u) /\ mm_rqs'[u][k] = mm_rqs[u][old(u, k)]
              /\ ~(u = t /\ old(u, k) = 1) /\ k \in Int
  <2>1. k \in 1 .. Len(mm_rqs'[u]) /\ mm_rqs'[u][k].address # Refused
    BY <1>7 DEF Real
  <2>2. CASE u # t
    <3>1. mm_rqs'[u] = mm_rqs[u]
      BY <1>5, <2>2
    <3>2. QED
      BY <2>1, <2>2, <3>1 DEF Real
  <2>3. CASE u = t
    <3>1. k + 1 \in 1 .. Len(mm_rqs[t]) /\ mm_rqs'[t][k] = mm_rqs[t][k + 1] /\ k >= 1 /\ k \in Int
      BY <1>5, <2>1, <2>3
    <3>2. k + 1 # 1
      BY <3>1
    <3>3. QED
      BY <2>1, <2>3, <3>1, <3>2 DEF Real
  <2>4. QED
    BY <2>2, <2>3
<1>11. \A u \in Tests : \A k, m \in Int : old(u, k) = old(u, m) => k = m
  OBVIOUS
<1>12. ASSUME NEW u \in Tests, NEW k \in Real(u), ~(u = t /\ k = 1)
       PROVE  mm_rqs[u][k].address # ptr
  <2>1. CASE ptr = Refused
    BY <2>1 DEF Real
  <2>2. CASE ptr # Refused
    <3>1. 1 \in Real(t)
      BY <1>4, <2>2 DEF Real
    <3>2. QED
      BY <1>2, <1>12, <3>1 DEF Holding
  <2>3. QED
    BY <2>1, <2>2
<1>13. ASSUME NEW b \in leaked, b.address # Refused
       PROVE  b.address # ptr
  <2>1. CASE ptr = Refused
    BY <1>13, <2>1
  <2>2. CASE ptr # Refused
    <3>1. 1 \in Real(t)
      BY <1>4, <2>2 DEF Real
    <3>2. QED
      BY <1>2, <3>1 DEF Holding
  <2>3. QED
    BY <2>1, <2>2
<1> HIDE DEF old, ptr
<1>14. Holding'
  <2>1. \A u \in Tests : \A k \in Real(u)' : Roomy(mm_rqs[u][k])'
    <3>1. SUFFICES ASSUME NEW u \in Tests, NEW k \in Real(u)'
                   PROVE  Roomy(mm_rqs[u][k])'
      OBVIOUS
    <3>2. /\ old(u, k) \in Real(u) /\ mm_rqs'[u][k] = mm_rqs[u][old(u, k)]
          /\ mm_rqs[u][old(u, k)].address # ptr
      BY <1>10, <1>12
    <3>3. Roomy(mm_rqs[u][old(u, k)])
      BY <1>2, <3>2 DEF Holding
    <3>4. \E r \in Rooms' : r.address = mm_rqs[u][old(u, k)].address
                            /\ mm_rqs[u][old(u, k)].size <= r.size
      BY <1>6, <3>2, <3>3 DEF Roomy
    <3>5. QED
      BY <3>2, <3>4 DEF Roomy
  <2>2. \A b \in leaked' : b.address # Refused => Roomy(b)'
    <3>1. SUFFICES ASSUME NEW b \in leaked, b.address # Refused
                   PROVE  \E r \in Rooms' : r.address = b.address /\ b.size <= r.size
      BY <1>1 DEF Roomy
    <3>2. Roomy(b) /\ b.address # ptr
      BY <1>2, <1>13, <3>1 DEF Holding
    <3>3. QED
      BY <1>6, <3>2 DEF Roomy
  <2>3. \A u, w \in Tests : \A k \in Real(u)', m \in Real(w)' :
          mm_rqs'[u][k].address = mm_rqs'[w][m].address => u = w /\ k = m
    <3>1. SUFFICES ASSUME NEW u \in Tests, NEW w \in Tests, NEW k \in Real(u)', NEW m \in Real(w)',
                          mm_rqs'[u][k].address = mm_rqs'[w][m].address
                   PROVE  u = w /\ k = m
      OBVIOUS
    <3>2. /\ old(u, k) \in Real(u) /\ mm_rqs'[u][k] = mm_rqs[u][old(u, k)] /\ k \in Int
          /\ old(w, m) \in Real(w) /\ mm_rqs'[w][m] = mm_rqs[w][old(w, m)] /\ m \in Int
      BY <1>10
    <3>3. u = w /\ old(u, k) = old(w, m)
      BY <1>2, <3>1, <3>2 DEF Holding
    <3>4. QED
      BY <1>11, <3>2, <3>3
  <2>4. \A u \in Tests : \A k \in Real(u)' : \A b \in leaked' : mm_rqs'[u][k].address # b.address
    <3>1. SUFFICES ASSUME NEW u \in Tests, NEW k \in Real(u)', NEW b \in leaked
                   PROVE  mm_rqs'[u][k].address # b.address
      BY <1>1
    <3>2. old(u, k) \in Real(u) /\ mm_rqs'[u][k] = mm_rqs[u][old(u, k)]
      BY <1>10
    <3>3. QED
      BY <1>2, <3>2 DEF Holding
  <2>5. \A b, c \in leaked' : b.address # Refused /\ b.address = c.address => b = c
    BY <1>1, <1>2 DEF Holding
  <2>6. QED
    BY <1>7, <2>1, <2>2, <2>3, <2>4, <2>5 DEF Holding
<1>15. Owners'
  BY <1>6, <1>9, <1>14 DEF Owners
<1>16. HeadersOutside'
  BY <1>15, HeadersAreOutside, PTL
<1>17. ASSUME NEW u \in Tests, u # t
       PROVE  Phase(u)'
  <2>1. mm_rqs'[u] = mm_rqs[u]
    BY <1>5, <1>17
  <2>2. \A k \in Real(u) : k \in intact[u] => k \in intact'[u]
    BY <1>1, <1>2, <1>16, <2>1, HeadersWritten
  <2>3. QED
    BY <1>1, <1>8, <1>17, <2>1, <2>2, SamePhase DEF Phases
<1>18. Phase(t)'
  <2>1. Len(mm_rqs'[t]) <= MAX_BLOCKS
    BY <1>4, <1>5, ClientConstants
  <2>2. \A k \in 1 .. Len(mm_rqs'[t]) : mm_rqs'[t][k].size \in 1 .. MaxMemory
    BY <1>2, <1>5 DEF Phase
  <2>3. i'[t] = 1
    BY <1>1, <1>4
  <2>4. QED
    BY <1>8, <2>1, <2>2, <2>3 DEF Phase
<1>19. QED
  BY <1>15, <1>17, <1>18 DEF Phases

-----------------------------------------------------------------------------
(* The theorems.                                                           *)

LEMMA InitClients == Init => Owners /\ Phases
<1> SUFFICES ASSUME Init
             PROVE  Owners /\ Phases
  OBVIOUS
<1>1. /\ memInit /\ B!memInit /\ manager \in Managers
      /\ pc = [t \in Tests |-> "request"] /\ mm_rqs = [t \in Tests |-> <<>>]
      /\ i = [t \in Tests |-> 1] /\ intact = [t \in Tests |-> {}]
      /\ leaked = {} /\ kills = 0
  BY DEF Init
<1>2. MAX_BLOCKS \in Nat \ {0} /\ MaxKills \in Nat
  BY ClientConstants
<1>3. ClientTypeOK
  <2> DEFINE T == Seq([address : Nat, size : Request])
  <2>1. <<>> \in T /\ 1 \in 1 .. MAX_BLOCKS /\ kills \in 0 .. MaxKills
    BY <1>1, <1>2
  <2> HIDE DEF T
  <2>2. mm_rqs \in [Tests -> T]
    BY <1>1, <2>1
  <2>3. i \in [Tests -> 1 .. MAX_BLOCKS] /\ intact \in [Tests -> SUBSET (1 .. MAX_BLOCKS)]
    BY <1>1, <2>1
  <2>4. pc \in [Tests -> {"request", "set", "wrecked", "check", "free", "error"}]
    BY <1>1
  <2>5. QED
    BY <1>1, <2>1, <2>2, <2>3, <2>4 DEF ClientTypeOK, T
<1>4. HeapInv
  BY <1>1, InitTiled, InitGaps, InitBuddies DEF HeapInv
<1>5. \A t \in Tests : mm_rqs[t] = <<>> /\ Len(mm_rqs[t]) = 0 /\ Real(t) = {}
  BY <1>1 DEF Real
<1>6. Holding
  BY <1>1, <1>5 DEF Holding
<1>7. Phases
  <2>1. SUFFICES ASSUME NEW t \in Tests
                 PROVE  Phase(t)
    BY DEF Phases
  <2>2. pc[t] = "request" /\ i[t] = 1
    BY <1>1
  <2>3. Len(mm_rqs[t]) <= MAX_BLOCKS /\ 1 .. Len(mm_rqs[t]) = {}
    BY <1>2, <1>5
  <2>4. QED
    BY <2>2, <2>3 DEF Phase
<1>8. QED
  BY <1>3, <1>4, <1>6, <1>7 DEF Owners

LEMMA NextKeeps == Owners /\ Phases /\ [Next]_vars => Owners' /\ Phases'
<1> SUFFICES ASSUME Owners, Phases, [Next]_vars
             PROVE  Owners' /\ Phases'
  OBVIOUS
<1>1. CASE UNCHANGED vars
  <2>1. HeapSame /\ pc' = pc /\ i' = i /\ intact' = intact /\ mm_rqs' = mm_rqs
    BY <1>1 DEF vars, clients, HeapSame
  <2>2. Owners'
    BY <2>1, SameOwners DEF Owners, ClientTypeOK
  <2>3. \A t \in Tests : Phase(t)'
    BY <2>1, SamePhase DEF Phases
  <2>4. QED
    BY <2>2, <2>3 DEF Phases
<1>2. ASSUME NEW t \in Tests,
             Ask(t) \/ Asked(t) \/ Set(t) \/ Wreck(t) \/ Check(t) \/ Free(t) \/ Restart(t)
      PROVE  Owners' /\ Phases'
  BY <1>2, AskKeeps, AskedKeeps, SetKeeps, WreckKeeps, CheckKeeps, FreeKeeps, RestartKeeps
<1>3. QED
  BY <1>1, <1>2 DEF Next

LEMMA ClientsInvariant == Spec => [](Owners /\ Phases)
BY InitClients, NextKeeps, PTL DEF Spec

(* Every variable of test_mm() and of the two managers keeps its type.     *)
THEOREM MemoryTyped == Spec => []TypeOK
<1>1. Owners /\ Phases => TypeOK
  <2>1. SUFFICES ASSUME Owners
                 PROVE  TypeOK
    OBVIOUS
  <2>2. ClientTypeOK /\ FreeListTypeOK /\ BuddyInv(free_lists, taken)
    BY <2>1 DEF Owners, HeapInv
  <2>3. free_lists \in [0 .. MAX_EXP -> Seq(Nat)] /\ taken \subseteq [addr : Nat, level : 0 .. MAX_EXP]
    BY <2>2 DEF BuddyInv, ListsOK, BuddyBlock
  <2>4. QED
    BY <2>2, <2>3 DEF TypeOK, ClientTypeOK
<1>2. QED
  BY <1>1, ClientsInvariant, PTL

(* memAlloc() and memFree() of buddy.c never give a byte to two blocks,    *)
(* lose none, and leave no two free buddies, for memories and headers of   *)
(* any size and for any number of levels.                                  *)
THEOREM BuddiesStayTiled == Spec => []BuddiesTile
<1>1. Owners /\ Phases => BuddiesTile
  BY BuddyInvTiles DEF Owners, HeapInv
<1>2. QED
  BY <1>1, ClientsInvariant, PTL

(* The free list keeps its promises under the tests as well.               *)
THEOREM HeapUnderTests == Spec => [](HeapTiled /\ Coalesced)
<1>1. Owners /\ Phases => HeapTiled /\ Coalesced
  <2>1. SUFFICES ASSUME HeapInv
                 PROVE  HeapTiled /\ Coalesced
    BY DEF Owners
  <2>2. FreeListTypeOK /\ HeapTiled /\ Gaps(free_list)
    BY <2>1 DEF HeapInv
  <2>3. QED
    BY <2>2, GapsCoalesce
<1>2. QED
  BY <1>1, ClientsInvariant, PTL

(* test_mm() prints its error in no execution, whatever its sizes, however *)
(* many tests run and wherever they are killed, unless it took the answer  *)
(* of a refused request for a block, up to the moment such an answer is    *)
(* filled into the heap.                                                   *)
THEOREM PatternsAreKept == Spec => []PatternsSurvive
<1>1. Owners /\ Phases => PatternsSurvive
  <2>1. SUFFICES ASSUME Phases, NEW t \in Tests, pc[t] = "error"
                 PROVE  \E k \in 1 .. Len(mm_rqs[t]) : mm_rqs[t][k].address = Refused
    BY DEF PatternsSurvive
  <2>2. Real(t) # 1 .. Len(mm_rqs[t])
    BY <2>1 DEF Phases, Phase
  <2>3. QED
    BY <2>2 DEF Real
<1>2. QED
  BY <1>1, ClientsInvariant, PTL

-----------------------------------------------------------------------------
(* What the tests own, as Allocator sees it.                               *)
Held == {b \in Owned : b.address # Refused}

LEMMA HeldFacts ==
  \A b : b \in Held <=> /\ b.address # Refused
                        /\ \/ b \in leaked
                           \/ \E t \in Tests : \E k \in Real(t) : b = mm_rqs[t][k]
BY DEF Held, Owned, Owns, Real

LEMMA HeldSame ==
  ASSUME mm_rqs' = mm_rqs, leaked' = leaked
  PROVE  Held' = Held
BY DEF Held, Owned, Owns, Refused, NULL

LEMMA RestartHolds ==
  ASSUME ClientTypeOK, NEW t \in Tests, Restart(t)
  PROVE  Held' = Held
<1>1. leaked' = leaked \cup Owns(t) /\ mm_rqs' = [mm_rqs EXCEPT ![t] = <<>>]
  BY DEF Restart
<1>2. Owns(t)' = {} /\ \A u \in Tests : u # t => Owns(u)' = Owns(u)
  <2>1. mm_rqs'[t] = <<>> /\ \A u \in Tests : u # t => mm_rqs'[u] = mm_rqs[u]
    BY <1>1 DEF ClientTypeOK
  <2>2. QED
    BY <2>1 DEF Owns
<1>3. Owned' = Owned
  <2>1. Owned' = leaked' \cup UNION {Owns(u)' : u \in Tests}
    BY DEF Owned
  <2>2. UNION {Owns(u) : u \in Tests} = Owns(t) \cup UNION {Owns(u)' : u \in Tests}
    BY <1>2
  <2>3. QED
    BY <1>1, <2>1, <2>2 DEF Owned
<1>4. QED
  BY <1>3 DEF Held, Refused, NULL

(* A request that was granted is a step of Allocator.                      *)
LEMMA AskHolds ==
  ASSUME Owners, Phases, NEW t \in Tests, Ask(t)
  PROVE  \/ Held' = Held
         \/ \E b \in Held' : A!memAlloc(b)
<1>1. PICK n \in Size(t) :
        /\ sys_malloc(n)
        /\ mm_rqs' = IF Address(n) = NULL THEN mm_rqs
                     ELSE [mm_rqs EXCEPT ![t] = Append(@, [address |-> Address(n), size |-> n])]
  BY DEF Ask
<1>2. manager' = manager /\ leaked' = leaked
  BY DEF Ask
<1>3. ClientTypeOK /\ HeapInv /\ Holding /\ manager \in Managers
  BY DEF Owners, ClientTypeOK
<1>4. n \in Request /\ n \in Nat
  BY <1>3, AskedSizes, HeaderFacts
<1>5. HeapInv' /\ (Refuses(n) \/ Gives(n))
  BY <1>1, <1>2, <1>3, <1>4, MallocRooms
<1>6. RoomsApart'
  <2>1. (manager \in Managers)'
    BY <1>2, <1>3
  <2>2. QED
    BY <1>5, <2>1, RoomsAreApart, PTL
<1> DEFINE blk == [address |-> Address(n), size |-> n]
<1>7. CASE Address(n) = NULL
  BY <1>1, <1>2, <1>7, HeldSame
<1>8. CASE Address(n) # NULL
  <2>1. Slots(t, blk)
    BY <1>1, <1>8 DEF Slots
  <2>2. blk \in [address : Nat, size : Request]
    <3>1. Address(n) \in Nat
      <4>1. CASE Refuses(n)
        BY <4>1, HeaderFacts DEF Refuses
      <4>2. CASE Gives(n)
        BY <1>6, <4>2 DEF Gives, RoomsApart
      <4>3. QED
        BY <1>5, <4>1, <4>2
    <3>2. QED
      BY <1>4, <3>1
  <2>3. Owns(t)' = Owns(t) \cup {blk} /\ \A u \in Tests : u # t => Owns(u)' = Owns(u)
    <3> HIDE DEF blk
    <3>1. /\ \A u \in Tests : u # t => mm_rqs'[u] = mm_rqs[u]
          /\ Len(mm_rqs'[t]) = Len(mm_rqs[t]) + 1
          /\ \A k \in 1 .. Len(mm_rqs[t]) : mm_rqs'[t][k] = mm_rqs[t][k]
          /\ mm_rqs'[t][Len(mm_rqs[t]) + 1] = blk
      BY <1>3, <2>1, <2>2, OneMore
    <3>2. \A u \in Tests : u # t => Owns(u)' = Owns(u)
      BY <3>1 DEF Owns
    <3>3. /\ Len(mm_rqs[t]) \in Nat
          /\ 1 .. Len(mm_rqs[t]) + 1 = (1 .. Len(mm_rqs[t])) \cup {Len(mm_rqs[t]) + 1}
      <4>1. Len(mm_rqs[t]) \in Nat
        BY <1>3, SlotFacts
      <4>2. QED
        BY <4>1
    <3>4. 1 .. Len(mm_rqs'[t]) = (1 .. Len(mm_rqs[t])) \cup {Len(mm_rqs[t]) + 1}
      BY <3>1, <3>3
    <3>5. Owns(t)' = Owns(t) \cup {blk}
      BY <3>1, <3>4 DEF Owns
    <3>6. QED
      BY <3>2, <3>5
  <2>4. Owned' = Owned \cup {blk}
    <3> HIDE DEF blk
    <3>1. Owned' = leaked' \cup UNION {Owns(u)' : u \in Tests}
      BY DEF Owned
    <3>2. UNION {Owns(u)' : u \in Tests} = {blk} \cup UNION {Owns(u) : u \in Tests}
      BY <2>3
    <3>3. QED
      BY <1>2, <3>1, <3>2 DEF Owned
  <2>5. CASE Address(n) = Refused
    BY <2>4, <2>5 DEF Held, Refused, NULL
  <2>6. CASE Address(n) # Refused
    <3>1. Held' = Held \cup {blk}
      BY <2>4, <2>6 DEF Held, Refused, NULL
    <3>2. PICK r : /\ r \notin Rooms /\ Rooms' = Rooms \cup {r}
                   /\ r.address = Address(n) /\ n <= r.size
      BY <1>5, <1>8, <2>6 DEF Refuses, Gives
    <3>3. /\ r.address \in Nat /\ r.size \in Nat /\ Start <= r.address
          /\ r.address + r.size <= Start + Total
          /\ \A q \in Rooms : Outside(q, r) /\ q.address \in Nat /\ q.size \in Nat
      <4>1. r \in Rooms' /\ \A q \in Rooms : q \in Rooms' /\ q # r
        BY <3>2
      <4>2. QED
        BY <1>6, <4>1 DEF RoomsApart
    <3>4. Start \in Nat /\ Total \in Nat
      BY HeaderFacts
    <3>5. blk.address = r.address /\ blk.size = n
      BY <3>2
    <3> HIDE DEF blk
    <3>6. blk.address + blk.size <= Start + Total
      BY <1>4, <3>2, <3>3, <3>4, <3>5
    <3>7. ASSUME NEW c \in Held
          PROVE  A!Apart(blk, c)
      <4>1. Roomy(c)
        BY <1>3, HeldFacts DEF Holding
      <4>2. PICK q \in Rooms : q.address = c.address /\ c.size <= q.size
        BY <4>1 DEF Roomy
      <4>3. c.size \in Nat
        <5>1. CASE c \in leaked
          <6>1. c \in [address : Nat, size : Request]
            BY <1>3, <5>1 DEF ClientTypeOK
          <6>2. QED
            BY <6>1, HeaderFacts
        <5>2. CASE \E u \in Tests : \E k \in Real(u) : c = mm_rqs[u][k]
          BY <1>3, <5>2, SlotFacts
        <5>3. QED
          BY <5>1, <5>2, HeldFacts
      <4>4. Outside(q, r) /\ q.address \in Nat /\ q.size \in Nat
        BY <3>3
      <4>5. blk.address + blk.size <= c.address \/ c.address + c.size <= blk.address
        BY <1>4, <3>2, <3>3, <3>5, <4>2, <4>3, <4>4 DEF Outside
      <4>6. QED
        BY <4>5 DEF A!Apart, A!End
    <3>8. A!memAlloc(blk)
      BY <1>4, <3>1, <3>3, <3>5, <3>6, <3>7 DEF A!memAlloc, A!End, Held
    <3>9. blk \in Held'
      BY <3>1
    <3>10. QED
      BY <3>8, <3>9 DEF A!memAlloc
  <2>7. QED
    BY <2>5, <2>6
<1>9. QED
  BY <1>7, <1>8

(* A block that is freed is nobody's.                                      *)
LEMMA FreeHolds ==
  ASSUME Owners, Phases, NEW t \in Tests, Free(t)
  PROVE  Held' = Held \/ \E b \in Held : A!memFree(b)
<1> DEFINE first == mm_rqs[t][1]
<1>1. mm_rqs' = [mm_rqs EXCEPT ![t] = Tail(@)] /\ leaked' = leaked
  BY DEF Free
<1>2. ClientTypeOK /\ Holding /\ Phase(t)
  BY DEF Owners, Phases
<1>3. Len(mm_rqs[t]) >= 1 /\ Len(mm_rqs[t]) \in Nat
  <2>1. pc[t] = "free"
    BY DEF Free, Go
  <2>2. QED
    BY <1>2, <2>1, SlotFacts DEF Phase
<1>4. /\ \A u \in Tests : u # t => mm_rqs'[u] = mm_rqs[u]
      /\ Len(mm_rqs'[t]) = Len(mm_rqs[t]) - 1
      /\ \A k \in 1 .. Len(mm_rqs'[t]) : /\ k + 1 \in 1 .. Len(mm_rqs[t])
                                         /\ mm_rqs'[t][k] = mm_rqs[t][k + 1]
  BY <1>1, <1>2, <1>3, OneLess
<1>5. Refused' = Refused
  BY DEF Refused, NULL
<1>6. /\ \A b : b \in Held <=> /\ b.address # Refused
                               /\ \/ b \in leaked
                                  \/ \E u \in Tests : \E k \in Real(u) : b = mm_rqs[u][k]
      /\ \A b : b \in Held' <=> /\ b.address # Refused
                                /\ \/ b \in leaked
                                   \/ \E u \in Tests : \E k \in Real(u)' : b = mm_rqs'[u][k]
  BY <1>1, <1>5, HeldFacts DEF Held, Owned, Owns, Real
<1>7. first.address # Refused => 1 \in Real(t)
  BY <1>3 DEF Real
<1>8. ASSUME NEW b \in Held'
      PROVE  b \in Held /\ b # first
  <2>1. b.address # Refused
    BY <1>6
  <2>2. CASE b \in leaked
    BY <1>2, <1>6, <1>7, <2>1, <2>2 DEF Holding
  <2>3. CASE \E u \in Tests : \E k \in Real(u)' : b = mm_rqs'[u][k]
    <3>0. PICK u \in Tests : \E k \in Real(u)' : b = mm_rqs'[u][k]
      BY <2>3
    <3>1. PICK k \in Real(u)' : b = mm_rqs'[u][k]
      BY <3>0
    <3>2. k \in 1 .. Len(mm_rqs'[u])
      BY DEF Real
    <3>3. PICK m \in Real(u) : b = mm_rqs[u][m] /\ ~(u = t /\ m = 1)
      <4>1. CASE u # t
        BY <1>4, <2>1, <3>1, <3>2, <4>1 DEF Real
      <4>2. CASE u = t
        <5>1. k + 1 \in 1 .. Len(mm_rqs[t]) /\ b = mm_rqs[t][k + 1] /\ k >= 1
          BY <1>4, <3>1, <3>2, <4>2
        <5>2. k + 1 \in Real(t) /\ k + 1 # 1
          BY <2>1, <3>2, <5>1 DEF Real
        <5>3. QED
          BY <4>2, <5>1, <5>2
      <4>3. QED
        BY <4>1, <4>2
    <3>4. b # first
      BY <1>2, <1>7, <2>1, <3>3 DEF Holding
    <3>5. QED
      BY <1>6, <2>1, <3>3, <3>4
  <2>4. QED
    BY <1>6, <2>2, <2>3
<1>9. ASSUME NEW b \in Held, b # first
      PROVE  b \in Held'
  <2>1. b.address # Refused
    BY <1>6
  <2>2. CASE b \in leaked
    BY <1>6, <2>1, <2>2
  <2>3. CASE \E u \in Tests : \E k \in Real(u) : b = mm_rqs[u][k]
    <3>0. PICK u \in Tests : \E k \in Real(u) : b = mm_rqs[u][k]
      BY <2>3
    <3>1. PICK k \in Real(u) : b = mm_rqs[u][k]
      BY <3>0
    <3>2. k \in 1 .. Len(mm_rqs[u]) /\ ~(u = t /\ k = 1)
      BY <1>9, <3>1 DEF Real
    <3>3. \E m \in Real(u)' : b = mm_rqs'[u][m]
      <4>1. CASE u # t
        BY <1>4, <1>5, <2>1, <3>1, <3>2, <4>1 DEF Real
      <4>2. CASE u = t
        <5>1. k \in Nat /\ k >= 2 /\ k <= Len(mm_rqs[t])
          BY <3>2, <4>2
        <5>2. k - 1 \in 1 .. Len(mm_rqs'[t]) /\ (k - 1) + 1 = k
          BY <1>3, <1>4, <5>1
        <5>3. b = mm_rqs'[t][k - 1]
          BY <1>4, <3>1, <4>2, <5>2
        <5>4. k - 1 \in Real(t)'
          BY <1>5, <2>1, <5>2, <5>3 DEF Real
        <5>5. QED
          BY <4>2, <5>3, <5>4
      <4>3. QED
        BY <4>1, <4>2
    <3>4. QED
      BY <1>6, <2>1, <3>3
  <2>4. QED
    BY <1>6, <2>2, <2>3
<1> HIDE DEF first
<1>10. Held' = Held \ {first}
  BY <1>8, <1>9
<1>11. CASE first \in Held
  BY <1>10, <1>11 DEF A!memFree, Held
<1>12. CASE first \notin Held
  BY <1>10, <1>12
<1>13. QED
  BY <1>11, <1>12

(* malloc and free of either manager, as the tests call them, keep the     *)
(* promise of memoryManager.h: a block that was given is inside of the     *)
(* heap, as long as was asked for, and nobody else's until it is freed.    *)
THEOREM ManagersKeepPromise == Spec => KeepsPromise
<1>1. Init => A!Init
  <2>1. SUFFICES ASSUME Init
                 PROVE  Held = {}
    BY DEF A!Init, Held
  <2>2. leaked = {} /\ \A t \in Tests : mm_rqs[t] = <<>>
    BY <2>1 DEF Init
  <2>3. \A t \in Tests : Real(t) = {}
    BY <2>2 DEF Real
  <2>4. QED
    BY <2>2, <2>3, HeldFacts
<1>2. Owners /\ Phases /\ [Next]_vars => [A!Next]_Held
  <2>1. SUFFICES ASSUME Owners, Phases, [Next]_vars
                 PROVE  Held' = Held \/ A!Next
    OBVIOUS
  <2>2. CASE UNCHANGED vars
    BY <2>2, HeldSame DEF vars, clients
  <2>3. ASSUME NEW t \in Tests, Ask(t)
        PROVE  Held' = Held \/ A!Next
    BY <2>1, <2>3, AskHolds DEF A!Next, Held
  <2>4. ASSUME NEW t \in Tests, Free(t)
        PROVE  Held' = Held \/ A!Next
    BY <2>1, <2>4, FreeHolds DEF A!Next, Held
  <2>5. ASSUME NEW t \in Tests, Asked(t) \/ Set(t) \/ Wreck(t) \/ Check(t)
        PROVE  Held' = Held
    BY <2>5, HeldSame DEF Asked, Set, Wreck, Check
  <2>6. ASSUME NEW t \in Tests, Restart(t)
        PROVE  Held' = Held
    BY <2>1, <2>6, RestartHolds DEF Owners
  <2>7. QED
    BY <2>1, <2>2, <2>3, <2>4, <2>5, <2>6 DEF Next
<1>3. QED
  BY <1>1, <1>2, ClientsInvariant, PTL DEF Spec, KeepsPromise, A!Spec, Held
=============================================================================
