--------------------------- MODULE SchedulerProofs ---------------------------
(***************************************************************************)
(* What holds of the scheduler for any number of processes, any programs   *)
(* and any interrupts: what the operations of the linked list do to the    *)
(* nodes a list links, the types, the one processor, and the table of      *)
(* processes.                                                              *)
(***************************************************************************)
EXTENDS Scheduler, FiniteSetTheorems, WellFoundedInduction, TLAPS

-----------------------------------------------------------------------------
(* The linked list, for every set of nodes.  No induction is needed: each  *)
(* operation changes the sequence a list represents in one place, and the  *)
(* new sequence can be written down.                                       *)

(* The sequence of some length k that l represents has the range S.        *)
Shows(l, S, s, k) ==
  /\ s \in [1 .. k -> S]
  /\ \A n \in S : \E i \in 1 .. k : s[i] = n
  /\ Represents(l, s, k)

(* A set that is enumerated without repetition by s has as many elements   *)
(* as s, so Links can be proved of a sequence of any length.               *)
LEMMA LinksIntro ==
  ASSUME NEW l, NEW S, NEW k \in Nat, NEW s, Shows(l, S, s, k)
  PROVE  Links(l, S)
<1>1. s \in Bijection(1 .. k, S)
  BY DEF Shows, Represents, Bijection, Injection, Surjection, IsInjective
<1>2. IsFiniteSet(1 .. k) /\ Cardinality(1 .. k) = k
  BY FS_Interval
<1>3. Cardinality(S) = k
  BY <1>1, <1>2, FS_Bijection DEF ExistsBijection
<1>4. QED
  BY <1>3 DEF Shows, Links

(* The converse: a list that links S represents an enumeration of S.       *)
LEMMA LinksElim ==
  ASSUME NEW l, NEW S, IsFiniteSet(S), Links(l, S)
  PROVE  \E k \in Nat : \E s : Shows(l, S, s, k)
<1> DEFINE k == Cardinality(S)
<1>1. k \in Nat
  BY FS_CardinalityType
<1>2. PICK s \in [1 .. k -> S] : Represents(l, s, k)
  BY DEF Links
<1>3. IsFiniteSet(1 .. k) /\ Cardinality(1 .. k) = k
  BY <1>1, FS_Interval
<1>4. s \in Injection(1 .. k, S)
  BY <1>2 DEF Represents, Injection, IsInjective
<1>5. s \in Surjection(1 .. k, S)
  BY <1>3, <1>4, FS_Injection
<1>6. Shows(l, S, s, k)
  BY <1>2, <1>5 DEF Shows, Surjection
<1>7. QED
  BY <1>1, <1>6

-----------------------------------------------------------------------------
(* The operations keep the shape of the record.                            *)
LEMMA ListType ==
  ASSUME NEW Node, NULL \notin Node, NEW l \in ListOf(Node), NEW n \in Node
  PROVE  /\ queue(l, n) \in ListOf(Node)
         /\ push(l, n) \in ListOf(Node)
         /\ remove(l, n) \in ListOf(Node)
         /\ memFree(l, n) \in ListOf(Node)
<1>1. queue(l, n) \in ListOf(Node)
  BY DEF ListOf, queue
<1>2. push(l, n) \in ListOf(Node)
  BY DEF ListOf, push
<1>3. remove(l, n) \in ListOf(Node)
  BY DEF ListOf, remove
<1>4. memFree(l, n) \in ListOf(Node)
  BY DEF ListOf, memFree
<1>5. QED
  BY <1>1, <1>2, <1>3, <1>4

(* The head of a list that links S is in S, and is NULL only if S is empty. *)
LEMMA FirstOfLinks ==
  ASSUME NEW l, NEW S, IsFiniteSet(S), NULL \notin S, Links(l, S)
  PROVE  IF S = {} THEN l.first = NULL ELSE l.first \in S
<1>1. PICK k \in Nat : \E s : Shows(l, S, s, k)
  BY LinksElim
<1>2. PICK s : Shows(l, S, s, k)
  BY <1>1
<1>3. QED
  BY <1>2 DEF Shows, Represents

(* queue() of a node that is not in the list adds it.                      *)
LEMMA QueueLinks ==
  ASSUME NEW Node, NULL \notin Node, NEW l \in ListOf(Node),
         NEW S \in SUBSET Node, IsFiniteSet(S), Links(l, S), NEW n \in Node \ S
  PROVE  Links(queue(l, n), S \cup {n})
<1>1. PICK k \in Nat : \E s : Shows(l, S, s, k)
  BY LinksElim
<1>2. PICK s : Shows(l, S, s, k)
  BY <1>1
<1> DEFINE t == [i \in 1 .. k + 1 |-> IF i <= k THEN s[i] ELSE n]
           m == queue(l, n)
<1>3. s \in [1 .. k -> S] /\ Represents(l, s, k)
  BY <1>2 DEF Shows
<1>4. \A i, j \in 1 .. k + 1 : t[i] = t[j] => i = j
  BY <1>3 DEF Represents
<1>5. m.first = t[1] /\ m.last = t[k + 1]
  BY <1>3 DEF Represents, queue
<1>6. ASSUME NEW i \in 1 .. k + 1
      PROVE  /\ m.prev[t[i]] = IF i = 1 THEN NULL ELSE t[i-1]
             /\ m.next[t[i]] = IF i = k + 1 THEN NULL ELSE t[i+1]
  <2>1. CASE i = k + 1
    BY <1>3, <2>1 DEF Represents, queue, ListOf
  <2>2. CASE i <= k
    <3>1. s[i] \in S /\ s[i] # n /\ k >= 1 /\ l.last = s[k] /\ l.last # NULL /\ s[k] \in S
      BY <1>3, <2>2 DEF Represents
    <3>2. m.prev[s[i]] = l.prev[s[i]]
      BY <3>1 DEF queue, ListOf
    <3>3. m.next[s[i]] = IF s[i] = s[k] THEN n ELSE l.next[s[i]]
      BY <3>1 DEF queue, ListOf
    <3>4. s[i] = s[k] <=> i = k
      BY <1>3, <2>2 DEF Represents
    <3>5. QED
      BY <1>3, <2>2, <3>1, <3>2, <3>3, <3>4 DEF Represents
  <2>3. QED
    BY <2>1, <2>2
<1>7. \A x \in S \cup {n} : \E i \in 1 .. k + 1 : t[i] = x
  BY <1>2 DEF Shows
<1>8. Shows(m, S \cup {n}, t, k + 1)
  BY <1>3, <1>4, <1>5, <1>6, <1>7 DEF Shows, Represents
<1>9. QED
  BY <1>8, LinksIntro

(* push() of a node that is not in the list adds it.                       *)
LEMMA PushLinks ==
  ASSUME NEW Node, NULL \notin Node, NEW l \in ListOf(Node),
         NEW S \in SUBSET Node, IsFiniteSet(S), Links(l, S), NEW n \in Node \ S
  PROVE  Links(push(l, n), S \cup {n})
<1>1. PICK k \in Nat : \E s : Shows(l, S, s, k)
  BY LinksElim
<1>2. PICK s : Shows(l, S, s, k)
  BY <1>1
<1> DEFINE t == [i \in 1 .. k + 1 |-> IF i = 1 THEN n ELSE s[i-1]]
           m == push(l, n)
<1>3. s \in [1 .. k -> S] /\ Represents(l, s, k)
  BY <1>2 DEF Shows
<1>4. \A i, j \in 1 .. k + 1 : t[i] = t[j] => i = j
  BY <1>3 DEF Represents
<1>5. m.first = t[1] /\ m.last = t[k + 1]
  BY <1>3 DEF Represents, push
<1>6. ASSUME NEW i \in 1 .. k + 1
      PROVE  /\ m.prev[t[i]] = IF i = 1 THEN NULL ELSE t[i-1]
             /\ m.next[t[i]] = IF i = k + 1 THEN NULL ELSE t[i+1]
  <2>1. CASE i = 1
    BY <1>3, <2>1 DEF Represents, push, ListOf
  <2>2. CASE i > 1
    <3>1. i - 1 \in 1 .. k /\ s[i-1] \in S /\ s[i-1] # n /\ l.first = s[1] /\ l.first # NULL
            /\ s[1] \in S
      BY <1>3, <2>2 DEF Represents
    <3>2. m.next[s[i-1]] = l.next[s[i-1]]
      BY <3>1 DEF push, ListOf
    <3>3. m.prev[s[i-1]] = IF s[i-1] = s[1] THEN n ELSE l.prev[s[i-1]]
      BY <3>1 DEF push, ListOf
    <3>4. s[i-1] = s[1] <=> i = 2
      BY <1>3, <2>2, <3>1 DEF Represents
    <3>5. /\ l.prev[s[i-1]] = IF i = 2 THEN NULL ELSE s[i-2]
          /\ l.next[s[i-1]] = IF i = k + 1 THEN NULL ELSE s[i]
      BY <1>3, <2>2, <3>1 DEF Represents
    <3>6. /\ t[i] = s[i-1]
          /\ t[i-1] = IF i = 2 THEN n ELSE s[i-2]
          /\ i <= k => t[i+1] = s[i]
      BY <2>2
    <3>7. QED
      BY <2>2, <3>1, <3>2, <3>3, <3>4, <3>5, <3>6
  <2>3. QED
    BY <2>1, <2>2
<1>7. \A x \in S \cup {n} : \E i \in 1 .. k + 1 : t[i] = x
  <2>1. 1 \in 1 .. k + 1 /\ t[1] = n
    OBVIOUS
  <2>2. ASSUME NEW x \in S
        PROVE  \E i \in 1 .. k + 1 : t[i] = x
    <3>1. PICK j \in 1 .. k : s[j] = x
      BY <1>2 DEF Shows
    <3>2. j + 1 \in 1 .. k + 1 /\ t[j + 1] = x
      BY <3>1
    <3>3. QED
      BY <3>2
  <2>3. QED
    BY <2>1, <2>2
<1>8. Shows(m, S \cup {n}, t, k + 1)
  BY <1>3, <1>4, <1>5, <1>6, <1>7 DEF Shows, Represents
<1>9. QED
  BY <1>8, LinksIntro

(* remove() of a node of the list takes it out.                            *)
LEMMA RemoveLinks ==
  ASSUME NEW Node, NULL \notin Node, NEW l \in ListOf(Node),
         NEW S \in SUBSET Node, IsFiniteSet(S), Links(l, S), NEW n \in S
  PROVE  Links(remove(l, n), S \ {n})
<1>1. PICK k \in Nat : \E s : Shows(l, S, s, k)
  BY LinksElim
<1>2. PICK s : Shows(l, S, s, k)
  BY <1>1
<1>3. s \in [1 .. k -> S] /\ Represents(l, s, k)
  BY <1>2 DEF Shows
<1>4. PICK h \in 1 .. k : s[h] = n
  BY <1>2 DEF Shows
<1> DEFINE t == [i \in 1 .. k - 1 |-> IF i < h THEN s[i] ELSE s[i+1]]
           m == remove(l, n)
           p == l.prev[n]
           q == l.next[n]
<1>5. k \in Nat \ {0} /\ k - 1 \in Nat
  OBVIOUS
<1>6. \A i, j \in 1 .. k : s[i] = s[j] => i = j
  BY <1>3 DEF Represents
<1>7. p = (IF h = 1 THEN NULL ELSE s[h-1]) /\ q = (IF h = k THEN NULL ELSE s[h+1])
  BY <1>3, <1>4 DEF Represents
<1>8. (h > 1 => s[h-1] \in S) /\ (h < k => s[h+1] \in S)
  BY <1>3
<1>9. (p = NULL <=> h = 1) /\ (q = NULL <=> h = k)
  BY <1>7, <1>8
<1>10. t \in [1 .. k - 1 -> S \ {n}]
  <2>1. ASSUME NEW i \in 1 .. k - 1
        PROVE  t[i] \in S \ {n}
    BY <1>3, <1>4, <1>6
  <2>2. QED
    BY <2>1
<1>11. \A i, j \in 1 .. k - 1 : t[i] = t[j] => i = j
  BY <1>6
<1>12. m.first = IF k - 1 = 0 THEN NULL ELSE t[1]
  <2>1. l.first = s[1]
    BY <1>3, <1>5 DEF Represents
  <2>2. CASE h = 1
    BY <1>7, <1>9, <2>2 DEF remove
  <2>3. CASE h > 1
    BY <1>9, <2>1, <2>3 DEF remove
  <2>4. QED
    BY <2>2, <2>3
<1>13. m.last = IF k - 1 = 0 THEN NULL ELSE t[k - 1]
  <2>1. l.last = s[k]
    BY <1>3, <1>5 DEF Represents
  <2>2. CASE h = k
    BY <1>7, <1>9, <2>2 DEF remove
  <2>3. CASE h < k
    BY <1>9, <2>1, <2>3 DEF remove
  <2>4. QED
    BY <2>2, <2>3
<1>14. ASSUME NEW j \in 1 .. k, j # h
       PROVE  /\ m.prev[s[j]] = IF j = h + 1 THEN p ELSE l.prev[s[j]]
              /\ m.next[s[j]] = IF j = h - 1 THEN q ELSE l.next[s[j]]
  <2>1. s[j] \in Node
    BY <1>3
  <2>2. h < k => (s[j] = q <=> j = h + 1)
    BY <1>6, <1>7, <1>14
  <2>3. h > 1 => (s[j] = p <=> j = h - 1)
    BY <1>6, <1>7, <1>14
  <2>4. m.prev[s[j]] = IF j = h + 1 THEN p ELSE l.prev[s[j]]
    BY <1>9, <1>14, <2>1, <2>2 DEF remove, ListOf
  <2>5. m.next[s[j]] = IF j = h - 1 THEN q ELSE l.next[s[j]]
    BY <1>9, <1>14, <2>1, <2>3 DEF remove, ListOf
  <2>6. QED
    BY <2>4, <2>5
<1>15. ASSUME NEW i \in 1 .. k - 1
       PROVE  /\ m.prev[t[i]] = IF i = 1 THEN NULL ELSE t[i-1]
              /\ m.next[t[i]] = IF i = k - 1 THEN NULL ELSE t[i+1]
  <2>1. CASE i < h
    <3>1. t[i] = s[i] /\ (i > 1 => t[i-1] = s[i-1])
      BY <2>1
    <3>2. i < k - 1 => t[i+1] = IF i = h - 1 THEN s[i+2] ELSE s[i+1]
      BY <2>1
    <3>3. l.prev[s[i]] = (IF i = 1 THEN NULL ELSE s[i-1]) /\ l.next[s[i]] = s[i+1]
      BY <1>3, <2>1 DEF Represents
    <3>4. /\ m.prev[s[i]] = l.prev[s[i]]
          /\ m.next[s[i]] = IF i = h - 1 THEN q ELSE l.next[s[i]]
      BY <1>14, <2>1
    <3>5. QED
      BY <1>7, <2>1, <3>1, <3>2, <3>3, <3>4
  <2>2. CASE i >= h
    <3>1. t[i] = s[i+1] /\ i + 1 \in 1 .. k
      BY <2>2
    <3>2. i > 1 => t[i-1] = IF i = h THEN s[i-1] ELSE s[i]
      BY <2>2
    <3>3. i < k - 1 => t[i+1] = s[i+2]
      BY <2>2
    <3>4. l.prev[s[i+1]] = s[i] /\ l.next[s[i+1]] = IF i + 1 = k THEN NULL ELSE s[i+2]
      BY <1>3, <3>1 DEF Represents
    <3>5. /\ m.prev[s[i+1]] = IF i = h THEN p ELSE l.prev[s[i+1]]
          /\ m.next[s[i+1]] = l.next[s[i+1]]
      BY <1>14, <2>2, <3>1
    <3>6. QED
      BY <1>7, <2>2, <3>1, <3>2, <3>3, <3>4, <3>5
  <2>3. QED
    BY <2>1, <2>2
<1>16. \A x \in S \ {n} : \E i \in 1 .. k - 1 : t[i] = x
  <2>1. SUFFICES ASSUME NEW x \in S \ {n}
                 PROVE  \E i \in 1 .. k - 1 : t[i] = x
    OBVIOUS
  <2>2. PICK j \in 1 .. k : s[j] = x
    BY <1>2 DEF Shows
  <2>3. j # h
    BY <1>4, <2>2
  <2>4. CASE j < h
    <3>1. j \in 1 .. k - 1 /\ t[j] = x
      BY <2>2, <2>4
    <3>2. QED
      BY <3>1
  <2>5. CASE j > h
    <3>1. j - 1 \in 1 .. k - 1 /\ t[j - 1] = x
      BY <2>2, <2>5
    <3>2. QED
      BY <3>1
  <2>6. QED
    BY <2>3, <2>4, <2>5
<1>17. Shows(m, S \ {n}, t, k - 1)
  BY <1>10, <1>11, <1>12, <1>13, <1>15, <1>16 DEF Shows, Represents
<1>18. QED
  BY <1>5, <1>17, LinksIntro

(* Freeing a node that is not in the list leaves the list as it is.        *)
LEMMA MemFreeLinks ==
  ASSUME NEW Node, NULL \notin Node, NEW l \in ListOf(Node),
         NEW S \in SUBSET Node, IsFiniteSet(S), Links(l, S), NEW n \in Node \ S
  PROVE  Links(memFree(l, n), S)
<1>1. PICK s \in [1 .. Cardinality(S) -> S] : Represents(l, s, Cardinality(S))
  BY DEF Links
<1> DEFINE m == memFree(l, n)
<1>2. m.first = l.first /\ m.last = l.last
  BY DEF memFree
<1>3. \A x \in S : m.prev[x] = l.prev[x] /\ m.next[x] = l.next[x]
  BY DEF memFree, ListOf
<1>4. Represents(m, s, Cardinality(S))
  BY <1>1, <1>2, <1>3 DEF Represents
<1>5. QED
  BY <1>1, <1>4 DEF Links

(* A list that links S never leads to a node outside of S.                 *)
LEMMA LinksUnlinked ==
  ASSUME NEW Node, NULL \notin Node, NEW l \in ListOf(Node),
         NEW S \in SUBSET Node, IsFiniteSet(S), Links(l, S), NEW n \in Node \ S
  PROVE  Unlinked(l, n)
<1>1. PICK k \in Nat : \E s : Shows(l, S, s, k)
  BY LinksElim
<1>2. PICK s : Shows(l, S, s, k)
  BY <1>1
<1>3. l.first \in S \cup {NULL}
  BY <1>2 DEF Shows, Represents
<1>4. \A x \in S : l.next[x] \in S \cup {NULL}
  BY <1>2 DEF Shows, Represents
<1>5. S \in SUBSET (DOMAIN l.next \ {n})
  BY DEF ListOf
<1>6. QED
  BY <1>3, <1>4, <1>5 DEF Unlinked

(* An empty list links no node.                                            *)
LEMMA EmptyLinks ==
  ASSUME NEW Node
  PROVE  Links(createLinkedList(Node), {}) /\ createLinkedList(Node) \in ListOf(Node)
<1> DEFINE l == createLinkedList(Node)
<1>1. Represents(l, << >>, 0)
  BY DEF Represents, createLinkedList
<1>2. << >> \in [1 .. 0 -> {}]
  OBVIOUS
<1>3. Shows(l, {}, << >>, 0)
  BY <1>1, <1>2 DEF Shows
<1>4. QED
  BY <1>3, LinksIntro DEF createLinkedList, ListOf

-----------------------------------------------------------------------------
(* The operators of the model return values of the right type.             *)

LEMMA PidFacts ==
  /\ Pid \subseteq Nat /\ IsFiniteSet(Pid) /\ NULL \notin Pid
  /\ TRIVIAL \in Pid /\ 1 \in Pid /\ ANY \notin Pid
<1>1. Pid \subseteq Nat /\ NULL \notin Pid /\ TRIVIAL \in Pid /\ 1 \in Pid /\ ANY \notin Pid
  BY SchedulerAssumption DEF SchedulerAssumption, Pid, TRIVIAL, ANY
<1>2. IsFiniteSet(Pid)
  BY SchedulerAssumption, FS_Interval DEF SchedulerAssumption, Pid
<1>3. QED
  BY <1>1, <1>2

LEMMA LeastInSet ==
  ASSUME NEW S, S \subseteq Nat, S # {}
  PROVE  Least(S) \in S /\ \A q \in S : Least(S) <= q
<1> DEFINE R == OpToRel(<, Nat)
<1>1. IsWellFoundedOn(R, Nat)
  BY NatLessThanWellFounded
<1>2. \A a, b \in Nat : a < b => <<a, b>> \in R
  BY Zenon DEF OpToRel
<1> HIDE DEF R
<1>3. PICK p \in S : \A q \in S : ~ (<<q, p>> \in R)
  BY <1>1, WFMin
<1>4. \A q \in S : ~ (q < p)
  BY <1>2, <1>3
<1>5. \A q \in S : p <= q
  BY <1>4
<1>6. QED
  BY <1>3, <1>5 DEF Least

(* setNextPID() stays inside the table, and finds an empty slot when there *)
(* is one.                                                                 *)
LEMMA NextPidFree ==
  ASSUME NEW st, NEW from \in Pid
  PROVE  /\ setNextPID(st, from) \in Pid
         /\ Free(st) # {} => setNextPID(st, from) \in Free(st)
<1> DEFINE later == {p \in Free(st) : p >= from}
<1>1. Free(st) \subseteq Pid /\ Pid \subseteq Nat
  BY PidFacts DEF Free
<1>2. CASE later # {}
  <2>1. Least(later) \in later
    BY <1>1, <1>2, LeastInSet
  <2>2. QED
    BY <1>1, <1>2, <2>1 DEF setNextPID
<1>3. CASE later = {} /\ Free(st) # {}
  <2>1. Least(Free(st)) \in Free(st)
    BY <1>1, <1>3, LeastInSet
  <2>2. QED
    BY <1>1, <1>3, <2>1 DEF setNextPID
<1>4. CASE Free(st) = {}
  BY <1>4 DEF setNextPID
<1>5. QED
  BY <1>2, <1>3, <1>4

(* setState() and the notification of a parent.                            *)
LEMMA SetStateType ==
  ASSUME NEW st \in [Pid -> PState], NEW l \in ListOf(Pid), NEW q \in Pid,
         NEW new \in {"READY", "BLOCKED"}
  PROVE  /\ SetState(st, q, new) \in [Pid -> PState]
         /\ SetStateList(st, l, q, new) \in ListOf(Pid)
<1>1. SetState(st, q, new) \in [Pid -> PState]
  BY DEF SetState, PState
<1>2. remove(l, q) \in ListOf(Pid) /\ push(l, q) \in ListOf(Pid)
  BY PidFacts, ListType
<1>3. SetStateList(st, l, q, new) \in ListOf(Pid)
  BY <1>2 DEF SetStateList
<1>4. QED
  BY <1>1, <1>3

LEMMA NotifyType ==
  ASSUME TypeOK, NEW st \in [Pid -> PState], NEW l \in ListOf(Pid), NEW q \in Pid
  PROVE  /\ Notify(st, q) \in [Pid -> PState]
         /\ NotifyList(st, l, q) \in ListOf(Pid)
         /\ Unlink(l, q) \in ListOf(Pid)
         /\ Reparented(st, q) \in [Pid -> Pid]
         /\ FreeFault(l, q) \in Fault
<1>1. parent_pid[q] \in Pid
  BY DEF TypeOK, FamilyType
<1>2. Notify(st, q) \in [Pid -> PState] /\ NotifyList(st, l, q) \in ListOf(Pid)
  BY <1>1, SetStateType DEF Notify, NotifyList
<1>3. Unlink(l, q) \in ListOf(Pid)
  BY PidFacts, ListType DEF Unlink
<1>4. Reparented(st, q) \in [Pid -> Pid]
  BY <1>1 DEF Reparented, TypeOK, FamilyType
<1>5. FreeFault(l, q) \in Fault
  BY DEF FreeFault, TypeOK, Fault
<1>6. QED
  BY <1>2, <1>3, <1>4, <1>5

LEMMA ScheduleType ==
  ASSUME TypeOK, NEW st \in [Pid -> PState], NEW l \in ListOf(Pid), NEW f \in Fault,
         schedule(st, l, f)
  PROVE  TableType' /\ fault' \in Fault
<1> DEFINE p         == running_pid
           preempted == st[p] = "RUNNING" /\ p # TRIVIAL
           list      == IF preempted THEN queue(remove(l, p), p) ELSE l
           left      == IF preempted \/ p = TRIVIAL THEN [st EXCEPT ![p] = "READY"] ELSE st
           new       == getNextReadyProcess(list)
<1>1. p \in Pid /\ priority \in [Pid -> 0 .. QtyPriorities - 1] /\ QtyPriorities \in Nat \ {0}
  BY SchedulerAssumption DEF TypeOK, TableType, SchedulerAssumption
<1>2. list \in ListOf(Pid)
  BY <1>1, PidFacts, ListType
<1>3. left \in [Pid -> PState]
  BY <1>1 DEF PState
<1>4. new \in Pid
  BY <1>2, PidFacts DEF getNextReadyProcess, ListOf
<1>5. /\ ready_processes' = list
      /\ priority' = [priority EXCEPT ![p] = IF st[p] = "FREE" THEN 0
                                             ELSE IF preempted THEN Aged(@) ELSE @]
      /\ p_state' = [left EXCEPT ![new] = IF @ = "FREE" THEN @ ELSE "RUNNING"]
      /\ fault' = IF left[new] = "FREE" THEN "dangling" ELSE f
      /\ running_pid' = new
      /\ remaining_rounds' = priority'[new] + 1
  BY DEF schedule, Preempted, Left, Aged, Requeued
<1>6. priority' \in [Pid -> 0 .. QtyPriorities - 1]
  BY <1>1, <1>5 DEF Aged
<1>7. p_state' \in [Pid -> PState]
  BY <1>3, <1>4, <1>5 DEF PState
<1>8. remaining_rounds' \in 0 .. QtyPriorities
  BY <1>1, <1>4, <1>5, <1>6
<1>9. QED
  BY <1>2, <1>4, <1>5, <1>6, <1>7, <1>8 DEF TableType, Fault

LEMMA LeaveType ==
  ASSUME TypeOK, NEW st \in [Pid -> PState], NEW l \in ListOf(Pid), NEW q \in Pid,
         Leave(st, l, q)
  PROVE  TableType' /\ fault' \in Fault
<1>1. memFree(l, q) \in ListOf(Pid) /\ FreeFault(l, q) \in Fault
  BY PidFacts, ListType, NotifyType
<1>2. CASE q = running_pid
  BY <1>1, <1>2, ScheduleType DEF Leave
<1>3. CASE q # running_pid
  BY <1>1, <1>3, SchedulerAssumption DEF Leave, TypeOK, TableType, SchedulerAssumption
<1>4. QED
  BY <1>2, <1>3

LEMMA FreeProcessType ==
  ASSUME TypeOK, NEW parents \in [Pid -> Pid], NEW q \in Pid, FreeProcess(q, parents)
  PROVE  FamilyType' /\ SlotsType' /\ pc' \in [Pid -> Place]
<1>1. TRIVIAL \in Pid /\ 0 \in Pid /\ "trivial" \in Main /\ << >> \in Seq(Pid)
  BY PidFacts, SchedulerAssumption DEF SchedulerAssumption, TRIVIAL
<1>2. FamilyType'
  BY <1>1 DEF TypeOK, FamilyType, FreeProcess
<1>3. SlotsType' /\ pc' \in [Pid -> Place]
  BY DEF TypeOK, SlotsType, FreeProcess, Place
<1>4. QED
  BY <1>2, <1>3

LEMMA HandOverType ==
  ASSUME TypeOK, NEW q \in Pid, NEW fg \in [Pid -> BOOLEAN], HandOver(q, fg)
  PROVE  TerminalType'
  BY DEF TypeOK, FamilyType, TerminalType, HandOver

LEMMA UnchangedType ==
  ASSUME TypeOK
  PROVE  /\ UNCHANGED table => TableType'
         /\ UNCHANGED family => FamilyType'
         /\ UNCHANGED terminal => TerminalType'
         /\ UNCHANGED slots => SlotsType'
         /\ UNCHANGED pc => pc' \in [Pid -> Place]
         /\ UNCHANGED fault => fault' \in Fault
  BY DEF TypeOK, TableType, FamilyType, TerminalType, SlotsType,
         table, family, terminal, slots

LEMMA CreateInSlotType ==
  ASSUME TypeOK, NEW p \in Pid, NEW m \in Main, NEW r \in Spawns[m], CreateInSlot(p, r)
  PROVE  TableType' /\ FamilyType' /\ TerminalType' /\ process_count' \in Int
<1>1. /\ r.main \in Main /\ r.fg \in BOOLEAN /\ r.priority \in 0 .. QtyPriorities - 1
      /\ 0 \in Pid
  BY SchedulerAssumption, PidFacts DEF SchedulerAssumption, Request, TRIVIAL
<1>2. next_pid \in Pid
  BY DEF TypeOK, SlotsType
<1>3. TableType'
  <2>1. queue(ready_processes, next_pid) \in ListOf(Pid)
    BY <1>2, PidFacts, ListType DEF TypeOK, TableType
  <2>2. QED
    BY <1>1, <1>2, <2>1 DEF CreateInSlot, TypeOK, TableType, PState
<1>4. children' \in [Pid -> Seq(Pid)]
  <2>1. children[p] \in Seq(Pid) /\ << >> \in Seq(Pid)
    BY DEF TypeOK, FamilyType
  <2>2. Append(children[p], next_pid) \in Seq(Pid)
    BY <1>2, <2>1
  <2>3. QED
    BY <1>2, <2>1, <2>2 DEF CreateInSlot, TypeOK, FamilyType
<1>5. FamilyType'
  BY <1>1, <1>2, <1>4 DEF CreateInSlot, TypeOK, FamilyType
<1>6. TerminalType'
  BY <1>1, <1>2 DEF CreateInSlot, TypeOK, TerminalType
<1>7. process_count' \in Int
  BY DEF CreateInSlot, TypeOK, SlotsType
<1>8. QED
  BY <1>3, <1>5, <1>6, <1>7

LEMMA ChangeStateType ==
  ASSUME TypeOK, NEW p \in Pid, NEW q \in Pid, NEW new \in {"READY", "BLOCKED"},
         ChangeState(p, q, new)
  PROVE  TableType' /\ FamilyType' /\ TerminalType' /\ SlotsType' /\ fault' \in Fault
<1> DEFINE st   == SetState(p_state, q, new)
           list == SetStateList(p_state, ready_processes, q, new)
<1>1. st \in [Pid -> PState] /\ list \in ListOf(Pid)
  BY SetStateType DEF TypeOK, TableType
<1>2. FamilyType' /\ TerminalType' /\ SlotsType'
  BY UnchangedType DEF ChangeState
<1>3. CASE new = "BLOCKED" /\ q = p
  <2>1. schedule(st, list, fault) /\ fault \in Fault
    BY <1>3 DEF ChangeState, TypeOK
  <2>2. QED
    BY <1>1, <1>2, <2>1, ScheduleType
<1>4. CASE ~ (new = "BLOCKED" /\ q = p)
  BY <1>1, <1>2, <1>4 DEF ChangeState, TypeOK, TableType
<1>5. QED
  BY <1>3, <1>4

LEMMA KillType ==
  ASSUME TypeOK, NEW q \in Pid, kill(q)
  PROVE  TypeOK'
<1> DEFINE dead  == [p_state EXCEPT ![q] = "TERMINATED"]
           woken == Notify(dead, q)
           list  == NotifyList(dead, Unlink(ready_processes, q), q)
<1>1. dead \in [Pid -> PState]
  BY DEF TypeOK, TableType, PState
<1>2. Unlink(ready_processes, q) \in ListOf(Pid)
  BY NotifyType, <1>1 DEF TypeOK, TableType
<1>3. woken \in [Pid -> PState] /\ list \in ListOf(Pid) /\ Reparented(woken, q) \in [Pid -> Pid]
  BY <1>1, <1>2, NotifyType
<1>4. [woken EXCEPT ![q] = "FREE"] \in [Pid -> PState]
  BY <1>3 DEF PState
<1>5. [isFg EXCEPT ![q] = FALSE] \in [Pid -> BOOLEAN]
  BY DEF TypeOK, TerminalType
<1>6. /\ Leave([woken EXCEPT ![q] = "FREE"], list, q)
      /\ HandOver(q, [isFg EXCEPT ![q] = FALSE])
      /\ FreeProcess(q, Reparented(woken, q))
  BY DEF kill
<1>7. QED
  BY <1>3, <1>4, <1>5, <1>6, LeaveType, HandOverType, FreeProcessType DEF TypeOK

LEMMA ExitType ==
  ASSUME TypeOK, NEW p \in Pid, Exit(p)
  PROVE  TypeOK'
<1>1. CASE ExitUnlink(p)
  <2>1. Unlink(ready_processes, p) \in ListOf(Pid)
    BY NotifyType DEF TypeOK, TableType
  <2>2. TableType'
    BY <1>1, <2>1 DEF ExitUnlink, TypeOK, TableType
  <2>3. QED
    BY <1>1, <2>2, UnchangedType DEF ExitUnlink, TypeOK, Place, ExitSteps
<1>2. CASE ExitTerminate(p)
  <2>1. TableType'
    BY <1>2 DEF ExitTerminate, TypeOK, TableType, PState
  <2>2. QED
    BY <1>2, <2>1, UnchangedType DEF ExitTerminate, TypeOK, Place, ExitSteps
<1>3. CASE ExitNotify(p)
  <2>1. Notify(p_state, p) \in [Pid -> PState] /\ NotifyList(p_state, ready_processes, p) \in ListOf(Pid)
    BY NotifyType DEF TypeOK, TableType
  <2>2. TableType'
    BY <1>3, <2>1 DEF ExitNotify, TypeOK, TableType
  <2>3. QED
    BY <1>3, <2>2, UnchangedType DEF ExitNotify, TypeOK, Place, ExitSteps
<1>4. CASE ExitHandOver(p)
  <2>1. TerminalType'
    BY <1>4, HandOverType DEF ExitHandOver, TypeOK, TerminalType
  <2>2. QED
    BY <1>4, <2>1, UnchangedType DEF ExitHandOver, TypeOK, Place, ExitSteps
<1>5. CASE ExitReparent(p)
  <2>1. FamilyType'
    BY <1>5, NotifyType DEF ExitReparent, TypeOK, TableType, FamilyType
  <2>2. QED
    BY <1>5, <2>1, UnchangedType DEF ExitReparent, TypeOK, Place, ExitSteps
<1>6. CASE ExitFree(p)
  <2>1. [p_state EXCEPT ![p] = "FREE"] \in [Pid -> PState]
    BY DEF TypeOK, TableType, PState
  <2>2. TableType' /\ fault' \in Fault
    BY <1>6, <2>1, LeaveType DEF ExitFree, TypeOK, TableType
  <2>3. FamilyType' /\ SlotsType' /\ pc' \in [Pid -> Place]
    BY <1>6, FreeProcessType DEF ExitFree, TypeOK, FamilyType
  <2>4. TerminalType'
    BY <1>6 DEF ExitFree, TypeOK, TerminalType
  <2>5. QED
    BY <2>2, <2>3, <2>4 DEF TypeOK
<1>7. QED
  BY <1>1, <1>2, <1>3, <1>4, <1>5, <1>6 DEF Exit

LEMMA SyscallType ==
  ASSUME TypeOK, NEW p \in Pid, Syscall(p)
  PROVE  TypeOK'
<1>1. CASE Create(p)
  <2>1. program[p] \in Main
    BY DEF TypeOK, FamilyType
  <2>2. PICK r \in Spawns[program[p]] : createProcess(p, r)
    BY <1>1 DEF Create
  <2>3. TableType' /\ FamilyType' /\ TerminalType' /\ process_count' \in Int
    BY <2>1, <2>2, CreateInSlotType DEF createProcess
  <2>4. next_pid' \in Pid
    BY <2>2, NextPidFree DEF createProcess, TypeOK, SlotsType
  <2>5. fault' \in Fault /\ pc' \in [Pid -> Place]
    BY <2>2 DEF createProcess, CreateFault, TypeOK, Fault
  <2>6. QED
    BY <2>3, <2>4, <2>5 DEF TypeOK, SlotsType
<1>2. CASE Yield(p)
  <2>1. TableType' /\ fault' \in Fault
    BY <1>2, ScheduleType DEF Yield, TypeOK, TableType
  <2>2. QED
    BY <1>2, <2>1, UnchangedType DEF Yield, TypeOK
<1>3. CASE Sleep(p)
  <2>1. ChangeState(p, p, "BLOCKED") /\ pc' \in [Pid -> Place]
    BY <1>3 DEF Sleep, TypeOK, Place
  <2>2. QED
    BY <2>1, ChangeStateType DEF TypeOK
<1>4. CASE Wait(p)
  <2>1. PICK q \in Pid \cup {ANY} : waitPid(p, q)
    BY <1>4 DEF Wait, TypeOK, FamilyType
  <2>2. [p_state EXCEPT ![p] = "BLOCKED"] \in [Pid -> PState]
    BY DEF TypeOK, TableType, PState
  <2>3. remove(ready_processes, p) \in ListOf(Pid)
    BY PidFacts, ListType DEF TypeOK, TableType
  <2>4. TableType' /\ fault' \in Fault
    BY <2>1, <2>2, <2>3, ScheduleType DEF waitPid, TypeOK
  <2>5. FamilyType' /\ pc' \in [Pid -> Place]
    BY <2>1 DEF waitPid, TypeOK, FamilyType, Place
  <2>6. QED
    BY <2>1, <2>4, <2>5, UnchangedType DEF waitPid, TypeOK
<1>5. ASSUME NEW q \in Pid, Kill(p, q)
      PROVE  TypeOK'
  BY <1>5, KillType DEF Kill
<1>6. ASSUME NEW q \in Pid, Block(p, q) \/ Unblock(p, q) \/ Wake(p, q)
      PROVE  TypeOK'
  <2>1. /\ ChangeState(p, q, "READY") \/ ChangeState(p, q, "BLOCKED")
        /\ UNCHANGED pc
    BY <1>6 DEF Block, Unblock, Wake
  <2>2. QED
    BY <2>1, ChangeStateType, UnchangedType DEF TypeOK
<1>7. ASSUME NEW q \in Pid, NEW new \in 0 .. QtyPriorities - 1, Nice(p, q, new)
      PROVE  TypeOK'
  <2>1. TableType'
    BY <1>7 DEF Nice, TypeOK, TableType
  <2>2. QED
    BY <1>7, <2>1, UnchangedType DEF Nice, TypeOK
<1>8. QED
  BY <1>1, <1>2, <1>3, <1>4, <1>5, <1>6, <1>7 DEF Syscall

LEMMA TypeStep ==
  ASSUME TypeOK, [Next]_vars
  PROVE  TypeOK'
<1>1. CASE BootCreate
  <2>1. PICK r \in Spawns["trivial"] : CreateInSlot(TRIVIAL, r)
    BY <1>1 DEF BootCreate
  <2>2. TRIVIAL \in Pid /\ "trivial" \in Main
    BY PidFacts, SchedulerAssumption DEF SchedulerAssumption
  <2>3. TableType' /\ FamilyType' /\ TerminalType' /\ process_count' \in Int
    BY <2>1, <2>2, CreateInSlotType
  <2>4. QED
    BY <1>1, <2>3 DEF BootCreate, TypeOK, SlotsType, Place
<1>2. CASE BootSetNext
  <2>1. next_pid' \in Pid
    BY <1>2, NextPidFree DEF BootSetNext, TypeOK, SlotsType
  <2>2. process_count' \in Int /\ pc' \in [Pid -> Place] /\ fault' \in Fault
    BY <1>2 DEF BootSetNext, TypeOK, SlotsType, Place, Fault
  <2>3. QED
    BY <1>2, <2>1, <2>2, UnchangedType DEF BootSetNext, TypeOK, SlotsType
<1>3. CASE Tick
  <2>1. TableType' /\ fault' \in Fault
    <3>1. CASE remaining_rounds > 0
      BY <1>3, <3>1, SchedulerAssumption DEF Tick, TypeOK, TableType, SchedulerAssumption
    <3>2. CASE ~ (remaining_rounds > 0)
      BY <1>3, <3>2, ScheduleType DEF Tick, TypeOK, TableType
    <3>3. QED
      BY <3>1, <3>2
  <2>2. QED
    BY <1>3, <2>1, UnchangedType DEF Tick, TypeOK
<1>4. CASE CtrlC
  BY <1>4, KillType DEF CtrlC, TypeOK, TerminalType
<1>5. ASSUME NEW q \in Pid, KeyWake(q)
      PROVE  TypeOK'
  <2>1. ChangeState(running_pid, q, "READY") /\ UNCHANGED pc /\ running_pid \in Pid
    BY <1>5 DEF KeyWake, TypeOK, TableType
  <2>2. QED
    BY <2>1, ChangeStateType, UnchangedType DEF TypeOK
<1>6. ASSUME NEW p \in Pid, Syscall(p)
      PROVE  TypeOK'
  BY <1>6, SyscallType
<1>7. ASSUME NEW p \in Pid, Kernel(p)
      PROVE  TypeOK'
  <2>1. CASE Return(p)
    <3>1. pc' \in [Pid -> Place]
      BY <2>1 DEF Return, TypeOK, Place
    <3>2. QED
      BY <2>1, <3>1, UnchangedType DEF Return, TypeOK
  <2>2. QED
    BY <1>7, <2>1, ExitType DEF Kernel
<1>8. CASE UNCHANGED vars
  BY <1>8, UnchangedType DEF vars, TypeOK
<1>9. QED
  BY <1>1, <1>2, <1>3, <1>4, <1>5, <1>6, <1>7, <1>8 DEF Next, Boot, Interrupt

LEMMA TypeInit == Init => TypeOK
<1>1. 0 \in Pid /\ "trivial" \in Main /\ << >> \in Seq(Pid) /\ QtyPriorities \in Nat \ {0}
  BY PidFacts, SchedulerAssumption DEF SchedulerAssumption, TRIVIAL
<1>2. createLinkedList(Pid) \in ListOf(Pid)
  BY EmptyLinks
<1>3. QED
  BY <1>1, <1>2, PidFacts
     DEF Init, TypeOK, TableType, FamilyType, TerminalType, SlotsType, PState, Place, Fault

(* Every variable of the scheduler keeps its type: pids name slots, the    *)
(* rounds and priorities stay in range, the links stay links.              *)
THEOREM TypeCorrect == Spec => []TypeOK
<1>1. Init => TypeOK
  BY TypeInit
<1>2. TypeOK /\ [Next]_vars => TypeOK'
  BY TypeStep
<1>3. QED
  BY <1>1, <1>2, PTL DEF Spec

-----------------------------------------------------------------------------
(* One processor.  schedule() takes the mark from the process that runs    *)
(* before it gives it to the next one, so no other copy of it survives.    *)

NoOtherRuns(st) == \A p \in Pid : st[p] = "RUNNING" => p = running_pid

LEMMA ScheduleSingle ==
  ASSUME TypeOK, NEW st \in [Pid -> PState], NEW l \in ListOf(Pid), NEW f,
         schedule(st, l, f), NoOtherRuns(st)
  PROVE  SingleRunning'
<1> DEFINE p         == running_pid
           preempted == st[p] = "RUNNING" /\ p # TRIVIAL
           list      == IF preempted THEN queue(remove(l, p), p) ELSE l
           left      == IF preempted \/ p = TRIVIAL THEN [st EXCEPT ![p] = "READY"] ELSE st
           new       == getNextReadyProcess(list)
<1>1. p \in Pid
  BY DEF TypeOK, TableType
<1>2. list \in ListOf(Pid)
  BY <1>1, PidFacts, ListType
<1>3. new \in Pid
  BY <1>2, PidFacts DEF getNextReadyProcess, ListOf
<1>4. left \in [Pid -> PState] /\ \A q \in Pid : left[q] # "RUNNING"
  BY <1>1 DEF NoOtherRuns, PState
<1>5. /\ p_state' = [left EXCEPT ![new] = IF @ = "FREE" THEN @ ELSE "RUNNING"]
      /\ running_pid' = new
  BY DEF schedule, Preempted, Left, Aged, Requeued
<1> HIDE DEF left, new, list, preempted
<1>6. QED
  BY <1>3, <1>4, <1>5 DEF SingleRunning

(* Waking a process marks none RUNNING and blocks none.                    *)
LEMMA NotifySingle ==
  ASSUME TypeOK, NEW st \in [Pid -> PState], NEW q \in Pid
  PROVE  \A p \in Pid : Notify(st, q)[p] \in {st[p], "READY"}
<1>1. parent_pid[q] \in Pid
  BY DEF TypeOK, FamilyType
<1>2. QED
  BY <1>1 DEF Notify, SetState

LEMMA ChangeStateSingle ==
  ASSUME TypeOK, SingleRunning, NEW q \in Pid, NEW new \in {"READY", "BLOCKED"},
         ChangeState(running_pid, q, new)
  PROVE  SingleRunning'
<1> DEFINE st   == SetState(p_state, q, new)
           list == SetStateList(p_state, ready_processes, q, new)
<1>1. st \in [Pid -> PState] /\ list \in ListOf(Pid)
  BY SetStateType DEF TypeOK, TableType
<1>2. st = [p_state EXCEPT ![q] = new]
  BY DEF ChangeState, SetState
<1>3. NoOtherRuns(st)
  BY <1>2 DEF NoOtherRuns, SingleRunning, TypeOK, TableType
<1>4. CASE new = "BLOCKED" /\ q = running_pid
  <2>1. schedule(st, list, fault)
    BY <1>4 DEF ChangeState
  <2>2. QED
    BY <1>1, <1>3, <2>1, ScheduleSingle
<1>5. CASE ~ (new = "BLOCKED" /\ q = running_pid)
  <2>1. p_state' = st /\ running_pid' = running_pid
    BY <1>5 DEF ChangeState
  <2>2. QED
    BY <1>2, <1>5, <2>1 DEF SingleRunning, TypeOK, TableType
<1>6. QED
  BY <1>4, <1>5

(* The two ways to free a slot, from the states st before the last one.    *)
LEMMA LeaveSingle ==
  ASSUME TypeOK, NEW st \in [Pid -> PState], NEW l \in ListOf(Pid), NEW q \in Pid,
         Leave(st, l, q), NoOtherRuns(st), st[running_pid] # "BLOCKED"
  PROVE  SingleRunning'
<1>1. memFree(l, q) \in ListOf(Pid)
  BY PidFacts, ListType
<1>2. CASE q = running_pid
  BY <1>1, <1>2, ScheduleSingle DEF Leave
<1>3. CASE q # running_pid
  BY <1>3 DEF Leave, SingleRunning, NoOtherRuns, TypeOK, TableType
<1>4. QED
  BY <1>2, <1>3

LEMMA KillSingle ==
  ASSUME TypeOK, SingleRunning, NEW q \in Pid, kill(q)
  PROVE  SingleRunning'
<1> DEFINE dead  == [p_state EXCEPT ![q] = "TERMINATED"]
           woken == Notify(dead, q)
           list  == NotifyList(dead, Unlink(ready_processes, q), q)
           st    == [woken EXCEPT ![q] = "FREE"]
<1>1. dead \in [Pid -> PState] /\ running_pid \in Pid
  BY DEF TypeOK, TableType, PState
<1>2. Unlink(ready_processes, q) \in ListOf(Pid)
  BY NotifyType, <1>1 DEF TypeOK, TableType
<1>3. woken \in [Pid -> PState] /\ list \in ListOf(Pid)
  BY <1>1, <1>2, NotifyType
<1>4. \A p \in Pid : woken[p] \in {dead[p], "READY"}
  BY <1>1, NotifySingle
<1>5. st \in [Pid -> PState]
  BY <1>3 DEF PState
<1>6. Leave(st, list, q)
  BY DEF kill
<1>7. \A p \in Pid : dead[p] \in {p_state[p], "TERMINATED"}
  BY DEF TypeOK, TableType
<1> HIDE DEF woken, list, dead
<1>8. NoOtherRuns(st) /\ st[running_pid] # "BLOCKED"
  BY <1>1, <1>3, <1>4, <1>7 DEF NoOtherRuns, SingleRunning
<1> HIDE DEF st
<1>9. QED
  BY <1>3, <1>5, <1>6, <1>8, LeaveSingle

LEMMA ExitSingle ==
  ASSUME TypeOK, SingleRunning, NEW p \in Pid, Exit(p)
  PROVE  SingleRunning'
<1>1. CASE ExitUnlink(p) \/ ExitHandOver(p) \/ ExitReparent(p)
  BY <1>1 DEF ExitUnlink, ExitHandOver, ExitReparent, table, SingleRunning
<1>2. CASE ExitTerminate(p)
  BY <1>2 DEF ExitTerminate, SingleRunning, TypeOK, TableType
<1>3. CASE ExitNotify(p)
  <2>1. \A q \in Pid : p_state'[q] \in {p_state[q], "READY"}
    BY <1>3, NotifySingle DEF ExitNotify, TypeOK, TableType
  <2>2. running_pid' = running_pid /\ running_pid \in Pid
    BY <1>3 DEF ExitNotify, TypeOK, TableType
  <2>3. QED
    BY <2>1, <2>2 DEF SingleRunning
<1>4. CASE ExitFree(p)
  <2> DEFINE st == [p_state EXCEPT ![p] = "FREE"]
  <2>1. st \in [Pid -> PState] /\ running_pid \in Pid /\ ready_processes \in ListOf(Pid)
    BY DEF TypeOK, TableType, PState
  <2>2. NoOtherRuns(st) /\ st[running_pid] # "BLOCKED"
    BY <2>1 DEF NoOtherRuns, SingleRunning, TypeOK, TableType
  <2>3. QED
    BY <1>4, <2>1, <2>2, LeaveSingle DEF ExitFree
<1>5. QED
  BY <1>1, <1>2, <1>3, <1>4 DEF Exit

LEMMA SyscallSingle ==
  ASSUME TypeOK, SingleRunning, NEW p \in Pid, Syscall(p)
  PROVE  SingleRunning'
<1>1. CASE Create(p)
  BY <1>1 DEF Create, createProcess, CreateInSlot, SingleRunning, TypeOK, TableType
<1>2. CASE Yield(p)
  BY <1>2, ScheduleSingle DEF Yield, SingleRunning, NoOtherRuns, TypeOK, TableType
<1>3. CASE Sleep(p)
  <2>1. p = running_pid /\ ChangeState(p, p, "BLOCKED")
    BY <1>3 DEF Sleep, Doing, Running
  <2>2. QED
    BY <2>1, ChangeStateSingle
<1>4. CASE Wait(p)
  <2> DEFINE st == [p_state EXCEPT ![p] = "BLOCKED"]
  <2>1. schedule(st, remove(ready_processes, p), fault)
    BY <1>4 DEF Wait, waitPid
  <2>2. remove(ready_processes, p) \in ListOf(Pid) /\ st \in [Pid -> PState]
    BY PidFacts, ListType DEF TypeOK, TableType, PState
  <2>3. NoOtherRuns(st)
    BY DEF NoOtherRuns, SingleRunning, TypeOK, TableType
  <2>4. QED
    BY <2>1, <2>2, <2>3, ScheduleSingle
<1>5. ASSUME NEW q \in Pid, Kill(p, q)
      PROVE  SingleRunning'
  BY <1>5, KillSingle DEF Kill
<1>6. ASSUME NEW q \in Pid, Block(p, q) \/ Unblock(p, q) \/ Wake(p, q)
      PROVE  SingleRunning'
  <2>1. /\ p = running_pid
        /\ ChangeState(p, q, "READY") \/ ChangeState(p, q, "BLOCKED")
    BY <1>6 DEF Block, Unblock, Wake, Doing, DoingTo, Running
  <2>2. QED
    BY <2>1, ChangeStateSingle
<1>7. ASSUME NEW q \in Pid, NEW new \in 0 .. QtyPriorities - 1, Nice(p, q, new)
      PROVE  SingleRunning'
  BY <1>7 DEF Nice, SingleRunning
<1>8. QED
  BY <1>1, <1>2, <1>3, <1>4, <1>5, <1>6, <1>7 DEF Syscall

(* At most one process is marked RUNNING, the one on the processor, and    *)
(* the processor is never left to a blocked one: with interrupts allowed   *)
(* to arrive during an exit and the boot as well.                          *)
THEOREM OneProcessor == Spec => []SingleRunning
<1>1. Init => SingleRunning
  BY PidFacts DEF Init, SingleRunning
<1>2. TypeOK /\ SingleRunning /\ [Next]_vars => SingleRunning'
  <2> SUFFICES ASSUME TypeOK, SingleRunning, [Next]_vars
               PROVE  SingleRunning'
    OBVIOUS
  <2>1. CASE Boot
    BY <2>1 DEF Boot, BootCreate, BootSetNext, CreateInSlot, table, SingleRunning,
                TypeOK, TableType
  <2>2. CASE Tick
    BY <2>2, ScheduleSingle DEF Tick, SingleRunning, NoOtherRuns, TypeOK, TableType, Fault
  <2>3. CASE CtrlC
    BY <2>3, KillSingle DEF CtrlC, TypeOK, TerminalType
  <2>4. ASSUME NEW q \in Pid, KeyWake(q)
        PROVE  SingleRunning'
    BY <2>4, ChangeStateSingle DEF KeyWake
  <2>5. ASSUME NEW p \in Pid, Syscall(p)
        PROVE  SingleRunning'
    BY <2>5, SyscallSingle
  <2>6. ASSUME NEW p \in Pid, Kernel(p)
        PROVE  SingleRunning'
    BY <2>6, ExitSingle DEF Kernel, Return, table, SingleRunning
  <2>7. CASE UNCHANGED vars
    BY <2>7 DEF vars, table, SingleRunning
  <2>8. QED
    BY <2>1, <2>2, <2>3, <2>4, <2>5, <2>6, <2>7 DEF Next, Interrupt
<1>3. QED
  BY <1>1, <1>2, TypeCorrect, PTL DEF Spec

-----------------------------------------------------------------------------
(* The table of processes: process_count counts its entries and next_pid   *)
(* names an empty one.                                                     *)

(* trivial() never dies and never leaves its boot sequence backwards, and  *)
(* the process on the processor has a PCB.                                 *)
TrivialAlive == pc[TRIVIAL] \in {"boot", "set_next", "user"} /\ p_state[TRIVIAL] # "FREE"

RunningAlive == fault = "none" => p_state[running_pid] # "FREE"

(* SlotsOK alone is not inductive: ExitFree() lowers the count whatever    *)
(* the state of its process is.                                            *)
SlotsInv == TypeOK /\ TrivialAlive /\ RunningAlive /\ SlotsOK

-----------------------------------------------------------------------------
(* Most steps leave the set of entries alone.                              *)

SameFree(st, st2) == \A p \in Pid : st[p] = "FREE" <=> st2[p] = "FREE"

LEMMA ScheduleFree ==
  ASSUME TypeOK, NEW st \in [Pid -> PState], NEW l \in ListOf(Pid), NEW f,
         schedule(st, l, f), st[TRIVIAL] # "FREE"
  PROVE  /\ SameFree(st, p_state')
         /\ fault' = "none" => p_state'[running_pid'] # "FREE" /\ f = "none"
<1> DEFINE p         == running_pid
           preempted == st[p] = "RUNNING" /\ p # TRIVIAL
           list      == IF preempted THEN queue(remove(l, p), p) ELSE l
           left      == IF preempted \/ p = TRIVIAL THEN [st EXCEPT ![p] = "READY"] ELSE st
           new       == getNextReadyProcess(list)
<1>1. p \in Pid /\ TRIVIAL \in Pid
  BY PidFacts DEF TypeOK, TableType
<1>2. list \in ListOf(Pid)
  BY <1>1, PidFacts, ListType
<1>3. new \in Pid
  BY <1>2, PidFacts DEF getNextReadyProcess, ListOf
<1>4. left \in [Pid -> PState] /\ SameFree(st, left)
  BY <1>1 DEF SameFree, PState
<1>5. /\ p_state' = [left EXCEPT ![new] = IF @ = "FREE" THEN @ ELSE "RUNNING"]
      /\ fault' = IF left[new] = "FREE" THEN "dangling" ELSE f
      /\ running_pid' = new
  BY DEF schedule, Preempted, Left, Aged, Requeued
<1> HIDE DEF left, new, list, preempted
<1>6. SameFree(left, p_state')
  BY <1>3, <1>4, <1>5 DEF SameFree
<1>7. fault' = "none" => p_state'[running_pid'] # "FREE" /\ f = "none"
  BY <1>3, <1>4, <1>5
<1>8. QED
  BY <1>4, <1>6, <1>7 DEF SameFree

LEMMA NotifyFree ==
  ASSUME TypeOK, NEW st \in [Pid -> PState], NEW q \in Pid
  PROVE  SameFree(st, Notify(st, q))
<1>1. parent_pid[q] \in Pid
  BY DEF TypeOK, FamilyType
<1>2. QED
  BY <1>1 DEF Notify, SetState, CanSet, SameFree

(* What a step that keeps the entries, next_pid and the count has to show. *)
LEMMA SlotsKept ==
  ASSUME SlotsInv, fault = "none", TypeOK',
         SameFree(p_state, p_state'), UNCHANGED slots,
         pc'[TRIVIAL] = pc[TRIVIAL],
         fault' = "none" => p_state'[running_pid'] # "FREE"
  PROVE  SlotsInv'
<1>1. TRIVIAL \in Pid /\ next_pid \in Pid
  BY PidFacts DEF SlotsInv, TypeOK, SlotsType
<1>2. TrivialAlive' /\ RunningAlive'
  BY <1>1 DEF SlotsInv, TrivialAlive, RunningAlive, SameFree
<1>3. Live' = Live
  BY DEF Live, SameFree
<1>4. SlotsOK'
  BY <1>1, <1>3 DEF SlotsInv, SlotsOK, SameFree, slots
<1>5. QED
  BY <1>2, <1>4 DEF SlotsInv

LEMMA ChangeStateFree ==
  ASSUME SlotsInv, fault = "none",
         NEW p \in Pid, NEW q \in Pid, NEW new \in {"READY", "BLOCKED"}, ChangeState(p, q, new)
  PROVE  SameFree(p_state, p_state') /\ (fault' = "none" => p_state'[running_pid'] # "FREE")
<1> DEFINE st   == SetState(p_state, q, new)
           list == SetStateList(p_state, ready_processes, q, new)
<1>0. TypeOK /\ p_state \in [Pid -> PState] /\ running_pid \in Pid /\ TRIVIAL \in Pid
      /\ p_state[TRIVIAL] # "FREE" /\ p_state[running_pid] # "FREE"
  BY PidFacts DEF SlotsInv, TypeOK, TableType, TrivialAlive, RunningAlive
<1>1. st \in [Pid -> PState] /\ list \in ListOf(Pid)
  BY <1>0, SetStateType DEF TypeOK, TableType
<1>2. SameFree(p_state, st)
  BY <1>0 DEF ChangeState, SetState, CanSet, SameFree
<1>3. CASE new = "BLOCKED" /\ q = p
  <2>1. schedule(st, list, fault)
    BY <1>3 DEF ChangeState
  <2> HIDE DEF st, list
  <2>2. st[TRIVIAL] # "FREE"
    BY <1>0, <1>2 DEF SameFree
  <2>3. SameFree(st, p_state') /\ (fault' = "none" => p_state'[running_pid'] # "FREE")
    BY <1>0, <1>1, <2>1, <2>2, ScheduleFree
  <2>4. QED
    BY <1>2, <2>3 DEF SameFree
<1>4. CASE ~ (new = "BLOCKED" /\ q = p)
  <2>1. p_state' = st /\ running_pid' = running_pid
    BY <1>4 DEF ChangeState
  <2> HIDE DEF st, list
  <2>2. QED
    BY <1>0, <1>2, <2>1 DEF SameFree
<1>5. QED
  BY <1>3, <1>4

LEMMA ChangeStateSlots ==
  ASSUME SlotsInv, fault = "none", TypeOK', pc'[TRIVIAL] = pc[TRIVIAL],
         NEW p \in Pid, NEW q \in Pid, NEW new \in {"READY", "BLOCKED"}, ChangeState(p, q, new)
  PROVE  SlotsInv'
<1>1. UNCHANGED slots
  BY DEF ChangeState
<1>2. QED
  BY <1>1, ChangeStateFree, SlotsKept

LEMMA WaitFree ==
  ASSUME SlotsInv, fault = "none", NEW p \in Pid, Wait(p)
  PROVE  SameFree(p_state, p_state') /\ (fault' = "none" => p_state'[running_pid'] # "FREE")
<1> DEFINE st == [p_state EXCEPT ![p] = "BLOCKED"]
<1>1. /\ schedule(st, remove(ready_processes, p), fault) /\ p = running_pid /\ p # TRIVIAL
  BY DEF Wait, waitPid, Doing, Running
<1>2. /\ TypeOK /\ p_state \in [Pid -> PState] /\ TRIVIAL \in Pid
      /\ p_state[TRIVIAL] # "FREE" /\ p_state[p] # "FREE"
  BY <1>1, PidFacts DEF SlotsInv, TypeOK, TableType, TrivialAlive, RunningAlive
<1>3. remove(ready_processes, p) \in ListOf(Pid) /\ st \in [Pid -> PState]
  BY <1>2, PidFacts, ListType DEF TypeOK, TableType, PState
<1>4. SameFree(p_state, st) /\ st[TRIVIAL] # "FREE"
  BY <1>1, <1>2 DEF SameFree
<1> HIDE DEF st
<1>5. SameFree(st, p_state') /\ (fault' = "none" => p_state'[running_pid'] # "FREE")
  BY <1>1, <1>2, <1>3, <1>4, ScheduleFree
<1>6. QED
  BY <1>4, <1>5 DEF SameFree

-----------------------------------------------------------------------------
(* The steps that fill a slot or empty one.                                *)

LEMMA CreateSlots ==
  ASSUME SlotsInv, NEW p \in Pid, NEW r, CreateInSlot(p, r), p_state[next_pid] = "FREE",
         fault = "none"
  PROVE  /\ Live' = Live \cup {next_pid} /\ process_count' = Cardinality(Live')
         /\ p_state'[TRIVIAL] # "FREE" /\ p_state'[running_pid'] # "FREE"
<1>1. /\ next_pid \in Pid /\ p_state \in [Pid -> PState] /\ running_pid \in Pid
      /\ TRIVIAL \in Pid /\ IsFiniteSet(Live) /\ next_pid \notin Live
  <2>1. IsFiniteSet(Live)
    BY PidFacts, FS_Subset DEF Live
  <2>2. QED
    BY <2>1, PidFacts DEF SlotsInv, TypeOK, SlotsType, TableType, Live
<1>2. /\ p_state' = [p_state EXCEPT ![next_pid] = "READY"]
      /\ process_count' = process_count + 1 /\ running_pid' = running_pid
  BY DEF CreateInSlot
<1>3. Live' = Live \cup {next_pid}
  BY <1>1, <1>2 DEF Live
<1>4. Cardinality(Live') = Cardinality(Live) + 1
  BY <1>1, <1>3, FS_AddElement
<1>5. process_count = Cardinality(Live)
  BY DEF SlotsInv, SlotsOK
<1>6. p_state'[TRIVIAL] # "FREE" /\ p_state'[running_pid'] # "FREE"
  BY <1>1, <1>2 DEF SlotsInv, TrivialAlive, RunningAlive
<1>7. QED
  BY <1>2, <1>3, <1>4, <1>5, <1>6

LEMMA LeaveFree ==
  ASSUME SlotsInv, fault = "none", NEW q \in Pid, q # TRIVIAL, p_state[q] # "FREE",
         NEW woken \in [Pid -> PState], SameFree(p_state, woken),
         NEW l \in ListOf(Pid), Leave([woken EXCEPT ![q] = "FREE"], l, q)
  PROVE  /\ \A p \in Pid : p_state'[p] = "FREE" <=> p_state[p] = "FREE" \/ p = q
         /\ Live' = Live \ {q}
         /\ fault' = "none" => p_state'[running_pid'] # "FREE"
<1> DEFINE st == [woken EXCEPT ![q] = "FREE"]
<1>1. /\ TypeOK /\ TRIVIAL \in Pid /\ running_pid \in Pid
      /\ p_state[TRIVIAL] # "FREE" /\ p_state[running_pid] # "FREE" /\ p_state \in [Pid -> PState]
  BY PidFacts DEF SlotsInv, TypeOK, TableType, TrivialAlive, RunningAlive
<1>2. st \in [Pid -> PState] /\ \A p \in Pid : st[p] = "FREE" <=> p_state[p] = "FREE" \/ p = q
  BY DEF SameFree, PState
<1>3. memFree(l, q) \in ListOf(Pid)
  BY PidFacts, ListType
<1>4. Leave(st, l, q)
  OBVIOUS
<1> HIDE DEF st
<1>5. SameFree(st, p_state') /\ (fault' = "none" => p_state'[running_pid'] # "FREE")
  <2>1. CASE q = running_pid
    <3>1. schedule(st, memFree(l, q), FreeFault(l, q))
      BY <1>4, <2>1 DEF Leave
    <3>2. QED
      BY <1>1, <1>2, <1>3, <3>1, ScheduleFree
  <2>2. CASE q # running_pid
    BY <1>1, <1>2, <1>4, <2>2 DEF Leave, SameFree
  <2>3. QED
    BY <2>1, <2>2
<1>6. \A p \in Pid : p_state'[p] = "FREE" <=> p_state[p] = "FREE" \/ p = q
  BY <1>2, <1>5 DEF SameFree
<1>7. Live' = Live \ {q}
  BY <1>6 DEF Live
<1>8. QED
  BY <1>5, <1>6, <1>7

LEMMA LeaveSlots ==
  ASSUME SlotsInv, fault = "none", TypeOK', NEW q \in Pid, q # TRIVIAL, p_state[q] # "FREE",
         NEW woken \in [Pid -> PState], SameFree(p_state, woken),
         NEW l \in ListOf(Pid), Leave([woken EXCEPT ![q] = "FREE"], l, q),
         pc'[TRIVIAL] = pc[TRIVIAL],
         next_pid' = next_pid, process_count' = process_count - 1
  PROVE  SlotsInv'
<1>1. /\ TRIVIAL \in Pid /\ next_pid \in Pid /\ p_state[TRIVIAL] # "FREE"
      /\ IsFiniteSet(Live) /\ q \in Live
  <2>1. IsFiniteSet(Live)
    BY PidFacts, FS_Subset DEF Live
  <2>2. QED
    BY <2>1, PidFacts DEF SlotsInv, TypeOK, SlotsType, TrivialAlive, Live
<1>2. /\ \A p \in Pid : p_state'[p] = "FREE" <=> p_state[p] = "FREE" \/ p = q
      /\ Live' = Live \ {q}
      /\ fault' = "none" => p_state'[running_pid'] # "FREE"
  BY LeaveFree
<1>3. Cardinality(Live') = Cardinality(Live) - 1
  BY <1>1, <1>2, FS_RemoveElement
<1>4. TrivialAlive' /\ RunningAlive'
  BY <1>1, <1>2 DEF SlotsInv, TrivialAlive, RunningAlive
<1>5. SlotsOK'
  BY <1>1, <1>2, <1>3 DEF SlotsInv, SlotsOK
<1>6. QED
  BY <1>4, <1>5 DEF SlotsInv

LEMMA KillSlots ==
  ASSUME SlotsInv, fault = "none", TypeOK', NEW q \in Pid, kill(q)
  PROVE  SlotsInv'
<1> DEFINE dead  == [p_state EXCEPT ![q] = "TERMINATED"]
           woken == Notify(dead, q)
           list  == NotifyList(dead, Unlink(ready_processes, q), q)
<1>1. TypeOK /\ p_state \in [Pid -> PState] /\ dead \in [Pid -> PState]
  BY DEF SlotsInv, TypeOK, TableType, PState
<1>2. Unlink(ready_processes, q) \in ListOf(Pid)
  BY <1>1, NotifyType DEF TypeOK, TableType
<1>3. woken \in [Pid -> PState] /\ list \in ListOf(Pid)
  BY <1>1, <1>2, NotifyType
<1>4. q # TRIVIAL /\ p_state[q] # "FREE"
  BY DEF kill, TRIVIAL
<1>5. SameFree(p_state, dead) /\ SameFree(dead, woken)
  BY <1>1, <1>4, NotifyFree DEF SameFree
<1>6. /\ Leave([woken EXCEPT ![q] = "FREE"], list, q)
      /\ next_pid' = next_pid /\ process_count' = process_count - 1
      /\ pc' = [pc EXCEPT ![q] = "user"]
  BY DEF kill, FreeProcess
<1>7. pc'[TRIVIAL] = pc[TRIVIAL]
  BY <1>1, <1>4, <1>6, PidFacts DEF TypeOK
<1> HIDE DEF woken, list, dead
<1>8. SameFree(p_state, woken)
  BY <1>5 DEF SameFree
<1>9. QED
  BY <1>3, <1>4, <1>6, <1>7, <1>8, LeaveSlots

LEMMA ExitSlots ==
  ASSUME SlotsInv, fault = "none", TypeOK', NEW p \in Pid, Exit(p)
  PROVE  SlotsInv'
<1>1. /\ TypeOK /\ p_state \in [Pid -> PState] /\ TRIVIAL \in Pid /\ pc \in [Pid -> Place]
      /\ p = running_pid /\ p_state[p] # "FREE" /\ p # TRIVIAL
  <2>1. p = running_pid /\ (p > 2 \/ pc[p] \in ExitSteps)
    BY DEF Exit, ExitUnlink, ExitTerminate, ExitNotify, ExitHandOver, ExitReparent,
           ExitFree, Running, Doing, ExitSteps
  <2>2. p # TRIVIAL
    BY <2>1 DEF SlotsInv, TrivialAlive, ExitSteps, TRIVIAL
  <2>3. QED
    BY <2>1, <2>2, PidFacts DEF SlotsInv, TypeOK, TableType, RunningAlive
<1>2. CASE ExitUnlink(p) \/ ExitTerminate(p) \/ ExitNotify(p) \/ ExitHandOver(p) \/ ExitReparent(p)
  <2>1. running_pid' = running_pid /\ UNCHANGED slots
    BY <1>2 DEF ExitUnlink, ExitTerminate, ExitNotify, ExitHandOver, ExitReparent, table
  <2>2. SameFree(p_state, p_state')
    BY <1>1, <1>2, NotifyFree
       DEF ExitUnlink, ExitTerminate, ExitNotify, ExitHandOver, ExitReparent, table, SameFree
  <2>3. pc'[TRIVIAL] = pc[TRIVIAL]
    BY <1>1, <1>2 DEF ExitUnlink, ExitTerminate, ExitNotify, ExitHandOver, ExitReparent
  <2>4. QED
    BY <1>1, <2>1, <2>2, <2>3, SlotsKept DEF SameFree
<1>3. CASE ExitFree(p)
  <2>1. /\ Leave([p_state EXCEPT ![p] = "FREE"], ready_processes, p)
        /\ next_pid' = next_pid /\ process_count' = process_count - 1
        /\ pc' = [pc EXCEPT ![p] = "user"]
    BY <1>3 DEF ExitFree, FreeProcess
  <2>2. SameFree(p_state, p_state) /\ ready_processes \in ListOf(Pid)
    BY <1>1 DEF SameFree, TypeOK, TableType
  <2>3. pc'[TRIVIAL] = pc[TRIVIAL]
    BY <1>1, <2>1
  <2>4. QED
    BY <1>1, <2>1, <2>2, <2>3, LeaveSlots
<1>4. QED
  BY <1>2, <1>3 DEF Exit

LEMMA SyscallSlots ==
  ASSUME SlotsInv, fault = "none", TypeOK', NEW p \in Pid, Syscall(p)
  PROVE  SlotsInv'
<1>1. /\ TypeOK /\ p_state \in [Pid -> PState] /\ TRIVIAL \in Pid /\ pc \in [Pid -> Place]
      /\ p_state[TRIVIAL] # "FREE" /\ running_pid \in Pid /\ p_state[running_pid] # "FREE"
  BY PidFacts DEF SlotsInv, TypeOK, TableType, TrivialAlive, RunningAlive
<1>2. CASE Create(p)
  <2>1. PICK r \in Spawns[program[p]] : createProcess(p, r)
    BY <1>2 DEF Create
  <2>2. CASE p_state[next_pid] # "FREE" \/ Free(p_state') = {}
    <3>1. fault' # "none"
      BY <2>1, <2>2 DEF createProcess, CreateFault
    <3>2. p_state'[TRIVIAL] # "FREE" /\ pc' = pc
      BY <1>1, <2>1 DEF createProcess, CreateInSlot
    <3>3. QED
      BY <3>1, <3>2 DEF SlotsInv, TrivialAlive, RunningAlive, SlotsOK
  <2>3. CASE p_state[next_pid] = "FREE" /\ Free(p_state') # {}
    <3>1. /\ process_count' = Cardinality(Live')
          /\ p_state'[TRIVIAL] # "FREE" /\ p_state'[running_pid'] # "FREE"
      BY <2>1, <2>3, CreateSlots DEF createProcess
    <3>2. next_pid' \in Free(p_state') /\ pc' = pc
      <4>1. next_pid \in Pid
        BY <1>1 DEF TypeOK, SlotsType
      <4>2. QED
        BY <2>1, <2>3, <4>1, NextPidFree DEF createProcess
    <3>3. p_state'[next_pid'] = "FREE"
      BY <3>2 DEF Free
    <3>4. QED
      BY <3>1, <3>2, <3>3 DEF SlotsInv, TrivialAlive, RunningAlive, SlotsOK
  <2>4. QED
    BY <2>2, <2>3
<1>3. CASE Yield(p)
  <2>1. SameFree(p_state, p_state') /\ (fault' = "none" => p_state'[running_pid'] # "FREE")
    BY <1>1, <1>3, ScheduleFree DEF Yield, TypeOK, TableType
  <2>2. UNCHANGED slots /\ pc'[TRIVIAL] = pc[TRIVIAL]
    BY <1>3 DEF Yield
  <2>3. QED
    BY <2>1, <2>2, SlotsKept
<1>4. CASE Sleep(p)
  <2>1. ChangeState(p, p, "BLOCKED") /\ pc'[TRIVIAL] = pc[TRIVIAL]
    BY <1>1, <1>4 DEF Sleep, Doing
  <2>2. QED
    BY <2>1, ChangeStateSlots
<1>5. CASE Wait(p)
  <2>1. UNCHANGED slots /\ pc' = [pc EXCEPT ![p] = "wait"] /\ p # TRIVIAL
    BY <1>5 DEF Wait, waitPid, Doing
  <2>2. pc'[TRIVIAL] = pc[TRIVIAL]
    BY <1>1, <2>1
  <2>3. QED
    BY <1>5, <2>1, <2>2, WaitFree, SlotsKept
<1>6. ASSUME NEW q \in Pid, Kill(p, q)
      PROVE  SlotsInv'
  BY <1>6, KillSlots DEF Kill
<1>7. ASSUME NEW q \in Pid, Block(p, q) \/ Unblock(p, q) \/ Wake(p, q)
      PROVE  SlotsInv'
  <2>1. /\ ChangeState(p, q, "READY") \/ ChangeState(p, q, "BLOCKED")
        /\ pc'[TRIVIAL] = pc[TRIVIAL]
    BY <1>7 DEF Block, Unblock, Wake
  <2>2. QED
    BY <2>1, ChangeStateSlots
<1>8. ASSUME NEW q \in Pid, NEW new \in 0 .. QtyPriorities - 1, Nice(p, q, new)
      PROVE  SlotsInv'
  BY <1>1, <1>8, SlotsKept DEF Nice, SameFree
<1>9. QED
  BY <1>2, <1>3, <1>4, <1>5, <1>6, <1>7, <1>8 DEF Syscall

LEMMA BootSlots ==
  ASSUME SlotsInv, fault = "none", TypeOK', Boot
  PROVE  SlotsInv'
<1>1. TypeOK /\ TRIVIAL \in Pid /\ pc \in [Pid -> Place]
  BY PidFacts DEF SlotsInv, TypeOK
<1>2. CASE BootCreate
  <2>1. PICK r \in Spawns["trivial"] : CreateInSlot(TRIVIAL, r)
    BY <1>2 DEF BootCreate
  <2>2. p_state[next_pid] = "FREE" /\ pc'[TRIVIAL] = "set_next"
    BY <1>1, <1>2 DEF BootCreate, Running, SlotsInv, SlotsOK
  <2>3. /\ process_count' = Cardinality(Live')
        /\ p_state'[TRIVIAL] # "FREE" /\ p_state'[running_pid'] # "FREE"
    BY <1>1, <2>1, <2>2, CreateSlots
  <2>4. QED
    BY <2>2, <2>3 DEF SlotsInv, TrivialAlive, RunningAlive, SlotsOK
<1>3. CASE BootSetNext
  <2>1. next_pid \in Pid
    BY <1>1 DEF TypeOK, SlotsType
  <2>2. fault' = "none" => next_pid' \in Free(p_state)
    BY <1>3, <2>1, NextPidFree DEF BootSetNext
  <2>3. /\ p_state' = p_state /\ running_pid' = running_pid /\ process_count' = process_count
        /\ pc'[TRIVIAL] = "user"
    BY <1>1, <1>3 DEF BootSetNext, table
  <2>4. QED
    BY <2>2, <2>3 DEF SlotsInv, TrivialAlive, RunningAlive, SlotsOK, Free, Live
<1>4. QED
  BY <1>2, <1>3 DEF Boot

-----------------------------------------------------------------------------
LEMMA SlotsAlways == Spec => []SlotsInv
<1>1. Init => SlotsInv
  <2> SUFFICES ASSUME Init
               PROVE  SlotsInv
    OBVIOUS
  <2>1. Live = {TRIVIAL}
    BY PidFacts DEF Init, Live
  <2>2. Cardinality(Live) = 1
    BY <2>1, FS_Singleton
  <2>3. TypeOK
    BY TypeInit
  <2>4. QED
    BY <2>2, <2>3, PidFacts DEF Init, SlotsInv, TrivialAlive, RunningAlive, SlotsOK, TRIVIAL
<1>2. SlotsInv /\ [Next]_vars => SlotsInv'
  <2> SUFFICES ASSUME SlotsInv, [Next]_vars
               PROVE  SlotsInv'
    OBVIOUS
  <2>1. TypeOK'
    BY TypeStep DEF SlotsInv
  <2>2. CASE UNCHANGED vars
    BY <2>1, <2>2 DEF vars, table, slots, SlotsInv, TrivialAlive, RunningAlive, SlotsOK, Live
  <2>3. CASE Next
    <3>1. fault = "none"
      BY <2>3 DEF Next
    <3>2. /\ p_state \in [Pid -> PState] /\ TRIVIAL \in Pid /\ TypeOK
          /\ p_state[TRIVIAL] # "FREE" /\ running_pid \in Pid /\ p_state[running_pid] # "FREE"
      BY <3>1, PidFacts DEF SlotsInv, TypeOK, TableType, TrivialAlive, RunningAlive
    <3>3. CASE Boot
      BY <2>1, <3>1, <3>3, BootSlots
    <3>4. CASE Tick
      <4>1. SameFree(p_state, p_state') /\ (fault' = "none" => p_state'[running_pid'] # "FREE")
        <5>1. CASE remaining_rounds > 0
          BY <3>2, <3>4, <5>1 DEF Tick, SameFree
        <5>2. CASE ~ (remaining_rounds > 0)
          BY <3>2, <3>4, <5>2, ScheduleFree DEF Tick, TypeOK, TableType
        <5>3. QED
          BY <5>1, <5>2
      <4>2. UNCHANGED slots /\ pc'[TRIVIAL] = pc[TRIVIAL]
        BY <3>4 DEF Tick
      <4>3. QED
        BY <2>1, <3>1, <4>1, <4>2, SlotsKept
    <3>5. CASE CtrlC
      BY <2>1, <3>1, <3>2, <3>5, KillSlots DEF CtrlC, TypeOK, TerminalType
    <3>6. ASSUME NEW q \in Pid, KeyWake(q)
          PROVE  SlotsInv'
      BY <2>1, <3>1, <3>2, <3>6, ChangeStateSlots DEF KeyWake
    <3>7. ASSUME NEW p \in Pid, Syscall(p)
          PROVE  SlotsInv'
      BY <2>1, <3>1, <3>7, SyscallSlots
    <3>8. ASSUME NEW p \in Pid, Kernel(p)
          PROVE  SlotsInv'
      <4>1. CASE Return(p)
        <5>1. UNCHANGED slots /\ p_state' = p_state /\ running_pid' = running_pid
          BY <4>1 DEF Return, table
        <5>2. pc'[TRIVIAL] = pc[TRIVIAL]
          BY <3>2, <4>1 DEF Return, SlotsInv, TrivialAlive, TypeOK
        <5>3. QED
          BY <2>1, <3>1, <3>2, <5>1, <5>2, SlotsKept DEF SameFree
      <4>2. QED
        BY <2>1, <3>1, <3>8, <4>1, ExitSlots DEF Kernel
    <3>9. QED
      BY <2>3, <3>3, <3>4, <3>5, <3>6, <3>7, <3>8 DEF Next, Interrupt
  <2>4. QED
    BY <2>2, <2>3
<1>3. QED
  BY <1>1, <1>2, PTL DEF Spec

(* The table is in order: createProcess() always fills an empty slot when  *)
(* the count says there is room.  Between the creation of init and the     *)
(* search for the next slot nothing is promised of next_pid, and this is   *)
(* where a timer interrupt would be dangerous.                             *)
THEOREM SlotsCorrect == Spec => []SlotsOK
<1>1. SlotsInv => SlotsOK
  BY DEF SlotsInv
<1>2. QED
  BY <1>1, SlotsAlways, PTL
=============================================================================
