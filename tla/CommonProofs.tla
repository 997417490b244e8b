---------------------------- MODULE CommonProofs ----------------------------
(***************************************************************************)
(* What several models share: what the operations of the semaphores do,    *)
(* for any set of names and of processes, and what a ring buffer holds,    *)
(* for any size.                                                           *)
(***************************************************************************)
EXTENDS Semaphores, WellFoundedInduction, NaturalsInduction, SequenceTheorems, TLAPS

(* A set of numbers has a least one.                                       *)
LEMMA LeastExists ==
  ASSUME NEW S \in SUBSET Nat, S # {}
  PROVE  \E p \in S : \A q \in S : p <= q
<1> DEFINE R == OpToRel(<, Nat)
<1>1. IsWellFoundedOn(R, Nat)
  BY NatLessThanWellFounded
<1>2. \A a, b \in Nat : a < b => <<a, b>> \in R
  BY Zenon DEF OpToRel
<1> HIDE DEF R
<1>3. PICK p \in S : \A q \in S : ~ (<<q, p>> \in R)
  BY <1>1, WFMin
<1>4. \A q \in S : ~ (q < p)
  BY <1>2, <1>3
<1>5. \A q \in S : p <= q
  BY <1>4
<1>6. QED
  BY <1>5

(* The first of a set of places is one of them.                            *)
LEMMA FirstInSet ==
  ASSUME NEW S \in SUBSET Nat, S # {}
  PROVE  First(S) \in S
  BY LeastExists DEF First

(* A post adds a permit; nobody dies of it and nobody rises from the dead. *)
LEMMA PostFacts ==
  ASSUME NEW Sem, NEW Proc, SemTypeOK(Sem, Proc), NEW s \in open, semPost(s)
  PROVE  /\ SemTypeOK(Sem, Proc)'
         /\ value' = [value EXCEPT ![s] = @ + 1]
         /\ UNCHANGED <<open, inside, lost>>
         /\ \A p \in Proc : p_state'[p] = "TERMINATED" <=> p_state[p] = "TERMINATED"
         /\ \A p \in Proc : p_state[p] = "READY" => p_state'[p] = "READY"
<1>1. value' = [value EXCEPT ![s] = @ + 1] /\ releaseFirstP(s) /\ UNCHANGED <<open, inside, lost>>
  BY DEF semPost
<1>2. s \in Sem /\ queue[s] \in Seq(Proc)
  BY DEF SemTypeOK
<1>3. CASE LiveEntries(s) = {}
  <2>1. queue' = [queue EXCEPT ![s] = <<>>] /\ p_state' = p_state
    BY <1>1, <1>3 DEF releaseFirstP
  <2>2. QED
    BY <1>1, <1>2, <2>1 DEF SemTypeOK
<1>4. CASE LiveEntries(s) # {}
  <2> DEFINE q == queue[s]
             n == First(LiveEntries(s))
  <2>1. n \in 1 .. Len(q) /\ p_state[q[n]] # "TERMINATED"
    <3>1. LiveEntries(s) \subseteq 1 .. Len(q)
      BY DEF LiveEntries
    <3>2. n \in LiveEntries(s)
      BY <1>2, <1>4, <3>1, FirstInSet
    <3>3. QED
      BY <3>2 DEF LiveEntries
  <2>2. q[n] \in Proc
    BY <1>2, <2>1
  <2>3. /\ p_state' = [p_state EXCEPT ![q[n]] = "READY"]
        /\ queue' = [queue EXCEPT ![s] = SubSeq(q, n + 1, Len(q))]
    BY <1>1, <1>4 DEF releaseFirstP, Released
  <2>4. SubSeq(q, n + 1, Len(q)) \in Seq(Proc)
    BY <1>2, <2>1, SubSeqProperties
  <2> HIDE DEF q, n
  <2>5. QED
    BY <1>1, <1>2, <2>1, <2>2, <2>3, <2>4 DEF SemTypeOK
<1>5. QED
  BY <1>3, <1>4

(* One turn in semWait(): a permit, or one more inside, asleep.            *)
LEMMA WaitFacts ==
  ASSUME NEW Sem, NEW Proc, SemTypeOK(Sem, Proc), NEW s \in open, NEW p \in Proc, semWait(s, p)
  PROVE  /\ SemTypeOK(Sem, Proc)'
         /\ UNCHANGED <<open, lost>>
         /\ \A q \in Proc : p_state'[q] = "TERMINATED" => p_state[q] = "TERMINATED"
         /\ \A q \in Proc \ {p} : p_state'[q] = p_state[q]
         /\ Returns(s, p) <=> value[s] > 0
         /\ Returns(s, p) => /\ value' = [value EXCEPT ![s] = @ - 1]
                             /\ inside' = [inside EXCEPT ![s] = @ \ {p}]
                             /\ p_state' = p_state
         /\ ~Returns(s, p) => value' = value /\ inside' = [inside EXCEPT ![s] = @ \cup {p}]
<1>1. s \in Sem /\ (Returns(s, p) <=> value[s] > 0) /\ value[s] \in Nat
  BY DEF Returns, SemTypeOK
<1>2. CASE Returns(s, p)
  <2>1. /\ value' = [value EXCEPT ![s] = @ - 1]
        /\ inside' = [inside EXCEPT ![s] = @ \ {p}]
        /\ UNCHANGED <<open, queue, lost, p_state>>
    BY <1>1, <1>2 DEF semWait
  <2>2. QED
    BY <1>1, <1>2, <2>1 DEF SemTypeOK
<1>3. CASE ~Returns(s, p)
  <2>1. /\ queue' = [queue EXCEPT ![s] = Append(@, p)]
        /\ inside' = [inside EXCEPT ![s] = @ \cup {p}]
        /\ p_state' = [p_state EXCEPT ![p] = "BLOCKED"]
        /\ UNCHANGED <<open, value, lost>>
    BY <1>1, <1>3 DEF semWait
  <2>2. QED
    BY <1>1, <1>3, <2>1 DEF SemTypeOK
<1>4. QED
  BY <1>2, <1>3

-----------------------------------------------------------------------------
(* A ring of N places: the place n behind r, and the n values of b from r  *)
(* on; one of its values is written over.                                  *)
Ring(N, V) == [0 .. N - 1 -> V]

Behind(N, r, n) == IF r + n < N THEN r + n ELSE r + n - N

Slice(N, b, r, n) == [k \in 1 .. n |-> b[(r + k - 1) % N]]

WrittenAt(b, i, c) == [b EXCEPT ![i] = c]

LEMMA ModSmall == ASSUME NEW b \in Nat \ {0}, NEW a \in 0 .. b - 1 PROVE a % b = a
  BY SMTT(30)

LEMMA ModOver == ASSUME NEW b \in Nat \ {0}, NEW a \in b .. 2 * b - 1 PROVE a % b = a - b
  BY SMTT(30)

LEMMA BehindIs ==
  ASSUME NEW N \in Nat \ {0}, NEW r \in 0 .. N - 1, NEW n \in 0 .. N
  PROVE  (r + n) % N = Behind(N, r, n) /\ Behind(N, r, n) \in 0 .. N - 1
<1>1. CASE r + n < N
  BY <1>1, ModSmall DEF Behind
<1>2. CASE r + n >= N
  BY <1>2, ModOver, SMTT(30) DEF Behind
<1>3. QED
  BY <1>1, <1>2

LEMMA PlaceIs ==
  ASSUME NEW N \in Nat \ {0}, NEW r \in 0 .. N - 1, NEW n \in 0 .. N, NEW k \in 1 .. n
  PROVE  /\ (r + k - 1) % N = Behind(N, r, k - 1)
         /\ Behind(N, r, k - 1) \in 0 .. N - 1
<1>1. k - 1 \in 0 .. N /\ r + k - 1 = r + (k - 1)
  OBVIOUS
<1>2. QED
  BY <1>1, BehindIs

LEMMA SliceIs ==
  ASSUME NEW N \in Nat \ {0}, NEW V, NEW b \in Ring(N, V), NEW r \in 0 .. N - 1, NEW n \in 0 .. N
  PROVE  Slice(N, b, r, n) \in Seq(V) /\ Len(Slice(N, b, r, n)) = n
<1>1. \A k \in 1 .. n : b[(r + k - 1) % N] \in V
  BY PlaceIs DEF Ring
<1>2. n \in Nat
  OBVIOUS
<1>3. QED
  BY <1>1, <1>2 DEF Slice

LEMMA SliceAt ==
  ASSUME NEW N \in Nat \ {0}, NEW b, NEW r \in 0 .. N - 1, NEW n \in 0 .. N, NEW k \in 1 .. n
  PROVE  Slice(N, b, r, n)[k] = b[Behind(N, r, k - 1)]
  BY PlaceIs DEF Slice

(* A value more, at the end.                                               *)
LEMMA SliceGrows ==
  ASSUME NEW N \in Nat \ {0}, NEW V, NEW b \in Ring(N, V),
         NEW r \in 0 .. N - 1, NEW n \in 0 .. N - 1, NEW c \in V
  PROVE  Slice(N, WrittenAt(b, Behind(N, r, n), c), r, n + 1) = Append(Slice(N, b, r, n), c)
<1> DEFINE d == WrittenAt(b, Behind(N, r, n), c)
           P == Slice(N, b, r, n)
           Q == Slice(N, d, r, n + 1)
<1>1. Behind(N, r, n) \in 0 .. N - 1 /\ n \in 0 .. N /\ n + 1 \in 0 .. N /\ n \in Nat
  BY BehindIs
<1>2. d \in Ring(N, V)
  BY <1>1 DEF Ring, WrittenAt
<1>3. P \in Seq(V) /\ Len(P) = n /\ \A k \in 1 .. n : P[k] = b[Behind(N, r, k - 1)]
  <2>1. P \in Seq(V)
    BY <1>1, SliceIs
  <2>2. Len(P) = n
    BY <1>1, SliceIs
  <2>3. \A k \in 1 .. n : P[k] = b[Behind(N, r, k - 1)]
    BY <1>1, SliceAt
  <2>4. QED
    BY <2>1, <2>2, <2>3
<1> HIDE DEF d
<1>4. Q \in Seq(V) /\ Len(Q) = n + 1 /\ \A k \in 1 .. n + 1 : Q[k] = d[Behind(N, r, k - 1)]
  <2>1. Q \in Seq(V)
    BY <1>1, <1>2, SliceIs
  <2>2. Len(Q) = n + 1
    BY <1>1, <1>2, SliceIs
  <2>3. \A k \in 1 .. n + 1 : Q[k] = d[Behind(N, r, k - 1)]
    BY <1>1, <1>2, SliceAt
  <2>4. QED
    BY <2>1, <2>2, <2>3
<1> HIDE DEF P, Q
<1>5. \A k \in 1 .. n : d[Behind(N, r, k - 1)] = b[Behind(N, r, k - 1)]
  <2>1. \A k \in 1 .. n : Behind(N, r, k - 1) # Behind(N, r, n) /\ Behind(N, r, k - 1) \in 0 .. N - 1
    BY <1>1 DEF Behind
  <2>2. QED
    BY <2>1 DEF d, Ring, WrittenAt
<1>6. d[Behind(N, r, n)] = c
  BY <1>1 DEF d, Ring, WrittenAt
<1>7. \A k \in 1 .. n + 1 : Q[k] = Append(P, c)[k]
  <2>1. SUFFICES ASSUME NEW k \in 1 .. n + 1
                 PROVE  Q[k] = Append(P, c)[k]
    OBVIOUS
  <2>2. CASE k \in 1 .. n
    <3>1. Append(P, c)[k] = P[k]
      BY <1>3, <2>2
    <3>2. Q[k] = d[Behind(N, r, k - 1)] /\ P[k] = b[Behind(N, r, k - 1)]
      BY <1>3, <1>4, <2>2
    <3>3. QED
      BY <1>5, <2>2, <3>1, <3>2
  <2>3. CASE k = n + 1
    <3>1. k - 1 = n
      BY <1>1, <2>3
    <3>2. QED
      BY <1>1, <1>3, <1>4, <1>6, <2>3, <3>1
  <2>4. k \in 1 .. n \/ k = n + 1
    BY <1>1
  <2>5. QED
    BY <2>2, <2>3, <2>4
<1>8. Append(P, c) \in Seq(V) /\ Len(Append(P, c)) = n + 1
  BY <1>3
<1>9. Q = Append(P, c)
  BY <1>4, <1>7, <1>8, SeqEqual
<1>10. QED
  BY <1>9 DEF P, Q, d

(* A value more on a full ring, in the place of the first.                 *)
LEMMA SliceTurns ==
  ASSUME NEW N \in Nat \ {0}, NEW V, NEW b \in Ring(N, V),
         NEW r \in 0 .. N - 1, NEW c \in V
  PROVE  Slice(N, WrittenAt(b, r, c), Behind(N, r, 1), N) = Append(Tail(Slice(N, b, r, N)), c)
<1> DEFINE d == WrittenAt(b, r, c)
           n == N
           P == Slice(N, b, r, n)
           Q == Slice(N, d, Behind(N, r, 1), n)
<1>1. Behind(N, r, 1) \in 0 .. n - 1 /\ n \in 0 .. n /\ n \in Nat \ {0}
  BY BehindIs
<1>2. d \in Ring(N, V)
  BY DEF Ring, WrittenAt
<1>3. P \in Seq(V) /\ Len(P) = n /\ \A k \in 1 .. n : P[k] = b[Behind(N, r, k - 1)]
  <2>1. P \in Seq(V)
    BY <1>1, SliceIs
  <2>2. Len(P) = n
    BY <1>1, SliceIs
  <2>3. \A k \in 1 .. n : P[k] = b[Behind(N, r, k - 1)]
    BY <1>1, SliceAt
  <2>4. QED
    BY <2>1, <2>2, <2>3
<1> HIDE DEF d
<1>4. Q \in Seq(V) /\ Len(Q) = n /\ \A k \in 1 .. n : Q[k] = d[Behind(N, Behind(N, r, 1), k - 1)]
  <2> DEFINE p == Behind(N, r, 1)
  <2>1. p \in 0 .. N - 1 /\ n \in 0 .. N
    BY <1>1
  <2> HIDE DEF p
  <2>2. ASSUME NEW q \in 0 .. N - 1, NEW m \in 0 .. N
        PROVE  /\ Slice(N, d, q, m) \in Seq(V) /\ Len(Slice(N, d, q, m)) = m
               /\ \A k \in 1 .. m : Slice(N, d, q, m)[k] = d[Behind(N, q, k - 1)]
    BY <1>2, SliceIs, SliceAt
  <2>3. /\ Slice(N, d, p, n) \in Seq(V) /\ Len(Slice(N, d, p, n)) = n
        /\ \A k \in 1 .. n : Slice(N, d, p, n)[k] = d[Behind(N, p, k - 1)]
    BY <2>1, <2>2
  <2>4. QED
    BY <2>3, Zenon DEF p
<1> HIDE DEF P, Q
<1>5. \A k \in 1 .. n - 1 : Behind(N, Behind(N, r, 1), k - 1) = Behind(N, r, k) /\ Behind(N, r, k) # r
                            /\ Behind(N, r, k) \in 0 .. n - 1
  BY <1>1 DEF Behind
<1>6. Behind(N, Behind(N, r, 1), n - 1) = r
  BY <1>1 DEF Behind
<1>7. Tail(P) \in Seq(V) /\ Len(Tail(P)) = n - 1 /\ \A k \in 1 .. n - 1 : Tail(P)[k] = P[k + 1]
  <2>1. P # <<>>
    BY <1>1, <1>3
  <2>2. QED
    BY <1>1, <1>3, <2>1, HeadTailProperties
<1>8. \A k \in 1 .. n : Q[k] = Append(Tail(P), c)[k]
  <2>1. SUFFICES ASSUME NEW k \in 1 .. n
                 PROVE  Q[k] = Append(Tail(P), c)[k]
    OBVIOUS
  <2>2. CASE k \in 1 .. n - 1
    <3>1. k + 1 \in 1 .. n /\ (k + 1) - 1 = k
      BY <1>1, <2>2
    <3>2. Append(Tail(P), c)[k] = b[Behind(N, r, k)]
      BY <1>3, <1>7, <2>2, <3>1
    <3>3. Q[k] = b[Behind(N, r, k)]
      BY <1>4, <1>5, <2>2 DEF d, Ring, WrittenAt
    <3>4. QED
      BY <3>2, <3>3
  <2>3. CASE k = n
    <3>1. Append(Tail(P), c)[k] = c
      BY <1>1, <1>7, <2>3
    <3>2. d[r] = c
      BY DEF d, Ring, WrittenAt
    <3>3. QED
      BY <1>4, <1>6, <2>3, <3>1, <3>2
  <2>4. k \in 1 .. n - 1 \/ k = n
    BY <1>1
  <2>5. QED
    BY <2>2, <2>3, <2>4
<1>9. Append(Tail(P), c) \in Seq(V) /\ Len(Append(Tail(P), c)) = n
  BY <1>1, <1>7
<1>10. Q = Append(Tail(P), c)
  BY <1>4, <1>8, <1>9, SeqEqual
<1>11. QED
  BY <1>10 DEF P, Q, d

(* A value less, at the beginning.                                         *)
LEMMA SliceShrinks ==
  ASSUME NEW N \in Nat \ {0}, NEW V, NEW b \in Ring(N, V),
         NEW r \in 0 .. N - 1, NEW n \in 1 .. N
  PROVE  /\ Slice(N, b, r, n) # <<>> /\ Head(Slice(N, b, r, n)) = b[r]
         /\ Slice(N, b, Behind(N, r, 1), n - 1) = Tail(Slice(N, b, r, n))
<1> DEFINE P == Slice(N, b, r, n)
           Q == Slice(N, b, Behind(N, r, 1), n - 1)
<1>1. Behind(N, r, 1) \in 0 .. N - 1 /\ n \in 0 .. N /\ n - 1 \in 0 .. N /\ n \in Nat \ {0}
  BY BehindIs
<1>2. ASSUME NEW p \in 0 .. N - 1, NEW m \in 0 .. N
      PROVE  /\ Slice(N, b, p, m) \in Seq(V) /\ Len(Slice(N, b, p, m)) = m
             /\ \A k \in 1 .. m : Slice(N, b, p, m)[k] = b[Behind(N, p, k - 1)]
  BY SliceIs, SliceAt
<1>3. P \in Seq(V) /\ Len(P) = n /\ \A k \in 1 .. n : P[k] = b[Behind(N, r, k - 1)]
  BY <1>1, <1>2
<1>4. Q \in Seq(V) /\ Len(Q) = n - 1 /\ \A k \in 1 .. n - 1 : Q[k] = b[Behind(N, Behind(N, r, 1), k - 1)]
  <2> DEFINE p == Behind(N, r, 1)
             m == n - 1
  <2>1. p \in 0 .. N - 1 /\ m \in 0 .. N
    BY <1>1
  <2> HIDE DEF p, m
  <2>2. /\ Slice(N, b, p, m) \in Seq(V) /\ Len(Slice(N, b, p, m)) = m
        /\ \A k \in 1 .. m : Slice(N, b, p, m)[k] = b[Behind(N, p, k - 1)]
    BY <2>1, <1>2
  <2>3. QED
    BY <2>2, Zenon DEF p, m
<1> HIDE DEF P, Q
<1>5. P # <<>> /\ P[1] = b[r]
  BY <1>1, <1>3 DEF Behind
<1>6. /\ Head(P) = P[1]
      /\ Tail(P) \in Seq(V) /\ Len(Tail(P)) = n - 1 /\ \A k \in 1 .. n - 1 : Tail(P)[k] = P[k + 1]
  BY <1>1, <1>3, <1>5, HeadTailProperties
<1>7. \A k \in 1 .. n - 1 : Q[k] = Tail(P)[k]
  <2>1. SUFFICES ASSUME NEW k \in 1 .. n - 1
                 PROVE  Q[k] = Tail(P)[k]
    OBVIOUS
  <2>2. k + 1 \in 1 .. n /\ (k + 1) - 1 = k /\ Behind(N, Behind(N, r, 1), k - 1) = Behind(N, r, k)
    BY <1>1 DEF Behind
  <2>3. Tail(P)[k] = P[k + 1] /\ P[k + 1] = b[Behind(N, r, (k + 1) - 1)]
    BY <1>3, <1>6, <2>2
  <2>4. Q[k] = b[Behind(N, Behind(N, r, 1), k - 1)]
    BY <1>4
  <2>5. QED
    BY <2>2, <2>3, <2>4
<1>8. Q = Tail(P)
  BY <1>4, <1>6, <1>7, SeqEqual
<1>9. QED
  BY <1>5, <1>6, <1>8 DEF P, Q
=============================================================================
