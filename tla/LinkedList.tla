----------------------------- MODULE LinkedList -----------------------------
(***************************************************************************)
(* The intrusive doubly linked list of Kernel/linkedList.c, at the level   *)
(* of its pointers.  A list is the record of its head and tail and of the  *)
(* prev and next fields of every node, the nodes outside the list          *)
(* included: remove() leaves the fields of the node it takes out as they   *)
(* were, and none of the operations asks whether the node is in the list.  *)
(* The fields len and current of the C structure only serve getLength()    *)
(* and the iterators, and are left out.                                    *)
(***************************************************************************)
EXTENDS Integers, FiniteSets

CONSTANT NULL

ListOf(Node) ==
  [first : Node \cup {NULL}, last : Node \cup {NULL},
   prev : [Node -> Node \cup {NULL}], next : [Node -> Node \cup {NULL}]]

createLinkedList(Node) ==
  [first |-> NULL, last |-> NULL,
   prev |-> [n \in Node |-> NULL], next |-> [n \in Node |-> NULL]]

(* queue(): the node becomes the last one. *)
queue(l, n) ==
  [first |-> IF l.last = NULL THEN n ELSE l.first,
   last  |-> n,
   prev  |-> [l.prev EXCEPT ![n] = l.last],
   next  |-> IF l.last = NULL THEN [l.next EXCEPT ![n] = NULL]
                              ELSE [l.next EXCEPT ![l.last] = n, ![n] = NULL]]

(* push(): the node becomes the first one. *)
push(l, n) ==
  [first |-> n,
   last  |-> IF l.first = NULL THEN n ELSE l.last,
   prev  |-> IF l.first = NULL THEN [l.prev EXCEPT ![n] = NULL]
                               ELSE [l.prev EXCEPT ![l.first] = n, ![n] = NULL],
   next  |-> [l.next EXCEPT ![n] = l.first]]

(* remove(): the neighbours the node names are joined, whether or not they *)
(* still name it.                                                          *)
remove(l, n) ==
  LET p == l.prev[n]
      q == l.next[n]
  IN  [first |-> IF p = NULL THEN q ELSE l.first,
       last  |-> IF q = NULL THEN p ELSE l.last,
       prev  |-> IF q = NULL THEN l.prev ELSE [l.prev EXCEPT ![q] = p],
       next  |-> IF p = NULL THEN l.next ELSE [l.next EXCEPT ![p] = q]]

(* The memory of a node goes back to the allocator: what its fields hold   *)
(* from then on is of no meaning.                                          *)
memFree(l, n) == [l EXCEPT !.prev = [@ EXCEPT ![n] = NULL], !.next = [@ EXCEPT ![n] = NULL]]

-----------------------------------------------------------------------------
(* Some set without n holds the head of the list and every node that a     *)
(* member's next field leads to: a walk from the head never meets n.       *)
Unlinked(l, n) ==
  \E S \in SUBSET (DOMAIN l.next \ {n}) :
     /\ l.first \in S \cup {NULL}
     /\ \A m \in S : l.next[m] \in S \cup {NULL}

(* l represents the sequence s : [1..k -> Node] of distinct nodes.         *)
Represents(l, s, k) ==
  /\ \A i, j \in 1..k : s[i] = s[j] => i = j
  /\ l.first = IF k = 0 THEN NULL ELSE s[1]
  /\ l.last  = IF k = 0 THEN NULL ELSE s[k]
  /\ \A i \in 1..k : /\ l.prev[s[i]] = IF i = 1 THEN NULL ELSE s[i-1]
                     /\ l.next[s[i]] = IF i = k THEN NULL ELSE s[i+1]

(* l links exactly the nodes of S, each once.                              *)
Links(l, S) ==
  \E s \in [1 .. Cardinality(S) -> S] : Represents(l, s, Cardinality(S))
=============================================================================
