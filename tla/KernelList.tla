----------------------------- MODULE KernelList -----------------------------
(***************************************************************************)
(* The ordered-list operations of lib/kernel/list.c, as the scheduler and  *)
(* the synchronisation primitives use them.  A list is a sequence of its   *)
(* elements; the comparison callback is "a goes before b iff               *)
(* key[a] > key[b]", which is what compare_priority and                    *)
(* compare_priority_for_donate compute.                                    *)
(*                                                                         *)
(* Both operations are given as the set of lists the C function may leave  *)
(* behind.  The set always has exactly one member; a set lets an action    *)
(* say list' \in ListSort(list, key), and lets a proof use what the result *)
(* satisfies without an induction on the length of the list.               *)
(***************************************************************************)
EXTENDS Naturals, Sequences, Functions

\* list_insert: x becomes the element after the first k ones.
PutAfter(q, k, x) ==
  [i \in 1 .. Len(q) + 1 |->
     IF i <= k THEN q[i] ELSE IF i = k + 1 THEN x ELSE q[i - 1]]

\* Mutant: an element with an equal key goes behind x.
InsertOrdered_BeforeEqual(q, x, key) ==
  {PutAfter(q, k, x) : k \in
     {k \in 0 .. Len(q) :
        /\ \A i \in 1 .. k : ~(key[x] >= key[q[i]])
        /\ k < Len(q) => key[x] >= key[q[k + 1]]}}

\* The loop of list_insert_ordered stops at the first element that x goes
\* strictly before; elements with an equal key stay in front of x.
InsertOrdered(q, x, key) ==
  {PutAfter(q, k, x) : k \in
     {k \in 0 .. Len(q) :
        /\ \A i \in 1 .. k : ~(key[x] > key[q[i]])
        /\ k < Len(q) => key[x] > key[q[k + 1]]}}

\* The orders p of the positions of q that a stable sort may produce: p[i] is
\* the old position of the element that ends up at position i.
StableOrders(q, key) ==
  {p \in [1 .. Len(q) -> 1 .. Len(q)] :
     /\ \A j \in 1 .. Len(q) : \E i \in 1 .. Len(q) : p[i] = j
     /\ \A i, j \in 1 .. Len(q) :
          i < j => \/ key[q[p[i]]] > key[q[p[j]]]
                   \/ key[q[p[i]]] = key[q[p[j]]] /\ p[i] < p[j]}

\* list_sort is a merge sort of adjacent runs; inplace_merge takes from the
\* left run unless the right element is strictly before, so it is stable.
ListSort(q, key) ==
  {[i \in 1 .. Len(q) |-> q[p[i]]] : p \in StableOrders(q, key)}

\* No element is on the list twice.
NoDup(q) == \A i, j \in 1 .. Len(q) : q[i] = q[j] => i = j
=============================================================================
