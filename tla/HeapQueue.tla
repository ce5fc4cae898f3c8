----------------------------- MODULE HeapQueue -----------------------------
(***************************************************************************)
(* A BinaryHeap in use: items are inserted and the top is popped, in any   *)
(* order.  Several items may have equal keys.                              *)
(***************************************************************************)
EXTENDS Naturals, Sequences

CONSTANTS Keys,    \* the keys that order the items
          Ids,     \* tell items with equal keys apart
          MaxSize  \* bound on the size of the heap

ASSUME HeapAssumption == Keys \subseteq Nat /\ MaxSize \in Nat

Items == [key : Keys, id : Ids]

KeyLess(x, y) == x.key < y.key

INSTANCE BinaryHeap WITH Less <- KeyLess

VARIABLES vec,     \* vec_
          taken    \* what popTop() returned last

heapVars == <<vec, taken>>

HeapInit == vec = <<>> /\ taken = <<>>

Insert(x) ==
  /\ Len(vec) < MaxSize
  /\ \A i \in 1..Len(vec) : vec[i] # x
  /\ vec' = insert(vec, x)
  /\ UNCHANGED taken

PopTop ==
  /\ vec # <<>>
  /\ taken' = <<top(vec)>>
  /\ vec' = popTop(vec)

HeapNext == PopTop \/ \E x \in Items : Insert(x)

-----------------------------------------------------------------------------
\* The vector keeps the order of a heap, with no item twice and none lost:
\* percolateUp and perolateDown move the others by one place each.
HeapOrder ==
  /\ vec \in Seq(Items)
  /\ IsHeap(vec)
  /\ \A i, j \in 1..Len(vec) : vec[i] = vec[j] => i = j

Queue == INSTANCE PriorityQueue WITH held <- {vec[i] : i \in 1..Len(vec)}

\* popTop() takes a least item out and leaves all the others.
TakesLeast == Queue!Spec
=============================================================================
