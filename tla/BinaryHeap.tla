----------------------------- MODULE BinaryHeap -----------------------------
(***************************************************************************)
(* BinaryHeap<T> (src/include/hohnor/common/BinaryHeap.h): the vector of   *)
(* the heap is a sequence, vec_[i] being element i + 1, and the comparison *)
(* given to the constructor is the constant Less.  The two loops move a    *)
(* saved element along one path of the tree.                               *)
(***************************************************************************)
EXTENDS Naturals, Sequences

CONSTANT Less(_, _)

Parent(i) == i \div 2
LChild(i) == 2 * i
RChild(i) == 2 * i + 1

\* Both loops follow next from the index start to one that next leaves where it
\* is: every element on the way moves back to the index before its own, and the
\* saved one, which was at start, takes the end.
moveAlong(v, next, start) ==
  LET path[i \in 1..Len(v)] ==
        IF next[i] = i THEN {i} ELSE {i} \cup path[next[i]]
  IN [i \in 1..Len(v) |-> IF i \notin path[start] THEN v[i]
                          ELSE IF next[i] = i THEN v[start]
                          ELSE v[next[i]]]

\* The saved element is the last one; it goes up past every parent that is not
\* less.
percolateUp(v) ==
  LET n == Len(v)
      up == [i \in 1..n |-> IF i = 1 \/ Less(v[Parent(i)], v[n])
                              THEN i ELSE Parent(i)]
  IN moveAlong(v, up, n)

\* Mutant: the right child is not looked at.
leftChild(v, save, p) ==
  IF LChild(p) <= Len(v) /\ Less(v[LChild(p)], save) THEN LChild(p) ELSE p

\* The lesser child of p if it is less than the saved element, otherwise p.
properParent(v, save, p) ==
  LET child == IF RChild(p) <= Len(v) /\ Less(v[RChild(p)], v[LChild(p)])
                 THEN RChild(p) ELSE LChild(p)
  IN IF child <= Len(v) /\ Less(v[child], save) THEN child ELSE p

\* The saved element is the first one; it goes down to the lesser child.
perolateDown(v) ==
  moveAlong(v, [i \in 1..Len(v) |-> properParent(v, v[1], i)], 1)

top(v) == v[1]

insert(v, item) == percolateUp(Append(v, item))

\* Mutant: the last element takes the first place and stays there.
popWithoutPercolating(v) ==
  LET n == Len(v)
  IN IF n = 1 THEN <<>> ELSE [i \in 1..(n - 1) |-> IF i = 1 THEN v[n] ELSE v[i]]

\* What popTop() leaves; it returns top(v).
popTop(v) ==
  LET n == Len(v)
  IN IF n = 1 THEN <<>>
     ELSE LET last == [i \in 1..(n - 1) |-> IF i = 1 THEN v[n] ELSE v[i]]
          IN perolateDown(last)

\* No element is less than its parent.
IsHeap(v) ==
  \A i \in 2..Len(v) : ~Less(v[i], v[Parent(i)])
=============================================================================
