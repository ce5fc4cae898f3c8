--------------------------- MODULE CircularBuffer ---------------------------
(***************************************************************************)
(* CircularBuffer<T> (src/include/hohnor/common/CircularBuffer.h): a ring  *)
(* of max_size = maxSize + 1 slots.  One slot stays free, so that a full   *)
(* ring differs from an empty one.                                         *)
(***************************************************************************)
EXTENDS Integers, Sequences

CONSTANTS maxSize,     \* the argument of the constructor
          Items,       \* the values that are stored
          empty_item   \* T()

ASSUME SizeAssumption == maxSize \in Nat /\ maxSize >= 2
ASSUME ItemAssumption == empty_item \notin Items

max_size == maxSize + 1

VARIABLES buffer, head, tail

ring == <<buffer, head, tail>>

RingInit ==
  /\ buffer = [i \in 0..(max_size - 1) |-> empty_item]
  /\ head = 0
  /\ tail = 0

\* Mutant: the indexes do not wrap.
NoWrap(i) == i + 1

After(i) == (i + 1) % max_size

empty == head = tail
full == After(tail) = head

size == IF tail >= head THEN tail - head ELSE max_size - (head - tail)

\* front() of a ring that is not empty.
front == buffer[head]

enqueue(item) ==
  /\ ~full
  /\ buffer' = [buffer EXCEPT ![tail] = item]
  /\ tail' = After(tail)
  /\ UNCHANGED head

\* Mutant: the end of the ring is one slot too early.
DequeueWrapsEarly ==
  /\ ~empty
  /\ buffer' = [buffer EXCEPT ![head] = empty_item]
  /\ head' = (head + 1) % maxSize
  /\ UNCHANGED tail

\* Mutant: the slot keeps what was in it.
DequeueKeepsItem ==
  /\ ~empty
  /\ head' = After(head)
  /\ UNCHANGED <<buffer, tail>>

dequeue ==
  /\ ~empty
  /\ buffer' = [buffer EXCEPT ![head] = empty_item]
  /\ head' = After(head)
  /\ UNCHANGED tail

\* The slot of the i-th element from the head, and the elements in order.
Slot(i) == (head + i - 1) % max_size
Contents == [i \in 1..size |-> buffer[Slot(i)]]

RingOK ==
  /\ buffer \in [0..(max_size - 1) -> Items \cup {empty_item}]
  /\ head \in 0..(max_size - 1)
  /\ tail \in 0..(max_size - 1)

\* The slots between head and tail hold values, all the others hold nothing:
\* dequeue() leaves no reference behind.
RingIsClean ==
  \A i \in 0..(max_size - 1) :
    buffer[i] # empty_item <=>
      IF head <= tail THEN head <= i /\ i < tail ELSE i < tail \/ head <= i
=============================================================================
