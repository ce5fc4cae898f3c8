------------------------- MODULE ThreadPool_proofs -------------------------
(***************************************************************************)
(* Proofs about CircularBuffer, BoundedBlockingQueue and ThreadPool, for   *)
(* any finite number of workers and submitters, any capacity and any       *)
(* tasks.                                                                  *)
(*                                                                         *)
(* First the queue by itself: the ring is a bounded sequence, no           *)
(* notification is lost, and the queue implements BoundedFIFO.  A program  *)
(* that uses the queue makes the steps of QueueNext, in an order of its    *)
(* own.                                                                    *)
(*                                                                         *)
(* Then the pool: its steps are steps of the queue or leave it alone, so   *)
(* what is shown of a queue holds of the pool's, and every step moves a    *)
(* task from one place to the next.                                        *)
(***************************************************************************)
EXTENDS ThreadPool, Counting

-----------------------------------------------------------------------------
(* The queue. *)

\* The steps of the queue's clients: every call of every thread.
QueueNext ==
  \/ \E t \in Threads :
       \/ \E x \in Items : CallPut(t, x)
       \/ CallTake(t) \/ Step(t) \/ WakeUp(t)
  \/ giveUp

\* The queue under every use, without fairness.
QueueSpec == Init /\ [][QueueNext]_queueVars

-----------------------------------------------------------------------------
(* The ring. *)

\* After() is the successor of an index, but for the last one.
LEMMA AfterWraps ==
  ASSUME NEW i \in 0..maxSize
  PROVE  After(i) = IF i = maxSize THEN 0 ELSE i + 1
<1>1. CASE i = maxSize
  BY <1>1, SizeAssumption DEF After, max_size
<1>2. CASE i # maxSize
  BY <1>2, SizeAssumption DEF After, max_size
<1>3. QED
  BY <1>1, <1>2

\* From the last slot the ring goes on with the first.
LEMMA SlotWraps ==
  ASSUME NEW h \in 0..maxSize, NEW i \in 1..maxSize
  PROVE  (h + i - 1) % max_size = IF h + i <= max_size THEN h + i - 1
                                                       ELSE h + i - 1 - max_size
<1> DEFINE k == h + i - 1
<1>1. k \in 0..(2 * maxSize) /\ (k <= maxSize <=> h + i <= max_size)
  BY SizeAssumption DEF max_size
<1> HIDE DEF k
<1>2. CASE k <= maxSize
  <2>1. k % max_size = k
    BY <1>1, <1>2, SizeAssumption DEF max_size
  <2>2. QED
    BY <1>1, <1>2, <2>1 DEF k
<1>3. CASE k > maxSize
  <2>1. k % max_size = k - max_size
    BY <1>1, <1>3, SizeAssumption DEF max_size
  <2>2. ~(h + i <= max_size)
    BY <1>1, <1>3, SizeAssumption
  <2>3. k - max_size = h + i - 1 - max_size
    BY SizeAssumption DEF k, max_size
  <2>4. (h + i - 1) % max_size = k % max_size
    BY DEF k
  <2>5. QED
    BY <2>1, <2>2, <2>3, <2>4
<1>4. QED
  BY <1>1, <1>2, <1>3, SizeAssumption

\* size() is between nothing and the capacity, and tells an empty ring and a
\* full one from the others (CircularBuffer.h:95-120).
LEMMA SizeOfRing ==
  ASSUME RingOK
  PROVE  /\ size \in 0..maxSize
         /\ empty <=> size = 0
         /\ full <=> size = maxSize
<1>1. tail \in 0..maxSize /\ head \in 0..maxSize
  BY SizeAssumption DEF RingOK, max_size
<1>2. After(tail) = IF tail = maxSize THEN 0 ELSE tail + 1
  BY <1>1, AfterWraps
<1>3. QED
  BY <1>1, <1>2, SizeAssumption DEF size, empty, full, max_size

\* Only what has been put in is among the elements.
LEMMA ContentsType ==
  ASSUME RingOK, RingIsClean
  PROVE  Contents \in [1..size -> Items]
<1> SUFFICES ASSUME NEW i \in 1..size PROVE buffer[Slot(i)] \in Items
  BY DEF Contents
<1>1. size \in 0..maxSize
  BY SizeOfRing
<1>2. Slot(i) = IF head + i <= max_size THEN head + i - 1
                                        ELSE head + i - 1 - max_size
  BY <1>1, SlotWraps, SizeAssumption DEF Slot, RingOK, max_size
<1>3. Slot(i) \in 0..(max_size - 1)
  BY <1>1, <1>2, SizeAssumption DEF RingOK, max_size
<1>4. buffer[Slot(i)] # empty_item
  BY <1>1, <1>2, <1>3, SizeAssumption DEF RingOK, RingIsClean, max_size, size
<1>5. QED
  BY <1>3, <1>4 DEF RingOK

\* enqueue() appends (CircularBuffer.h:53-63).
LEMMA EnqueueAppends ==
  ASSUME RingOK, RingIsClean, NEW x \in Items, enqueue(x)
  PROVE  /\ RingOK' /\ RingIsClean'
         /\ size < maxSize /\ size' = size + 1
         /\ Contents' = Append(Contents, x)
<1>1. /\ tail \in 0..maxSize /\ head \in 0..maxSize
      /\ tail' = IF tail = maxSize THEN 0 ELSE tail + 1
      /\ head' = head /\ head # tail'
      /\ buffer' = [buffer EXCEPT ![tail] = x]
  BY AfterWraps, SizeAssumption DEF RingOK, max_size, enqueue, full
<1>2. RingOK'
  BY <1>1, SizeAssumption DEF RingOK, max_size
<1>3. RingIsClean'
  BY <1>1, <1>2, SizeAssumption, ItemAssumption DEF RingOK, RingIsClean, max_size
<1>4. size \in 0..maxSize /\ size < maxSize /\ size' = size + 1
  BY <1>1, SizeAssumption DEF size, max_size
<1>5. ASSUME NEW i \in 1..(size + 1)
      PROVE  /\ Slot(i)' = Slot(i) /\ Slot(i) \in 0..maxSize
             /\ Slot(i) = tail <=> i = size + 1
  <2>1. Slot(i) = IF head + i <= max_size THEN head + i - 1
                                          ELSE head + i - 1 - max_size
    <3>1. i \in 1..maxSize
      BY <1>4, SizeAssumption
    <3>2. QED
      BY <1>1, <3>1, SlotWraps DEF Slot
  <2>2. Slot(i)' = Slot(i)
    BY <1>1 DEF Slot
  <2>3. QED
    BY <1>1, <1>4, <2>1, <2>2, SizeAssumption DEF size, max_size
<1>6. Contents' = [i \in 1..(size + 1) |-> IF i = size + 1 THEN x
                                                         ELSE buffer[Slot(i)]]
  BY <1>1, <1>4, <1>5, SizeAssumption DEF Contents, RingOK, max_size
<1>7. Contents \in Seq(Items) /\ Len(Contents) = size
  BY <1>4, ContentsType, SizeAssumption DEF Contents
<1>8. Append(Contents, x) = [i \in 1..(size + 1) |-> IF i = size + 1 THEN x
                                                         ELSE buffer[Slot(i)]]
  BY <1>4, <1>7 DEF Contents
<1>9. QED
  BY <1>2, <1>3, <1>4, <1>6, <1>8

\* dequeue() removes the front (CircularBuffer.h:65-80).
LEMMA DequeueTakesFront ==
  ASSUME RingOK, RingIsClean, dequeue
  PROVE  /\ RingOK' /\ RingIsClean'
         /\ size > 0 /\ size' = size - 1
         /\ Contents # <<>> /\ front = Head(Contents) /\ front \in Items
         /\ Contents' = Tail(Contents)
<1>1. /\ tail \in 0..maxSize /\ head \in 0..maxSize /\ head # tail
      /\ head' = IF head = maxSize THEN 0 ELSE head + 1
      /\ tail' = tail
      /\ buffer' = [buffer EXCEPT ![head] = empty_item]
  BY AfterWraps, SizeAssumption DEF RingOK, max_size, dequeue, empty
<1>2. RingOK'
  BY <1>1, SizeAssumption DEF RingOK, max_size
<1>3. RingIsClean'
  BY <1>1, <1>2, SizeAssumption, ItemAssumption DEF RingOK, RingIsClean, max_size
<1>4. size \in 1..maxSize /\ size' = size - 1
  BY <1>1, SizeAssumption DEF size, max_size
<1>5. ASSUME NEW i \in 1..(size - 1)
      PROVE  /\ Slot(i)' = Slot(i + 1) /\ Slot(i + 1) \in 0..maxSize
             /\ Slot(i + 1) # head
  <2>1. Slot(i + 1) = IF head + i + 1 <= max_size THEN head + i
                                                  ELSE head + i - max_size
    BY <1>1, <1>4, SlotWraps, SizeAssumption DEF Slot, max_size
  <2>2. Slot(i)' = IF head' + i <= max_size THEN head' + i - 1
                                            ELSE head' + i - 1 - max_size
    <3>1. i \in 1..maxSize
      BY <1>4, SizeAssumption
    <3>2. head' \in 0..maxSize
      BY <1>1, SizeAssumption
    <3>3. QED
      BY <3>1, <3>2, SlotWraps DEF Slot, max_size
  <2>3. QED
    BY <1>1, <1>4, <2>1, <2>2, SizeAssumption DEF max_size
<1>6. Contents' = [i \in 1..(size - 1) |-> buffer[Slot(i + 1)]]
  BY <1>1, <1>4, <1>5, SizeAssumption DEF Contents, RingOK, max_size
<1>7. Contents \in Seq(Items) /\ Len(Contents) = size
  BY <1>4, ContentsType, SizeAssumption DEF Contents
<1>8. Tail(Contents) = [i \in 1..(size - 1) |-> buffer[Slot(i + 1)]]
  BY <1>4, <1>7 DEF Contents
<1>9. Contents # <<>> /\ Head(Contents) = buffer[Slot(1)]
  BY <1>4, <1>7 DEF Contents
<1>10. Slot(1) = head
  BY <1>1, SlotWraps, SizeAssumption DEF Slot, max_size
<1>11. front \in Items
  BY <1>4, <1>9, <1>10, ContentsType DEF front, Contents
<1>12. QED
  BY <1>2, <1>3, <1>4, <1>6, <1>8, <1>9, <1>10, <1>11 DEF front

-----------------------------------------------------------------------------
(* The invariant of the queue: types, a clean ring, and what is behind     *)
(* NoLostNotification, that a thread waits on the condition of the method  *)
(* it is in, and puts an item.                                             *)

\* A thread sleeps on a condition only inside the call that waits on it.
WaitsInCall ==
  /\ \A t \in notEmpty : call[t] = "take"
  /\ \A t \in notFull : call[t] = "put"

\* A put() under way carries an item.
PutsItem == \A t \in Threads : call[t] = "put" => value[t] \in Items

\* The inductive invariant.
QueueInv == TypeOK /\ RingIsClean /\ WaitsInCall /\ PutsItem /\ NoLostNotification

\* The threads on their way to the mutex.
Takers == {t \in Threads : InTake(t)}
\* The threads inside put().
Putters == {t \in Threads : InPut(t)}

\* The new queue satisfies the invariant.
LEMMA QueueInvInit == Init => QueueInv
<1> SUFFICES ASSUME Init PROVE QueueInv
  OBVIOUS
<1>1. RingOK /\ RingIsClean
  BY SizeAssumption DEF Init, RingInit, RingOK, RingIsClean, max_size
<1>2. TypeOK
  BY <1>1 DEF Init, TypeOK
<1>3. WaitsInCall /\ PutsItem /\ NoLostNotification
  BY DEF Init, WaitsInCall, PutsItem, NoLostNotification
<1>4. QED
  BY <1>1, <1>2, <1>3 DEF QueueInv

\* notify() takes one thread off a condition, if one waits.
LEMMA NotifiedOne ==
  ASSUME NEW waiting, NEW rest, Notified(waiting, rest), waiting # {}
  PROVE  \E t \in waiting : rest = waiting \ {t}
BY DEF Notified

\* A thread that is notified, or wakes up, is on its way to the mutex; one
\* that waits or returns is not any more.
LEMMA OneMore ==
  ASSUME NEW S \in SUBSET Threads, NEW t \in Threads, t \notin S
  PROVE  Cardinality(S \cup {t}) = Cardinality(S) + 1 /\ Cardinality(S) \in Nat
BY ThreadAssumption, FS_Subset, FS_AddElement, FS_CardinalityType

\* A number above one leaves another one when one is taken away.
LEMMA OneLess ==
  ASSUME NEW S \in SUBSET Threads, NEW t \in S
  PROVE  Cardinality(S \ {t}) = Cardinality(S) - 1 /\ Cardinality(S) \in Nat
BY ThreadAssumption, FS_Subset, FS_RemoveElement, FS_CardinalityType

\* A smaller set of threads is no larger in number.
LEMMA Monotone ==
  ASSUME NEW S \in SUBSET Threads, NEW T \in SUBSET S
  PROVE  Cardinality(T) <= Cardinality(S) /\ Cardinality(S) \in Nat
         /\ Cardinality(T) \in Nat
BY ThreadAssumption, FS_Subset, FS_CardinalityType

\* Every step of a client preserves the invariant.
LEMMA QueueInvStep == QueueInv /\ [QueueNext]_queueVars => QueueInv'
<1> SUFFICES ASSUME QueueInv, [QueueNext]_queueVars PROVE QueueInv'
  OBVIOUS
<1> USE DEF QueueInv, ring, waits, calls
<1>s. size \in 0..maxSize /\ maxSize \in Nat
  BY SizeOfRing, SizeAssumption DEF TypeOK
<1>p. Takers \subseteq Threads /\ Putters \subseteq Threads
  BY DEF Takers, Putters
<1>n. NoLostNotification <=>
        /\ notEmpty # {} => size <= Cardinality(Takers)
        /\ notFull # {} => maxSize - size <= Cardinality(Putters)
        /\ end => notEmpty = {} /\ notFull = {}
  BY DEF NoLostNotification, Takers, Putters
<1>n1. NoLostNotification' <=>
        /\ notEmpty' # {} => size' <= Cardinality(Takers')
        /\ notFull' # {} => maxSize - size' <= Cardinality(Putters')
        /\ end' => notEmpty' = {} /\ notFull' = {}
  BY DEF NoLostNotification, Takers, Putters
\* The ring stays as it is in most of the steps.
<1>r. ASSUME UNCHANGED <<buffer, head, tail>>
      PROVE  RingOK' /\ RingIsClean' /\ size' = size
  BY <1>r DEF TypeOK, RingOK, RingIsClean, size
<1>1. ASSUME NEW t \in Threads, NEW x \in Items, CallPut(t, x) PROVE QueueInv'
  <2> USE <1>1 DEF CallPut, Enter
  <2>1. TypeOK' /\ RingIsClean'
    BY <1>r DEF TypeOK
  <2>2. WaitsInCall' /\ PutsItem'
    BY DEF TypeOK, WaitsInCall, PutsItem
  <2>3. Takers' = Takers /\ Putters' = Putters \cup {t} /\ t \notin Putters
    BY DEF TypeOK, WaitsInCall, Takers, Putters, InTake, InPut
  <2>4. NoLostNotification'
    BY <1>s, <1>p, <1>n, <1>n1, <1>r, <2>3, OneMore
  <2>5. QED
    BY <2>1, <2>2, <2>4
<1>2. ASSUME NEW t \in Threads, CallTake(t) PROVE QueueInv'
  <2> USE <1>2 DEF CallTake, Enter
  <2>1. TypeOK' /\ RingIsClean'
    BY <1>r DEF TypeOK
  <2>2. WaitsInCall' /\ PutsItem'
    BY DEF TypeOK, WaitsInCall, PutsItem
  <2>3. Putters' = Putters /\ Takers' = Takers \cup {t} /\ t \notin Takers
    BY DEF TypeOK, WaitsInCall, Takers, Putters, InTake, InPut
  <2>4. NoLostNotification'
    BY <1>s, <1>p, <1>n, <1>n1, <1>r, <2>3, OneMore
  <2>5. QED
    BY <2>1, <2>2, <2>4
<1>3. ASSUME NEW t \in Threads, WaitNotFull(t) PROVE QueueInv'
  <2> USE <1>3 DEF WaitNotFull
  <2>1. TypeOK' /\ RingIsClean'
    BY <1>r DEF TypeOK
  <2>2. WaitsInCall' /\ PutsItem'
    BY DEF TypeOK, WaitsInCall, PutsItem, InPut
  <2>3. Takers' = Takers /\ Putters' \subseteq Threads
    BY DEF Takers, Putters, InTake
  <2>4. size = maxSize
    BY SizeOfRing DEF TypeOK
  <2>5. NoLostNotification'
    BY <1>s, <1>n, <1>n1, <1>r, <2>3, <2>4, Monotone
  <2>6. QED
    BY <2>1, <2>2, <2>5
<1>4. ASSUME NEW t \in Threads, Put(t) PROVE QueueInv'
  <2> USE <1>4 DEF Put, Leave
  <2>1. value[t] \in Items /\ t \in Putters /\ t \notin Takers
    BY DEF PutsItem, InPut, Putters, Takers, InTake
  <2>2. RingOK' /\ RingIsClean' /\ size < maxSize /\ size' = size + 1
    BY <2>1, EnqueueAppends DEF TypeOK
  <2>3. notEmpty' \subseteq notEmpty
    BY DEF Notified
  <2>4. TypeOK' /\ WaitsInCall' /\ PutsItem'
    BY <2>2, <2>3, ItemAssumption DEF TypeOK, WaitsInCall, PutsItem, InPut
  <2>5. Putters' = Putters \ {t}
    BY DEF TypeOK, Putters, InPut
  <2>6. CASE notEmpty = {}
    <3>1. notEmpty' = {}
      BY <2>6 DEF Notified
    <3>2. NoLostNotification'
      BY <1>s, <1>p, <1>n, <1>n1, <2>1, <2>2, <2>5, <3>1, OneLess
    <3>3. QED
      BY <2>2, <2>4, <3>2
  <2>7. CASE notEmpty # {}
    <3>1. PICK u \in notEmpty : notEmpty' = notEmpty \ {u}
      BY <2>7, NotifiedOne
    <3>2. u \in Threads /\ u # t /\ call[u] = "take"
      BY DEF TypeOK, WaitsInCall, InPut
    <3>3. u \notin Takers /\ Takers' = Takers \cup {u}
      BY <2>1, <3>1, <3>2 DEF TypeOK, Takers, InTake
    <3>4. NoLostNotification'
      BY <1>s, <1>p, <1>n, <1>n1, <2>1, <2>2, <2>5, <2>7, <3>2, <3>3,
         OneMore, OneLess
    <3>5. QED
      BY <2>2, <2>4, <3>4
  <2>8. QED
    BY <2>6, <2>7
<1>5. ASSUME NEW t \in Threads, PutAtEnd(t) PROVE QueueInv'
  BY <1>5, <1>r, ItemAssumption DEF PutAtEnd, Leave, InPut, TypeOK, WaitsInCall, PutsItem,
                    NoLostNotification
<1>6. ASSUME NEW t \in Threads, WaitNotEmpty(t) PROVE QueueInv'
  <2> USE <1>6 DEF WaitNotEmpty
  <2>1. TypeOK' /\ RingIsClean'
    BY <1>r DEF TypeOK
  <2>2. WaitsInCall' /\ PutsItem'
    BY DEF TypeOK, WaitsInCall, PutsItem, InTake
  <2>3. Putters' = Putters /\ Takers' \subseteq Threads
    BY DEF Takers, Putters, InPut
  <2>4. size = 0
    BY SizeOfRing DEF TypeOK
  <2>5. NoLostNotification'
    BY <1>s, <1>n, <1>n1, <1>r, <2>3, <2>4, Monotone
  <2>6. QED
    BY <2>1, <2>2, <2>5
<1>7. ASSUME NEW t \in Threads, Take(t) PROVE QueueInv'
  <2> USE <1>7 DEF Take, Leave
  <2>1. t \in Takers /\ t \notin Putters
    BY DEF InPut, Putters, Takers, InTake
  <2>2. RingOK' /\ RingIsClean' /\ size > 0 /\ size' = size - 1 /\ front \in Items
    BY DequeueTakesFront DEF TypeOK
  <2>3. notFull' \subseteq notFull
    BY DEF Notified
  <2>4. TypeOK' /\ WaitsInCall' /\ PutsItem'
    BY <2>2, <2>3 DEF TypeOK, WaitsInCall, PutsItem, InTake
  <2>5. Takers' = Takers \ {t}
    BY DEF TypeOK, Takers, InTake
  <2>6. CASE notFull = {}
    <3>1. notFull' = {}
      BY <2>6 DEF Notified
    <3>2. NoLostNotification'
      BY <1>s, <1>p, <1>n, <1>n1, <2>1, <2>2, <2>5, <3>1, OneLess
    <3>3. QED
      BY <2>2, <2>4, <3>2
  <2>7. CASE notFull # {}
    <3>1. PICK u \in notFull : notFull' = notFull \ {u}
      BY <2>7, NotifiedOne
    <3>2. u \in Threads /\ u # t /\ call[u] = "put"
      BY DEF TypeOK, WaitsInCall, InTake
    <3>3. u \notin Putters /\ Putters' = Putters \cup {u}
      BY <2>1, <3>1, <3>2 DEF TypeOK, Putters, InPut
    <3>4. NoLostNotification'
      BY <1>s, <1>p, <1>n, <1>n1, <2>1, <2>2, <2>5, <2>7, <3>2, <3>3,
         OneMore, OneLess
    <3>5. QED
      BY <2>2, <2>4, <3>4
  <2>8. QED
    BY <2>6, <2>7
<1>8. ASSUME NEW t \in Threads, TakeAtEnd(t) PROVE QueueInv'
  BY <1>8, <1>r DEF TakeAtEnd, Leave, InTake, TypeOK, WaitsInCall, PutsItem,
                    NoLostNotification
<1>9. ASSUME giveUp PROVE QueueInv'
  BY <1>9, <1>r DEF giveUp, TypeOK, WaitsInCall, PutsItem, NoLostNotification
<1>10. ASSUME NEW t \in Threads, WakeUp(t) PROVE QueueInv'
  <2> USE <1>10 DEF WakeUp
  <2>1. TypeOK' /\ RingIsClean' /\ WaitsInCall' /\ PutsItem'
    BY <1>r DEF TypeOK, WaitsInCall, PutsItem
  <2>2. Takers \subseteq Takers' /\ Putters \subseteq Putters'
        /\ Takers' \subseteq Threads /\ Putters' \subseteq Threads
    BY DEF Takers, Putters, InTake, InPut
  <2>3. /\ Cardinality(Takers) <= Cardinality(Takers')
        /\ Cardinality(Putters) <= Cardinality(Putters')
        /\ Cardinality(Takers) \in Nat /\ Cardinality(Takers') \in Nat
        /\ Cardinality(Putters) \in Nat /\ Cardinality(Putters') \in Nat
    BY <2>2, Monotone
  <2>4. NoLostNotification'
    BY <1>s, <1>n, <1>n1, <1>r, <2>3
  <2>5. QED
    BY <2>1, <2>4
<1>11. ASSUME UNCHANGED queueVars PROVE QueueInv'
  BY <1>11, <1>r DEF queueVars, TypeOK, WaitsInCall, PutsItem, NoLostNotification,
                     InTake, InPut
<1>12. QED
  BY <1>1, <1>2, <1>3, <1>4, <1>5, <1>6, <1>7, <1>8, <1>9, <1>10, <1>11
     DEF QueueNext, Step

\* Whatever the threads do with the queue, its invariant holds.
THEOREM QueueInvHolds == QueueSpec => []QueueInv
BY QueueInvInit, QueueInvStep, PTL DEF QueueSpec

-----------------------------------------------------------------------------
(* The queue implements BoundedFIFO. *)

\* The new queue is the empty abstract queue.
LEMMA FIFOInit == Init => FIFO!Init
<1> SUFFICES ASSUME Init PROVE FIFO!Init
  OBVIOUS
<1>1. Contents = <<>>
  BY DEF Init, RingInit, Contents, size
<1>2. QED
  BY <1>1 DEF Init, FIFO!Init

\* Every step of the queue is one of the abstract queue, or changes nothing
\* there: waiting and waking up are not seen.
LEMMA FIFOStep == QueueInv /\ [QueueNext]_queueVars => [FIFO!Next]_(FIFO!vars)
<1> SUFFICES ASSUME QueueInv, [QueueNext]_queueVars
             PROVE  FIFO!Next \/ UNCHANGED FIFO!vars
  OBVIOUS
<1> USE DEF ring, waits, calls
<1>r. ASSUME UNCHANGED <<buffer, head, tail>> PROVE Contents' = Contents
  BY <1>r DEF Contents, size, Slot
<1>t. TypeOK /\ RingOK /\ RingIsClean
  BY DEF QueueInv, TypeOK
<1>l. /\ Len(Contents) = size /\ Contents \in Seq(Items)
      /\ Contents = <<>> <=> size = 0
  <2>1. size \in Nat
    BY <1>t, SizeOfRing, SizeAssumption
  <2>2. Contents \in [1..size -> Items]
    BY <1>t, ContentsType
  <2>3. QED
    BY <2>1, <2>2 DEF Contents
<1>1. ASSUME NEW t \in Threads, NEW x \in Items, CallPut(t, x)
      PROVE  FIFO!Next
  BY <1>1, <1>r DEF CallPut, Enter, FIFO!Next, FIFO!Invoke
<1>2. ASSUME NEW t \in Threads, CallTake(t) PROVE FIFO!Next
  BY <1>2, <1>r DEF CallTake, Enter, FIFO!Next, FIFO!Invoke
<1>3. ASSUME NEW t \in Threads, Put(t) PROVE FIFO!Next
  <2>1. value[t] \in Items
    BY <1>3 DEF Put, InPut, QueueInv, PutsItem
  <2>2. size < maxSize /\ Contents' = Append(Contents, value[t])
    BY <1>3, <1>t, <2>1, EnqueueAppends DEF Put
  <2>3. FIFO!Put(t)
    BY <1>3, <1>l, <2>2 DEF Put, InPut, Leave, FIFO!Put, FIFO!Return
  <2>4. QED
    BY <2>3 DEF FIFO!Next
<1>4. ASSUME NEW t \in Threads, Take(t) PROVE FIFO!Next
  <2>1. /\ Contents # <<>> /\ front = Head(Contents)
        /\ Contents' = Tail(Contents)
    BY <1>4, <1>t, DequeueTakesFront DEF Take
  <2>2. FIFO!Take(t)
    BY <1>4, <2>1 DEF Take, InTake, Leave, FIFO!Take, FIFO!Return
  <2>3. QED
    BY <2>2 DEF FIFO!Next
<1>5. ASSUME NEW t \in Threads, PutAtEnd(t) \/ TakeAtEnd(t) PROVE FIFO!Next
  <2>1. FIFO!Leave(t)
    BY <1>5, <1>r DEF PutAtEnd, TakeAtEnd, InPut, InTake, Leave,
                      FIFO!Leave, FIFO!Return
  <2>2. QED
    BY <2>1 DEF FIFO!Next
<1>6. ASSUME giveUp PROVE FIFO!Next
  BY <1>6, <1>r DEF giveUp, FIFO!Next, FIFO!Close
<1>7. ASSUME NEW t \in Threads, WaitNotFull(t) \/ WaitNotEmpty(t) \/ WakeUp(t)
      PROVE  UNCHANGED FIFO!vars
  BY <1>7, <1>r DEF WaitNotFull, WaitNotEmpty, WakeUp, FIFO!vars
<1>8. ASSUME UNCHANGED queueVars PROVE UNCHANGED FIFO!vars
  BY <1>8, <1>r DEF queueVars, FIFO!vars
<1>9. QED
  BY <1>1, <1>2, <1>3, <1>4, <1>5, <1>6, <1>7, <1>8 DEF QueueNext, Step

\* Every put() and take() takes effect at once and in order, for any capacity
\* (the safety of IsLiveFIFO).
THEOREM QueueIsFIFO == QueueSpec => FIFO!Spec
BY QueueInvHolds, FIFOInit, FIFOStep, PTL DEF QueueSpec, FIFO!Spec

-----------------------------------------------------------------------------
(* The queue of the pool. *)

\* A step of the pool is a step of a client of its queue, or leaves the queue alone.
LEMMA PoolUsesQueue == [PoolNext]_vars => [QueueNext]_queueVars
<1> SUFFICES ASSUME [PoolNext]_vars PROVE QueueNext \/ UNCHANGED queueVars
  OBVIOUS
<1> USE PoolAssumption
<1>1. ASSUME Start \/ Stop \/ StartReturns \/ StopJoins
      PROVE  UNCHANGED queueVars
  BY <1>1 DEF Start, Stop, StartReturns, StopJoins
<1>2. ASSUME NEW w \in Workers, StartWorker(w) \/ TakeReturns(w) \/ TaskReturns(w)
      PROVE  UNCHANGED queueVars
  BY <1>2 DEF StartWorker, TakeReturns, TaskReturns
<1>3. ASSUME StopGivesUp PROVE QueueNext
  BY <1>3 DEF StopGivesUp, QueueNext
<1>4. ASSUME NEW x \in Items, Submit(x) PROVE QueueNext \/ UNCHANGED queueVars
  BY <1>4 DEF Submit, RunHere, RunInPool, QueueNext
<1>5. ASSUME NEW w \in Workers, WhileRunning(w)
      PROVE  QueueNext \/ UNCHANGED queueVars
  BY <1>5 DEF WhileRunning, QueueNext
<1>6. ASSUME NEW t \in Threads, QueueStep(t) \/ SpuriousWakeUp(t) PROVE QueueNext
  BY <1>6 DEF QueueStep, SpuriousWakeUp, QueueNext
<1>7. ASSUME UNCHANGED vars PROVE UNCHANGED queueVars
  BY <1>7 DEF vars
<1>8. QED
  BY <1>1, <1>2, <1>3, <1>4, <1>5, <1>6, <1>7
     DEF PoolNext, OwnerReturns, WorkerStep

\* The pool uses its queue as a queue may be used.
THEOREM PoolQueue == PoolSpec => QueueSpec
<1>1. PoolInit => Init
  BY DEF PoolInit
<1>2. QED
  BY <1>1, PoolUsesQueue, PTL DEF PoolSpec, QueueSpec

\* No notification of the queue is lost, however workers, submitters and stop()
\* interleave: a thread waits only if enough others are on their way
\* (BoundedBlockingQueue.h:30-90).
THEOREM PoolLosesNoNotification == PoolSpec => []NoLostNotification
<1>1. QueueInv => NoLostNotification
  BY DEF QueueInv
<1>2. QED
  BY <1>1, PoolQueue, QueueInvHolds, PTL

\* The pool's queue is a bounded FIFO queue (the safety of IsLiveFIFO).
THEOREM PoolQueueIsFIFO == PoolSpec => FIFO!Spec
BY PoolQueue, QueueIsFIFO, PTL

-----------------------------------------------------------------------------
(* The places of a task. *)

\* A worker is in a call of the queue only where runInThread() makes one, or a
\* task, and is in pool_ once it has been started.
WorkersInCall ==
  /\ \A w \in Workers :
       /\ w \in pool <=> at[w] # "none"
       /\ at[w] = "take" => call[w] \in {"take", "none"}
       /\ at[w] = "task" => call[w] \in {"put", "none"}
       /\ at[w] \notin {"take", "task"} => call[w] = "none"
  /\ \A s \in Submitters : call[s] # "take"

\* In how many places a task is.
Places(x) == Cardinality(Queue(x)) + Cardinality(Putting(x))
               + Cardinality(Taken(x)) + Cardinality(Running(x))

\* TaskInOnePlace, of all tasks: one that has not been submitted is nowhere.
OnePlaceEach ==
  \A x \in Items :
    IF x \in submitted
      THEN \/ Places(x) + (IF x \in ran THEN 1 ELSE 0) = 1
           \/ end /\ Places(x) = 0
      ELSE Places(x) = 0

\* The inductive invariant.
PoolInv == QueueInv /\ PoolTypeOK /\ WorkersInCall /\ OnePlaceEach

\* The places are finite.
LEMMA PlacesType ==
  ASSUME QueueInv, NEW x
  PROVE  /\ Queue(x) = At(Contents, x) /\ Contents \in Seq(Items)
         /\ Cardinality(Queue(x)) \in Nat
         /\ Putting(x) \subseteq Threads /\ Cardinality(Putting(x)) \in Nat
         /\ Taken(x) \subseteq Threads /\ Cardinality(Taken(x)) \in Nat
         /\ Running(x) \subseteq Threads /\ Cardinality(Running(x)) \in Nat
         /\ Places(x) \in Nat
<1>1. size \in Nat /\ Contents \in [1..size -> Items]
  BY SizeOfRing, ContentsType, SizeAssumption DEF QueueInv, TypeOK
<1>2. Contents \in Seq(Items) /\ Len(Contents) = size
  BY <1>1
<1>3. Queue(x) = At(Contents, x)
  BY <1>2 DEF Queue, At
<1>4. Cardinality(Queue(x)) \in Nat
  BY <1>2, <1>3, CountType
<1>5. /\ Putting(x) \subseteq Threads /\ Taken(x) \subseteq Threads
      /\ Running(x) \subseteq Threads
  BY PoolAssumption DEF Putting, Taken, Running
<1>6. /\ Cardinality(Putting(x)) \in Nat /\ Cardinality(Taken(x)) \in Nat
      /\ Cardinality(Running(x)) \in Nat
  BY <1>5, Monotone
<1>7. QED
  BY <1>2, <1>3, <1>4, <1>5, <1>6 DEF Places

\* What has a place has been submitted.
LEMMA PlacedIsSubmitted ==
  ASSUME PoolInv, NEW x \in Items
  PROVE  Putting(x) \cup Taken(x) \cup Running(x) # {}
           => x \in submitted /\ x \notin ran /\ Places(x) = 1
<1> SUFFICES ASSUME NEW t \in Putting(x) \cup Taken(x) \cup Running(x)
             PROVE  x \in submitted /\ x \notin ran /\ Places(x) = 1
  OBVIOUS
<1>1. /\ IsFiniteSet(Putting(x)) /\ IsFiniteSet(Taken(x))
      /\ IsFiniteSet(Running(x))
  BY ThreadAssumption, PlacesType, FS_Subset DEF PoolInv
<1>2. \/ Cardinality(Putting(x)) > 0 \/ Cardinality(Taken(x)) > 0
      \/ Cardinality(Running(x)) > 0
  BY <1>1, PlacesType, FS_EmptySet DEF PoolInv
<1>3. /\ Cardinality(Queue(x)) \in Nat /\ Cardinality(Putting(x)) \in Nat
      /\ Cardinality(Taken(x)) \in Nat /\ Cardinality(Running(x)) \in Nat
  BY PlacesType DEF PoolInv
<1>4. Places(x) > 0 /\ Places(x) \in Nat
  BY <1>2, <1>3 DEF Places
<1>5. QED
  BY <1>4 DEF PoolInv, OnePlaceEach

\* The new pool satisfies the invariant.
LEMMA PoolInvInit == PoolInit => PoolInv
<1> SUFFICES ASSUME PoolInit PROVE PoolInv
  OBVIOUS
<1>1. QueueInv
  BY QueueInvInit DEF PoolInit
<1>2. IsFiniteSet(Workers)
  BY ThreadAssumption, PoolAssumption, FS_Subset
<1>3. PoolTypeOK
  <2>1. {w \in Workers : at[w] = "task"} = {}
    BY DEF PoolInit
  <2>2. busy = Cardinality({w \in Workers : at[w] = "task"})
    BY <2>1, FS_EmptySet DEF PoolInit
  <2>3. Cardinality(Workers) \in Nat
    BY <1>2, FS_CardinalityType
  <2>4. /\ at \in [Workers -> {"none", "while", "take", "task", "exited"}]
        /\ task \in [Workers -> Items \cup {empty_item}]
    BY DEF PoolInit
  <2>5. threadNum \in 0..Cardinality(Workers)
    BY <2>3 DEF PoolInit
  <2>6. /\ pool \subseteq Workers /\ running \in BOOLEAN /\ owner = "new"
        /\ submitted \subseteq Items /\ ran \subseteq submitted
    BY DEF PoolInit
  <2>7. QED
    BY <1>1, <2>2, <2>4, <2>5, <2>6 DEF PoolTypeOK, QueueInv
<1>4. WorkersInCall
  BY PoolAssumption DEF PoolInit, Init, WorkersInCall
<1>5. ASSUME NEW x \in Items PROVE Places(x) = 0
  <2>1. size = 0
    BY DEF PoolInit, Init, RingInit, size
  <2>2. Queue(x) = {}
    BY <2>1 DEF Queue
  <2>3. Putting(x) = {} /\ Taken(x) = {} /\ Running(x) = {}
    BY DEF PoolInit, Init, Putting, Taken, Running
  <2>4. QED
    BY <2>2, <2>3, FS_EmptySet DEF Places
<1>6. OnePlaceEach
  BY <1>5 DEF OnePlaceEach, PoolInit
<1>7. QED
  BY <1>1, <1>3, <1>4, <1>6 DEF PoolInv

\* A step that moves no task keeps every task in its place.
LEMMA PlacesKept ==
  ASSUME PoolInv, UNCHANGED <<submitted, ran>>, end => end',
         \A x \in Items : Places(x)' = Places(x)
  PROVE  OnePlaceEach'
BY DEF PoolInv, OnePlaceEach

\* Where the ring stays as it is, so does what is queued.
LEMMA QueueKept ==
  ASSUME UNCHANGED <<buffer, head, tail>>, NEW x
  PROVE  Queue(x)' = Queue(x)
BY DEF Queue, Contents, size, Slot

\* Every step of the pool preserves the invariant.
LEMMA PoolInvStep == PoolInv /\ [PoolNext]_vars => PoolInv'
<1> SUFFICES ASSUME PoolInv, [PoolNext]_vars PROVE PoolInv'
  OBVIOUS
<1> USE PoolAssumption DEF ring, waits, calls, queueVars, poolVars, workerVars,
                           historyVars
<1>q. QueueInv' /\ TypeOK' /\ QueueInv /\ TypeOK /\ RingOK /\ RingIsClean
  BY PoolUsesQueue, QueueInvStep DEF PoolInv, QueueInv, TypeOK
<1>t. PoolTypeOK /\ WorkersInCall /\ OnePlaceEach
  BY DEF PoolInv
<1> DEFINE Busy == {w \in Workers : at[w] = "task"}
<1>b. Busy \subseteq Threads /\ Cardinality(Busy) \in Nat
  BY Monotone
\* What has to be shown of every step.
<1>s. ASSUME /\ pool' \subseteq Workers /\ threadNum' \in 0..Cardinality(Workers)
             /\ running' \in BOOLEAN
             /\ owner' \in {"new", "start", "started", "giveUp", "join", "stopped"}
             /\ at' \in [Workers -> {"none", "while", "take", "task", "exited"}]
             /\ task' \in [Workers -> Items \cup {empty_item}],
             busy' = Cardinality(Busy'),
             submitted' \subseteq Items, ran' \subseteq submitted',
             WorkersInCall', OnePlaceEach'
      PROVE  PoolInv'
  BY <1>q, <1>s DEF PoolInv, PoolTypeOK
<1>1. ASSUME Start \/ Stop \/ StartReturns \/ StopJoins \/ UNCHANGED vars
      PROVE  PoolInv'
  <2> USE <1>1 DEF Start, Stop, StartReturns, StopJoins, vars
  <2>1. ASSUME NEW x \in Items PROVE Places(x)' = Places(x)
    BY QueueKept DEF Places, Putting, Taken, Running
  <2>2. OnePlaceEach'
    BY <2>1, PlacesKept
  <2>3. WorkersInCall'
    BY <1>t DEF WorkersInCall
  <2>4. QED
    BY <1>t, <1>s, <2>2, <2>3 DEF PoolTypeOK
<1>2. ASSUME StopGivesUp PROVE PoolInv'
  <2> USE <1>2 DEF StopGivesUp, giveUp
  <2>1. ASSUME NEW x \in Items PROVE Places(x)' = Places(x)
    BY QueueKept DEF Places, Putting, Taken, Running
  <2>2. OnePlaceEach'
    BY <2>1, PlacesKept
  <2>3. WorkersInCall'
    BY <1>t DEF WorkersInCall
  <2>4. QED
    BY <1>t, <1>s, <2>2, <2>3 DEF PoolTypeOK
<1>3. ASSUME NEW w \in Workers, StartWorker(w) PROVE PoolInv'
  <2> USE <1>3 DEF StartWorker
  <2>1. at[w] = "none" /\ call[w] = "none"
    BY <1>t DEF WorkersInCall
  <2>2. Busy' = Busy
    BY <1>t, <2>1 DEF PoolTypeOK
  <2>3. ASSUME NEW x \in Items PROVE Places(x)' = Places(x)
    <3>1. Taken(x)' = Taken(x) /\ Running(x)' = Running(x)
      BY <1>t, <2>1 DEF PoolTypeOK, Taken, Running
    <3>2. QED
      BY <3>1, QueueKept DEF Places, Putting
  <2>4. OnePlaceEach'
    BY <2>3, PlacesKept
  <2>5. WorkersInCall'
    BY <1>t, <2>1 DEF WorkersInCall, PoolTypeOK
  <2>6. QED
    BY <1>t, <1>s, <2>2, <2>4, <2>5 DEF PoolTypeOK
<1>4. ASSUME NEW x \in Items, Submit(x) PROVE PoolInv'
  <2> USE <1>4
  <2>x. x \notin submitted /\ x \notin ran /\ Places(x) = 0
    BY <1>t DEF Submit, PoolTypeOK, OnePlaceEach
  <2>1. ASSUME NEW s \in Submitters, RunHere(s, x) PROVE PoolInv'
    <3> USE <2>1 DEF RunHere
    <3>1. ASSUME NEW y \in Items PROVE Places(y)' = Places(y)
      BY QueueKept DEF Places, Putting, Taken, Running
    <3>2. OnePlaceEach'
      BY <1>t, <2>x, <3>1 DEF OnePlaceEach
    <3>3. WorkersInCall'
      BY <1>t DEF WorkersInCall
    <3>4. QED
      BY <1>t, <1>s, <3>2, <3>3 DEF PoolTypeOK
  <2>2. ASSUME NEW t \in Threads, RunInPool(t, x), t \in Submitters \/ InTask(t)
        PROVE  PoolInv'
    <3> USE <2>2 DEF RunInPool, CallPut, Enter
    <3>1. call[t] = "none" /\ (t \in Workers => at[t] = "task")
      BY DEF InTask
    <3>2. ASSUME NEW y \in Items
          PROVE  Places(y)' = Places(y) + (IF y = x THEN 1 ELSE 0)
      <4>1. Putting(y)' = IF y = x THEN Putting(y) \cup {t} ELSE Putting(y)
        BY <1>q, <3>1 DEF Putting, TypeOK
      <4>2. Taken(y)' = Taken(y) /\ Running(y)' = Running(y)
        BY <1>q, <3>1 DEF Taken, Running, TypeOK
      <4>3. t \notin Putting(y) /\ Putting(y) \subseteq Threads
        BY <3>1 DEF Putting
      <4>4. Cardinality(Putting(y))' =
              Cardinality(Putting(y)) + (IF y = x THEN 1 ELSE 0)
        BY <4>1, <4>3, OneMore
      <4>5. /\ Cardinality(Queue(y)) \in Nat /\ Cardinality(Putting(y)) \in Nat
            /\ Cardinality(Taken(y)) \in Nat /\ Cardinality(Running(y)) \in Nat
        BY <1>q, PlacesType
      <4>6. QED
        BY <4>2, <4>4, <4>5, QueueKept DEF Places
    <3>3. OnePlaceEach'
      <4> SUFFICES ASSUME NEW y \in Items
                   PROVE  IF y \in submitted'
                            THEN \/ Places(y)' + (IF y \in ran' THEN 1 ELSE 0) = 1
                                 \/ end' /\ Places(y)' = 0
                            ELSE Places(y)' = 0
        BY DEF OnePlaceEach
      <4>1. Places(y) \in Nat
        BY <1>q, PlacesType
      <4>2. QED
        BY <1>t, <2>x, <3>2, <4>1 DEF OnePlaceEach
    <3>4. WorkersInCall'
      BY <1>q, <1>t, <3>1 DEF WorkersInCall, TypeOK
    <3>5. QED
      BY <1>t, <1>s, <3>3, <3>4 DEF PoolTypeOK
  <2>3. QED
    BY <2>1, <2>2 DEF Submit
<1>5. ASSUME NEW w \in Workers, WhileRunning(w) PROVE PoolInv'
  <2> USE <1>5 DEF WhileRunning
  <2>1. call[w] = "none" /\ Busy' = Busy
    BY <1>t DEF WorkersInCall, PoolTypeOK
  <2>2. WorkersInCall'
    BY <1>q, <1>t, <2>1 DEF WorkersInCall, TypeOK, PoolTypeOK, CallTake, Enter
  <2>3. ASSUME NEW x \in Items PROVE Places(x)' = Places(x)
    <3>1. /\ Putting(x)' = Putting(x) /\ Taken(x)' = Taken(x)
          /\ Running(x)' = Running(x)
      BY <1>q, <1>t, <2>1 DEF Putting, Taken, Running, TypeOK, PoolTypeOK,
                              CallTake, Enter
    <3>2. Queue(x)' = Queue(x)
      BY QueueKept DEF CallTake, Enter
    <3>3. QED
      BY <3>1, <3>2 DEF Places
  <2>4. OnePlaceEach'
    BY <2>3, PlacesKept DEF CallTake, Enter
  <2>5. QED
    BY <1>t, <1>s, <2>1, <2>2, <2>4 DEF PoolTypeOK
<1>6. ASSUME NEW w \in Workers, TakeReturns(w) PROVE PoolInv'
  <2> USE <1>6 DEF TakeReturns
  <2>1. Busy' = Busy \cup {w} /\ w \notin Busy
    BY <1>t DEF PoolTypeOK
  <2>2. busy' = Cardinality(Busy')
    BY <1>t, <1>b, <2>1, OneMore DEF PoolTypeOK
  <2>3. WorkersInCall'
    BY <1>t DEF WorkersInCall, PoolTypeOK
  <2>4. ASSUME NEW x \in Items PROVE Places(x)' = Places(x)
    <3>1. Queue(x)' = Queue(x) /\ Putting(x)' = Putting(x)
      BY QueueKept DEF Putting
    <3>2. CASE value[w] = x
      <4>1. /\ Taken(x)' = Taken(x) \ {w} /\ w \in Taken(x)
            /\ Running(x)' = Running(x) \cup {w} /\ w \notin Running(x)
        BY <1>t, <3>2 DEF Taken, Running, PoolTypeOK
      <4>2. /\ Cardinality(Taken(x))' = Cardinality(Taken(x)) - 1
            /\ Cardinality(Running(x))' = Cardinality(Running(x)) + 1
        BY <1>q, <4>1, PlacesType, OneMore, OneLess
      <4>3. /\ Cardinality(Queue(x)) \in Nat /\ Cardinality(Putting(x)) \in Nat
            /\ Cardinality(Taken(x)) \in Nat /\ Cardinality(Running(x)) \in Nat
        BY <1>q, PlacesType
      <4>4. QED
        BY <3>1, <4>2, <4>3 DEF Places
    <3>3. CASE value[w] # x
      <4>1. Taken(x)' = Taken(x) /\ Running(x)' = Running(x)
        BY <1>t, <3>3 DEF Taken, Running, PoolTypeOK
      <4>2. QED
        BY <3>1, <4>1 DEF Places
    <3>4. QED
      BY <3>2, <3>3
  <2>5. OnePlaceEach'
    BY <2>4, PlacesKept
  <2>6. QED
    BY <1>q, <1>t, <1>s, <2>2, <2>3, <2>5 DEF PoolTypeOK, TypeOK
<1>7. ASSUME NEW w \in Workers, TaskReturns(w) PROVE PoolInv'
  <2> USE <1>7 DEF TaskReturns, InTask
  <2>1. Busy' = Busy \ {w} /\ w \in Busy
    BY <1>t DEF PoolTypeOK
  <2>2. busy' = Cardinality(Busy')
    BY <1>t, <1>b, <2>1, OneLess DEF PoolTypeOK
  <2>3. WorkersInCall'
    BY <1>t DEF WorkersInCall, PoolTypeOK
  <2>4. ASSUME task[w] # empty_item
        PROVE  task[w] \in submitted /\ task[w] \notin ran /\ Places(task[w]) = 1
    <3>1. task[w] \in Items /\ w \in Running(task[w])
      BY <1>t, <2>4 DEF PoolTypeOK, Running
    <3>2. QED
      BY <3>1, PlacedIsSubmitted
  <2>5. ASSUME NEW x \in Items
        PROVE  Places(x)' = Places(x) - (IF x = task[w] THEN 1 ELSE 0)
    <3>1. Queue(x)' = Queue(x) /\ Putting(x)' = Putting(x) /\ Taken(x)' = Taken(x)
      BY <1>t, QueueKept DEF Putting, Taken, PoolTypeOK
    <3>2. Running(x)' = IF x = task[w] THEN Running(x) \ {w} ELSE Running(x)
      BY <1>t, ItemAssumption DEF Running, PoolTypeOK
    <3>3. x = task[w] => w \in Running(x)
      BY DEF Running
    <3>4. Cardinality(Running(x))' =
            Cardinality(Running(x)) - (IF x = task[w] THEN 1 ELSE 0)
      BY <1>q, <3>2, <3>3, PlacesType, OneLess
    <3>5. /\ Cardinality(Queue(x)) \in Nat /\ Cardinality(Putting(x)) \in Nat
          /\ Cardinality(Taken(x)) \in Nat /\ Cardinality(Running(x)) \in Nat
      BY <1>q, PlacesType
    <3>6. QED
      BY <3>1, <3>4, <3>5 DEF Places
  <2>6. OnePlaceEach'
    <3> SUFFICES ASSUME NEW x \in Items
                 PROVE  IF x \in submitted'
                          THEN \/ Places(x)' + (IF x \in ran' THEN 1 ELSE 0) = 1
                               \/ end' /\ Places(x)' = 0
                          ELSE Places(x)' = 0
      BY DEF OnePlaceEach
    <3>1. Places(x) \in Nat
      BY <1>q, PlacesType
    <3>2. QED
      BY <1>t, <2>4, <2>5, <3>1, ItemAssumption DEF OnePlaceEach
  <2>7. QED
    BY <1>t, <1>s, <2>2, <2>3, <2>4, <2>6 DEF PoolTypeOK
<1>8. ASSUME NEW t \in Threads,
             \/ SpuriousWakeUp(t)
             \/ QueueStep(t) /\ (WaitNotFull(t) \/ WaitNotEmpty(t))
      PROVE  PoolInv'
  <2> USE <1>8 DEF SpuriousWakeUp, QueueStep, WakeUp, WaitNotFull, WaitNotEmpty
  <2>1. ASSUME NEW x \in Items PROVE Places(x)' = Places(x)
    BY QueueKept DEF Places, Putting, Taken, Running
  <2>2. OnePlaceEach'
    BY <2>1, PlacesKept
  <2>3. WorkersInCall'
    BY <1>t DEF WorkersInCall
  <2>4. QED
    BY <1>t, <1>s, <2>2, <2>3 DEF PoolTypeOK
<1>9. ASSUME NEW t \in Threads, QueueStep(t), Put(t) PROVE PoolInv'
  <2> USE <1>9 DEF QueueStep, Put, InPut, Leave
  <2>1. /\ value[t] \in Items /\ call[t] = "put"
        /\ t \in Workers => at[t] = "task"
    BY <1>q, <1>t DEF QueueInv, PutsItem, WorkersInCall, PoolTypeOK
  <2>2. Contents' = Append(Contents, value[t]) /\ size' = size + 1
    BY <1>q, <2>1, EnqueueAppends
  <2>3. WorkersInCall'
    BY <1>q, <1>t, <2>1 DEF WorkersInCall, TypeOK, PoolTypeOK
  <2>4. ASSUME NEW x \in Items PROVE Places(x)' = Places(x)
    <3>1. /\ Queue(x) = At(Contents, x) /\ Contents \in Seq(Items)
          /\ Cardinality(Queue(x)) \in Nat /\ Cardinality(Putting(x)) \in Nat
          /\ Cardinality(Taken(x)) \in Nat /\ Cardinality(Running(x)) \in Nat
      BY <1>q, PlacesType
    <3>2. Queue(x)' = At(Contents', x)
      <4>1. Len(Contents) = size
        BY <1>q, SizeOfRing, SizeAssumption DEF Contents
      <4>2. Len(Contents') = size'
        BY <2>1, <2>2, <3>1, <4>1
      <4>3. QED
        BY <4>2 DEF Queue, At
    <3>3. Cardinality(Queue(x))' =
            Cardinality(Queue(x)) + (IF value[t] = x THEN 1 ELSE 0)
      BY <2>1, <2>2, <3>1, <3>2, CountAppend
    <3>4. Taken(x)' = Taken(x) /\ Running(x)' = Running(x)
      BY <1>q, <2>1 DEF Taken, Running, TypeOK
    <3>5. Putting(x)' = IF value[t] = x THEN Putting(x) \ {t} ELSE Putting(x)
      BY <1>q, <2>1 DEF Putting, TypeOK
    <3>6. value[t] = x => t \in Putting(x)
      BY <2>1 DEF Putting
    <3>7. Cardinality(Putting(x))' =
            Cardinality(Putting(x)) - (IF value[t] = x THEN 1 ELSE 0)
      BY <1>q, <3>1, <3>5, <3>6, PlacesType, OneLess
    <3>8. QED
      BY <3>1, <3>3, <3>4, <3>7 DEF Places
  <2>5. OnePlaceEach'
    BY <2>4, PlacesKept
  <2>6. QED
    BY <1>t, <1>s, <2>3, <2>5 DEF PoolTypeOK
<1>10. ASSUME NEW t \in Threads, QueueStep(t), PutAtEnd(t) PROVE PoolInv'
  <2> USE <1>10 DEF QueueStep, PutAtEnd, InPut, Leave
  <2>1. /\ value[t] \in Items /\ call[t] = "put" /\ t \in Putting(value[t])
        /\ t \in Workers => at[t] = "task"
    BY <1>q, <1>t DEF QueueInv, PutsItem, WorkersInCall, PoolTypeOK, Putting
  <2>2. /\ value[t] \in submitted /\ value[t] \notin ran /\ Places(value[t]) = 1
    BY <2>1, PlacedIsSubmitted
  <2>3. WorkersInCall'
    BY <1>q, <1>t, <2>1 DEF WorkersInCall, TypeOK, PoolTypeOK
  <2>4. ASSUME NEW x \in Items
        PROVE  Places(x)' = Places(x) - (IF value[t] = x THEN 1 ELSE 0)
    <3>1. /\ Cardinality(Queue(x)) \in Nat /\ Cardinality(Putting(x)) \in Nat
          /\ Cardinality(Taken(x)) \in Nat /\ Cardinality(Running(x)) \in Nat
      BY <1>q, PlacesType
    <3>2. Queue(x)' = Queue(x) /\ Taken(x)' = Taken(x) /\ Running(x)' = Running(x)
      BY <1>q, <2>1, QueueKept DEF Taken, Running, TypeOK
    <3>3. Putting(x)' = IF value[t] = x THEN Putting(x) \ {t} ELSE Putting(x)
      BY <1>q, <2>1 DEF Putting, TypeOK
    <3>4. Cardinality(Putting(x))' =
            Cardinality(Putting(x)) - (IF value[t] = x THEN 1 ELSE 0)
      BY <1>q, <2>1, <3>1, <3>3, PlacesType, OneLess
    <3>5. QED
      BY <3>1, <3>2, <3>4 DEF Places
  <2>5. OnePlaceEach'
    <3> SUFFICES ASSUME NEW x \in Items
                 PROVE  IF x \in submitted'
                          THEN \/ Places(x)' + (IF x \in ran' THEN 1 ELSE 0) = 1
                               \/ end' /\ Places(x)' = 0
                          ELSE Places(x)' = 0
      BY DEF OnePlaceEach
    <3>1. Places(x) \in Nat
      BY <1>q, PlacesType
    <3>2. QED
      BY <1>t, <2>2, <2>4, <3>1 DEF OnePlaceEach
  <2>6. QED
    BY <1>t, <1>s, <2>3, <2>5 DEF PoolTypeOK
<1>11. ASSUME NEW t \in Threads, QueueStep(t), Take(t) PROVE PoolInv'
  <2> USE <1>11 DEF QueueStep, Take, InTake, Leave
  <2>1. t \in Workers /\ call[t] = "take" /\ at[t] = "take"
    BY <1>t DEF WorkersInCall, PoolTypeOK
  <2>2. /\ Contents' = Tail(Contents) /\ Contents # <<>> /\ size' = size - 1
        /\ front = Head(Contents)
    BY <1>q, DequeueTakesFront
  <2>3. WorkersInCall'
    BY <1>q, <1>t, <2>1 DEF WorkersInCall, TypeOK, PoolTypeOK
  <2>4. ASSUME NEW x \in Items PROVE Places(x)' = Places(x)
    <3>1. /\ Queue(x) = At(Contents, x) /\ Contents \in Seq(Items)
          /\ Cardinality(Queue(x)) \in Nat /\ Cardinality(Putting(x)) \in Nat
          /\ Cardinality(Taken(x)) \in Nat /\ Cardinality(Running(x)) \in Nat
      BY <1>q, PlacesType
    <3>2. Queue(x)' = At(Contents', x)
      <4>1. Len(Contents) = size
        BY <1>q, SizeOfRing, SizeAssumption DEF Contents
      <4>2. Len(Contents') = size'
        BY <2>1, <2>2, <3>1, <4>1
      <4>3. QED
        BY <4>2 DEF Queue, At
    <3>3. Cardinality(Queue(x))' =
            Cardinality(Queue(x)) - (IF front = x THEN 1 ELSE 0)
      BY <2>2, <3>1, <3>2, CountTail
    <3>4. Putting(x)' = Putting(x) /\ Running(x)' = Running(x)
      BY <1>q, <2>1 DEF Putting, Running, TypeOK
    <3>5. Taken(x)' = IF front = x THEN Taken(x) \cup {t} ELSE Taken(x)
      BY <1>q, <2>1 DEF Taken, TypeOK
    <3>6. t \notin Taken(x)
      BY <2>1 DEF Taken
    <3>7. Cardinality(Taken(x))' =
            Cardinality(Taken(x)) + (IF front = x THEN 1 ELSE 0)
      BY <1>q, <3>1, <3>5, <3>6, PlacesType, OneMore
    <3>8. QED
      BY <3>1, <3>3, <3>4, <3>7 DEF Places
  <2>5. OnePlaceEach'
    BY <2>4, PlacesKept
  <2>6. QED
    BY <1>t, <1>s, <2>3, <2>5 DEF PoolTypeOK
<1>12. ASSUME NEW t \in Threads, QueueStep(t), TakeAtEnd(t) PROVE PoolInv'
  <2> USE <1>12 DEF QueueStep, TakeAtEnd, InTake, Leave
  <2>1. t \in Workers /\ call[t] = "take" /\ at[t] = "take"
    BY <1>t DEF WorkersInCall, PoolTypeOK
  <2>2. WorkersInCall'
    BY <1>q, <1>t, <2>1 DEF WorkersInCall, TypeOK, PoolTypeOK
  <2>3. ASSUME NEW x \in Items PROVE Places(x)' = Places(x)
    <3>1. Putting(x)' = Putting(x) /\ Running(x)' = Running(x)
      BY <1>q, <2>1 DEF Putting, Running, TypeOK
    <3>2. Taken(x)' = Taken(x)
      BY <1>q, <2>1, ItemAssumption DEF Taken, TypeOK
    <3>3. QED
      BY <3>1, <3>2, QueueKept DEF Places
  <2>4. OnePlaceEach'
    BY <2>3, PlacesKept
  <2>5. QED
    BY <1>t, <1>s, <2>2, <2>4 DEF PoolTypeOK
<1>13. ASSUME NEW t \in Threads, QueueStep(t) PROVE PoolInv'
  BY <1>8, <1>9, <1>10, <1>11, <1>12, <1>13 DEF QueueStep, Step
<1>14. ASSUME PoolNext PROVE PoolInv'
  <2>1. CASE Start \/ Stop \/ OwnerReturns
    BY <1>1, <1>2, <1>3, <2>1 DEF OwnerReturns
  <2>2. CASE \E x \in Items : Submit(x)
    BY <1>4, <2>2
  <2>3. CASE \E w \in Workers : WorkerStep(w)
    BY <1>5, <1>6, <1>7, <2>3 DEF WorkerStep
  <2>4. CASE \E t \in Threads : QueueStep(t) \/ SpuriousWakeUp(t)
    <3>1. PICK t \in Threads : QueueStep(t) \/ SpuriousWakeUp(t)
      BY <2>4
    <3>2. CASE QueueStep(t)
      BY <1>13, <3>2
    <3>3. CASE SpuriousWakeUp(t)
      BY <1>8, <3>3
    <3>4. QED
      BY <3>1, <3>2, <3>3
  <2>5. QED
    BY <1>14, <2>1, <2>2, <2>3, <2>4 DEF PoolNext
<1>15. QED
  BY <1>1, <1>14

\* Whatever the owner, the submitters and the workers do, the state of the pool
\* is legal: every task is in one place until it is run, as long as nobody has
\* called giveUp(), busyThreads_ counts the workers in a task, and the ring
\* keeps no task that has been taken.
THEOREM PoolIsLegal == PoolSpec => []PoolLegal
<1>1. PoolInv => PoolLegal
  <2> SUFFICES ASSUME PoolInv PROVE TaskInOnePlace
    BY DEF PoolInv, QueueInv, PoolLegal
  <2>1. QED
    BY DEF PoolInv, PoolTypeOK, OnePlaceEach, Places, TaskInOnePlace
<1>2. QED
  BY <1>1, PoolInvInit, PoolInvStep, PTL DEF PoolSpec

\* No worker is left that could use the pool or its queue: all that were started
\* have left runInThread(), none is in a call of the queue, none is busy.
Quiet ==
  /\ \A w \in Workers : at[w] \in {"none", "exited"} /\ call[w] = "none"
  /\ busy = 0

\* Once stop() has joined them, the workers stay gone.
WorkersAreGone == owner = "stopped" => \A w \in Workers : at[w] \in {"none", "exited"}

LEMMA GoneStep ==
  ASSUME PoolInv, WorkersAreGone, [PoolNext]_vars
  PROVE  /\ WorkersAreGone'
         /\ owner = "stopped" /\ pool # {} => ran' = ran
<1>1. /\ at \in [Workers -> {"none", "while", "take", "task", "exited"}]
      /\ \A w \in Workers : w \in pool <=> at[w] # "none"
  BY DEF PoolInv, PoolTypeOK, WorkersInCall
<1>2. ASSUME UNCHANGED <<owner, at>>, ran' = ran \/ pool = {}
      PROVE  WorkersAreGone' /\ (owner = "stopped" /\ pool # {} => ran' = ran)
  BY <1>2 DEF WorkersAreGone
<1>3. CASE Start \/ Stop \/ StartReturns \/ StopGivesUp \/ \E w \in Workers : StartWorker(w)
  BY <1>3 DEF Start, Stop, StartReturns, StopGivesUp, StartWorker, WorkersAreGone
<1>4. CASE StopJoins
  BY <1>1, <1>4 DEF StopJoins, WorkersAreGone, workerVars, historyVars
<1>5. ASSUME NEW w \in Workers, WorkerStep(w)
      PROVE  WorkersAreGone' /\ (owner = "stopped" /\ pool # {} => ran' = ran)
  BY <1>1, <1>5
     DEF WorkerStep, WhileRunning, TakeReturns, TaskReturns, InTask, WorkersAreGone, poolVars
<1>6. CASE \E x \in Items : Submit(x)
  BY <1>2, <1>6 DEF Submit, RunHere, RunInPool, poolVars, workerVars
<1>7. CASE \E t \in Threads : QueueStep(t) \/ SpuriousWakeUp(t)
  BY <1>2, <1>7 DEF QueueStep, SpuriousWakeUp, poolVars, workerVars, historyVars
<1>8. CASE UNCHANGED vars
  BY <1>2, <1>8 DEF vars, poolVars, workerVars, historyVars
<1>9. QED
  BY <1>3, <1>4, <1>5, <1>6, <1>7, <1>8 DEF PoolNext, OwnerReturns

\* When stop() has returned no worker is left in the pool or in its queue, so that
\* both may be destroyed as far as the workers go, and the pool runs no task any
\* more, whatever is still queued or submitted (ThreadPool.cpp:52-60).
THEOREM StoppedPoolIsQuiet ==
  PoolSpec => /\ [](owner = "stopped" => Quiet)
              /\ [][owner = "stopped" /\ pool # {} => ran' = ran]_vars
<1>1. PoolInit => PoolInv /\ WorkersAreGone
  BY PoolInvInit DEF PoolInit, WorkersAreGone
<1>2. PoolInv /\ WorkersAreGone /\ [PoolNext]_vars => PoolInv' /\ WorkersAreGone'
  BY PoolInvStep, GoneStep
<1>3. PoolInv /\ WorkersAreGone /\ [PoolNext]_vars
        => [owner = "stopped" /\ pool # {} => ran' = ran]_vars
  BY GoneStep
<1>4. PoolInv /\ WorkersAreGone => (owner = "stopped" => Quiet)
  <2> SUFFICES ASSUME PoolInv, WorkersAreGone, owner = "stopped" PROVE Quiet
    OBVIOUS
  <2>1. \A w \in Workers : at[w] \in {"none", "exited"}
    BY DEF WorkersAreGone
  <2>2. \A w \in Workers : call[w] = "none"
    BY <2>1 DEF PoolInv, WorkersInCall
  <2>3. {w \in Workers : at[w] = "task"} = {}
    BY <2>1
  <2>4. busy = 0
    BY <2>3, FS_EmptySet DEF PoolInv, PoolTypeOK
  <2>5. QED
    BY <2>1, <2>2, <2>4 DEF Quiet
<1>5. QED
  BY <1>1, <1>2, <1>3, <1>4, PTL DEF PoolSpec
=============================================================================
