----------------------------- MODULE Data_proofs -----------------------------
(***************************************************************************)
(* Proofs about the priority queue, the game, the log, its stream and its  *)
(* file, the dates and the signals, each on its own, for every value of    *)
(* their constants.                                                        *)
(***************************************************************************)
EXTENDS HeapQueue, SnakeGame, LogFile, LogStream, Date, AsyncLog, Signals,
        Counting, SequenceTheorems

-----------------------------------------------------------------------------
(* HeapQueue: what a BinaryHeap does is taken from BinaryHeap_proofs. *)

\* The heap of the queue, ordered by key.
Heap == INSTANCE BinaryHeap_proofs WITH Less <- KeyLess

\* The queue without fairness.
HeapSpec == HeapInit /\ [][HeapNext]_heapVars

\* Keys order the items.
LEMMA ItemsAreOrdered == Heap!Orders(Items)
<1>0. \A x \in Items : x.key \in Nat
  BY HeapAssumption DEF Items
<1>1. \A x, y \in Items : KeyLess(x, y) => ~KeyLess(y, x)
  BY <1>0 DEF KeyLess
<1>2. \A x, y, z \in Items : ~KeyLess(y, x) /\ ~KeyLess(z, y) => ~KeyLess(z, x)
  BY <1>0 DEF KeyLess
<1>3. QED
  BY <1>1, <1>2 DEF Heap!Orders

\* The operators of the queue are those of the heap.
LEMMA HeapOfItems ==
  ASSUME NEW v, NEW x
  PROVE  /\ insert(v, x) = Heap!insert(v, x)
         /\ popTop(v) = Heap!popTop(v)
         /\ top(v) = Heap!top(v)
         /\ IsHeap(v) = Heap!IsHeap(v)
BY DEF insert, Heap!insert, popTop, Heap!popTop, top, Heap!top, IsHeap,
       Heap!IsHeap, percolateUp, Heap!percolateUp, perolateDown,
       Heap!perolateDown, moveAlong, Heap!moveAlong, properParent,
       Heap!properParent, Parent, Heap!Parent, LChild, Heap!LChild, RChild,
       Heap!RChild

\* The elements of a sequence, and that none is there twice.
Elements(v) == {v[i] : i \in 1..Len(v)}
Distinct(v) == \A i, j \in 1..Len(v) : v[i] = v[j] => i = j

\* Moving elements about neither adds nor repeats one.
LEMMA Reordered ==
  ASSUME NEW v \in Seq(Items), NEW w, Heap!Rearranged(w, v)
  PROVE  Elements(w) = Elements(v) /\ (Distinct(v) => Distinct(w))
<1>1. Elements(w) = Elements(v)
  BY Heap!SameRearranged DEF Elements
<1>2. Distinct(v) => Distinct(w)
  BY Heap!SameRearranged DEF Distinct
<1>3. QED
  BY <1>1, <1>2

\* An item that is not in the heap yet is inserted.
LEMMA InsertItem ==
  ASSUME NEW v \in Seq(Items), IsHeap(v), Distinct(v),
         NEW x \in Items, x \notin Elements(v)
  PROVE  LET w == insert(v, x) IN
         /\ w \in Seq(Items) /\ IsHeap(w) /\ Distinct(w)
         /\ Elements(w) = Elements(v) \cup {x}
<1> DEFINE a == Append(v, x)
           w == insert(v, x)
<1>1. a \in Seq(Items) /\ Len(a) = Len(v) + 1 /\ Len(v) \in Nat
      /\ a[Len(v) + 1] = x /\ \A i \in 1..Len(v) : a[i] = v[i]
  OBVIOUS
<1>2. Elements(a) = Elements(v) \cup {x}
  <2>1. ASSUME NEW y \in Elements(a) PROVE y \in Elements(v) \cup {x}
    <3>1. PICK i \in 1..(Len(v) + 1) : y = a[i]
      BY <1>1 DEF Elements
    <3>2. CASE i = Len(v) + 1
      BY <1>1, <3>1, <3>2
    <3>3. CASE i # Len(v) + 1
      BY <1>1, <3>1, <3>3 DEF Elements
    <3>4. QED
      BY <3>2, <3>3
  <2>2. ASSUME NEW y \in Elements(v) PROVE y \in Elements(a)
    <3>1. PICK i \in 1..Len(v) : y = v[i]
      BY DEF Elements
    <3>2. i \in 1..Len(a) /\ y = a[i]
      BY <1>1, <3>1
    <3>3. QED
      BY <3>2 DEF Elements
  <2>3. x \in Elements(a)
    <3>1. Len(v) + 1 \in 1..Len(a)
      BY <1>1
    <3>2. QED
      BY <1>1, <3>1 DEF Elements
  <2>4. QED
    BY <2>1, <2>2, <2>3
<1>3. Distinct(a)
  <2> SUFFICES ASSUME NEW i \in 1..Len(a), NEW j \in 1..Len(a), a[i] = a[j]
               PROVE  i = j
    BY DEF Distinct
  <2>1. CASE i # Len(v) + 1 /\ j # Len(v) + 1
    BY <1>1, <2>1 DEF Distinct
  <2>2. CASE i = Len(v) + 1 /\ j # Len(v) + 1
    BY <1>1, <2>2 DEF Elements
  <2>3. CASE i # Len(v) + 1 /\ j = Len(v) + 1
    BY <1>1, <2>3 DEF Elements
  <2>4. QED
    BY <2>1, <2>2, <2>3
<1>4. w = Heap!insert(v, x)
  BY HeapOfItems
<1>5. /\ Heap!insert(v, x) \in Seq(Items)
      /\ Heap!Rearranged(Heap!insert(v, x), a)
  BY Heap!InsertKeepsAll
<1>6. w \in Seq(Items) /\ Heap!Rearranged(w, a)
  BY <1>4, <1>5
<1>7. IsHeap(w)
  <2>1. Heap!IsHeap(v)
    BY HeapOfItems
  <2>2. Heap!IsHeap(Heap!insert(v, x))
    BY <2>1, ItemsAreOrdered, Heap!InsertKeepsOrder
  <2>3. QED
    BY <1>4, <2>2, HeapOfItems
<1>8. Distinct(w) /\ Elements(w) = Elements(a)
  <2> HIDE DEF w, a
  <2>1. a \in Seq(Items)
    BY <1>1
  <2>2. QED
    BY <2>1, <1>3, <1>6, Reordered
<1>9. QED
  BY <1>2, <1>6, <1>7, <1>8

\* The top is taken off.
LEMMA PopItem ==
  ASSUME NEW v \in Seq(Items), IsHeap(v), Distinct(v), v # <<>>
  PROVE  LET w == popTop(v) IN
         /\ w \in Seq(Items) /\ IsHeap(w) /\ Distinct(w)
         /\ Elements(w) = Elements(v) \ {top(v)}
         /\ top(v) \in Elements(v)
         /\ \A y \in Elements(v) : top(v).key <= y.key
<1> DEFINE b == Tail(v)
           w == popTop(v)
<1>1. /\ b \in Seq(Items) /\ Len(v) \in Nat /\ Len(v) >= 1 /\ Len(b) = Len(v) - 1
      /\ \A i \in 1..Len(b) : b[i] = v[i + 1]
  OBVIOUS
<1>2. top(v) = v[1]
  BY DEF top
<1>3. Elements(b) = Elements(v) \ {v[1]}
  <2>1. ASSUME NEW y \in Elements(b) PROVE y \in Elements(v) \ {v[1]}
    <3>1. PICK i \in 1..Len(b) : y = b[i]
      BY DEF Elements
    <3>2. i + 1 \in 1..Len(v) /\ i + 1 # 1 /\ 1 \in 1..Len(v) /\ y = v[i + 1]
      BY <1>1, <3>1
    <3>3. v[i + 1] # v[1]
      BY <3>2 DEF Distinct
    <3>4. QED
      BY <3>2, <3>3 DEF Elements
  <2>2. ASSUME NEW y \in Elements(v), y # v[1] PROVE y \in Elements(b)
    <3>1. PICK i \in 1..Len(v) : y = v[i]
      BY DEF Elements
    <3>2. i - 1 \in 1..Len(b) /\ b[i - 1] = v[i]
      BY <1>1, <2>2, <3>1
    <3>3. QED
      BY <3>1, <3>2 DEF Elements
  <2>3. QED
    BY <2>1, <2>2
<1>4. Distinct(b)
  <2> SUFFICES ASSUME NEW i \in 1..Len(b), NEW j \in 1..Len(b), b[i] = b[j]
               PROVE  i = j
    BY DEF Distinct
  <2>1. i + 1 \in 1..Len(v) /\ j + 1 \in 1..Len(v) /\ v[i + 1] = v[j + 1]
    BY <1>1
  <2>2. QED
    BY <2>1 DEF Distinct
<1>5. w = Heap!popTop(v)
  BY HeapOfItems
<1>6. /\ Heap!popTop(v) \in Seq(Items)
      /\ Heap!Rearranged(Heap!popTop(v), b)
  BY Heap!PopKeepsAll
<1>7. w \in Seq(Items) /\ Heap!Rearranged(w, b)
  BY <1>5, <1>6
<1>8. Heap!IsHeap(v)
  BY HeapOfItems
<1>9. IsHeap(w)
  <2>1. Heap!IsHeap(Heap!popTop(v))
    BY <1>8, ItemsAreOrdered, Heap!PopKeepsOrder
  <2>2. QED
    BY <1>5, <2>1, HeapOfItems
<1>10. Distinct(w) /\ Elements(w) = Elements(b)
  <2> HIDE DEF w, b
  <2>1. b \in Seq(Items)
    BY <1>1
  <2>2. QED
    BY <2>1, <1>4, <1>7, Reordered
<1>11. top(v) \in Elements(v) /\ \A y \in Elements(v) : top(v).key <= y.key
  <2>1. 1 \in 1..Len(v) /\ v[1] \in Items
    BY <1>1
  <2>2. \A i \in 1..Len(v) : ~KeyLess(v[i], Heap!top(v))
    BY <1>8, ItemsAreOrdered, Heap!TopIsLeast
  <2>3. ASSUME NEW y \in Elements(v) PROVE top(v).key <= y.key
    <3>1. PICK i \in 1..Len(v) : y = v[i]
      BY DEF Elements
    <3>2. ~KeyLess(y, v[1]) /\ y \in Items
      BY <1>2, <2>2, <3>1, HeapOfItems
    <3>3. y.key \in Nat /\ v[1].key \in Nat
      BY <2>1, <3>2, HeapAssumption DEF Items
    <3>4. QED
      BY <1>2, <3>2, <3>3 DEF KeyLess
  <2>4. QED
    BY <1>2, <2>1, <2>3 DEF Elements
<1>12. QED
  BY <1>2, <1>3, <1>7, <1>9, <1>10, <1>11

\* Every step of the queue keeps the order and is one of the abstract queue.
LEMMA HeapStep ==
  ASSUME HeapOrder, [HeapNext]_heapVars
  PROVE  HeapOrder' /\ [Queue!Next]_(Queue!vars)
<1> DEFINE held == {vec[i] : i \in 1..Len(vec)}
<1>1. vec \in Seq(Items) /\ IsHeap(vec) /\ Distinct(vec) /\ held = Elements(vec)
  BY DEF HeapOrder, Distinct, Elements
<1>2. ASSUME NEW x \in Items, Insert(x)
      PROVE  HeapOrder' /\ Queue!Insert(x)
  <2>1. vec' = insert(vec, x) /\ taken' = taken /\ x \notin Elements(vec)
    BY <1>2 DEF Insert, Elements
  <2>2. /\ vec' \in Seq(Items) /\ IsHeap(vec') /\ Distinct(vec')
        /\ Elements(vec') = Elements(vec) \cup {x}
    BY <1>1, <2>1, InsertItem
  <2>3. HeapOrder'
    BY <2>2 DEF HeapOrder, Distinct
  <2>4. Queue!Insert(x)
    BY <2>1, <2>2 DEF Queue!Insert, Elements
  <2>5. QED
    BY <2>3, <2>4
<1>3. CASE PopTop
  <2>1. vec' = popTop(vec) /\ taken' = <<top(vec)>> /\ vec # <<>>
    BY <1>3 DEF PopTop
  <2>2. /\ vec' \in Seq(Items) /\ IsHeap(vec') /\ Distinct(vec')
        /\ Elements(vec') = Elements(vec) \ {top(vec)}
        /\ top(vec) \in Elements(vec)
        /\ \A y \in Elements(vec) : top(vec).key <= y.key
    BY <1>1, <2>1, PopItem
  <2>3. HeapOrder'
    BY <2>2 DEF HeapOrder, Distinct
  <2>4. Queue!Take(top(vec))
    BY <2>1, <2>2 DEF Queue!Take, Elements
  <2>5. top(vec) \in Items
    BY <1>1, <2>2 DEF Elements
  <2>6. Queue!Next
    BY <2>4, <2>5 DEF Queue!Next, Queue!Take
  <2>7. QED
    BY <2>3, <2>6
<1>4. CASE UNCHANGED heapVars
  BY <1>4 DEF heapVars, HeapOrder, Queue!vars, IsHeap
<1>5. QED
  BY <1>2, <1>3, <1>4 DEF HeapNext, Queue!Next

\* The vector always keeps the order of a heap, with no item twice.
THEOREM HeapStaysOrdered == HeapSpec => []HeapOrder
<1>1. HeapInit => HeapOrder
  <2> SUFFICES ASSUME HeapInit PROVE HeapOrder
    OBVIOUS
  <2>1. vec \in Seq(Items) /\ Len(vec) = 0
    BY DEF HeapInit
  <2>2. QED
    BY <2>1 DEF HeapOrder, IsHeap
<1>2. HeapOrder /\ [HeapNext]_heapVars => HeapOrder'
  BY HeapStep
<1>3. QED
  BY <1>1, <1>2, PTL DEF HeapSpec

\* A least item is taken, and the others stay: the heap implements the abstract
\* priority queue.
THEOREM HeapTakesLeast == HeapSpec => TakesLeast
<1>1. HeapInit => Queue!Init
  <2> SUFFICES ASSUME HeapInit PROVE Queue!Init
    OBVIOUS
  <2>1. Len(vec) = 0 /\ taken = <<>>
    BY DEF HeapInit
  <2>2. QED
    BY <2>1 DEF Queue!Init
<1>2. HeapOrder /\ [HeapNext]_heapVars => [Queue!Next]_(Queue!vars)
  BY HeapStep
<1>3. QED
  BY <1>1, <1>2, HeapStaysOrdered, PTL DEF HeapSpec, TakesLeast, Queue!Spec

-----------------------------------------------------------------------------
(* LogFile *)

\* The file without fairness.
LogFileSpec == LogFileInit /\ [][LogFileNext]_logFileVars

\* The types of the variables.
LogFileTypes ==
  /\ now \in Nat /\ count \in Nat /\ lastRoll \in Nat /\ lastFlush \in Nat
  /\ file \in [written : Nat, unflushed : Nat]
  /\ lateFlush \in Nat /\ lateRoll \in Nat

\* No more appends are late than have been counted, and some are late only if
\* it is too long ago indeed: so the next check flushes or rolls.
LateIsCounted ==
  /\ lateFlush <= count /\ (lateFlush > 0 => now - lastFlush > flushInterval)
  /\ lateRoll <= count /\ (lateRoll > 0 => now - lastRoll > rollInterval)

\* The inductive invariant.
LogFileInv == LogFileTypes /\ LateIsCounted /\ LogFileLegal

\* An append keeps it.
LEMMA AppendLineKeeps ==
  ASSUME LogFileInv, NEW len \in Nat, AppendLine(len) PROVE LogFileInv'
<1> DEFINE f == [file EXCEPT !.written = @ + len, !.unflushed = @ + len]
<1> USE LogFileAssumption
<1>1. LogFileTypes /\ LateIsCounted /\ LogFileLegal
  BY DEF LogFileInv
<1>2. /\ f \in [written : Nat, unflushed : Nat] /\ f.unflushed <= f.written
      /\ f.written = file.written + len
  <2>1. file.written \in Nat /\ file.unflushed \in Nat /\ file.unflushed <= file.written
    BY <1>1 DEF LogFileTypes, LogFileLegal
  <2>2. file \in [written : Nat, unflushed : Nat]
    BY <1>1 DEF LogFileTypes
  <2>3. f.written = file.written + len /\ f.unflushed = file.unflushed + len
    BY <2>2 DEF f
  <2>4. file.written + len \in Nat /\ file.unflushed + len \in Nat
    BY <2>1
  <2>5. f \in [written : Nat, unflushed : Nat]
    BY <2>2, <2>4 DEF f
  <2> HIDE DEF f
  <2>6. QED
    BY <2>1, <2>3, <2>5
<1>3. now' = now
  BY DEF AppendLine
<1>4. CASE RollFile /\ count' \in {count, 0}
  <2>1. /\ lastRoll' = now /\ lastFlush' = now /\ file' = [written |-> 0, unflushed |-> 0]
        /\ lateFlush' = 0 /\ lateRoll' = 0
    BY <1>4 DEF RollFile, EmptyFile
  <2>2. QED
    BY <1>1, <1>3, <1>4, <2>1
    DEF LogFileInv, LogFileTypes, LateIsCounted, LogFileLegal
<1> HIDE DEF f
<1>5. CASE f.written <= rollSize /\ ~Due /\ count' = count + 1 /\ Keep(f) /\ Aged
  <2>1. /\ file' = f /\ lastRoll' = lastRoll /\ lastFlush' = lastFlush
        /\ lateFlush' = IF now - lastFlush > flushInterval THEN lateFlush + 1 ELSE lateFlush
        /\ lateRoll' = IF now - lastRoll > rollInterval THEN lateRoll + 1 ELSE lateRoll
        /\ count' = count + 1 /\ count + 1 < checkEveryN
    BY <1>1, <1>5 DEF Keep, Aged, Late, Due, LogFileTypes
  <2>2. LogFileTypes'
    BY <1>1, <1>2, <1>3, <2>1 DEF LogFileTypes
  <2>3. LateIsCounted'
    BY <1>1, <1>3, <2>1 DEF LogFileTypes, LateIsCounted
  <2>4. LogFileLegal'
    BY <1>1, <1>2, <1>5, <2>1, <2>2, <2>3 DEF LogFileTypes, LateIsCounted, LogFileLegal
  <2>5. QED
    BY <2>2, <2>3, <2>4 DEF LogFileInv
<1>6. CASE /\ f.written <= rollSize /\ count' = 0 /\ ~(now - lastRoll > rollInterval)
           /\ now - lastFlush > flushInterval /\ Flush(f) /\ Aged
  <2>1. /\ file' = [f EXCEPT !.unflushed = 0] /\ lastFlush' = now /\ lateFlush' = 0
        /\ lastRoll' = lastRoll /\ lateRoll' = lateRoll /\ lateRoll = 0
    BY <1>1, <1>6 DEF Flush, Aged, Late, LogFileTypes, LateIsCounted
  <2>2. file' \in [written : Nat, unflushed : Nat] /\ file'.unflushed = 0
        /\ file'.written = f.written
    BY <1>2, <2>1
  <2>3. QED
    BY <1>1, <1>2, <1>3, <1>6, <2>1, <2>2
    DEF LogFileInv, LogFileTypes, LateIsCounted, LogFileLegal
<1>7. CASE /\ f.written <= rollSize /\ count' = 0 /\ ~(now - lastRoll > rollInterval)
           /\ ~(now - lastFlush > flushInterval) /\ Keep(f) /\ Aged
  <2>1. /\ file' = f /\ lastFlush' = lastFlush /\ lastRoll' = lastRoll
        /\ lateFlush' = 0 /\ lateRoll' = 0
    BY <1>1, <1>7 DEF Keep, Aged, Late, LogFileTypes, LateIsCounted
  <2>2. QED
    BY <1>1, <1>2, <1>3, <1>7, <2>1
    DEF LogFileInv, LogFileTypes, LateIsCounted, LogFileLegal
<1>8. QED
  BY <1>4, <1>5, <1>6, <1>7 DEF AppendLine, f

\* However appends, flushes and rolls follow each other: a file outgrows its
\* size only to be rolled, and checkEveryN appends never go by without the
\* flush or the roll that is due.
THEOREM LogFileStaysLegal == LogFileSpec => []LogFileLegal
<1> USE LogFileAssumption
<1>1. LogFileInit => LogFileInv
  BY DEF LogFileInit, EmptyFile, LogFileInv, LogFileTypes, LateIsCounted, LogFileLegal
<1>2. LogFileInv /\ [LogFileNext]_logFileVars => LogFileInv'
  <2> SUFFICES ASSUME LogFileInv, [LogFileNext]_logFileVars PROVE LogFileInv'
    OBVIOUS
  <2> USE DEF LogFileInv, LogFileTypes, LateIsCounted, LogFileLegal
  <2>1. ASSUME NEW n \in Lengths, NEW len \in 0..n, AppendLine(len) PROVE LogFileInv'
    <3>1. len \in Nat
      OBVIOUS
    <3>2. QED
      BY <2>1, <3>1, AppendLineKeeps
  <2>2. CASE FlushNow
    <3>1. /\ file' = [file EXCEPT !.unflushed = 0] /\ lastFlush' = now /\ lateFlush' = 0
          /\ UNCHANGED <<now, count, lastRoll, lateRoll>>
      BY <2>2 DEF FlushNow, Flush
    <3>2. file' \in [written : Nat, unflushed : Nat] /\ file'.unflushed = 0
          /\ file'.written = file.written
      BY <3>1
    <3>3. QED
      BY <3>1, <3>2
  <2>3. CASE RollNow
    BY <2>3 DEF RollNow, RollFile, EmptyFile
  <2>4. CASE SecondPasses
    BY <2>4 DEF SecondPasses
  <2>5. CASE UNCHANGED logFileVars
    BY <2>5 DEF logFileVars
  <2>6. QED
    BY <2>1, <2>2, <2>3, <2>4, <2>5 DEF LogFileNext
<1>3. LogFileInv => LogFileLegal
  BY DEF LogFileInv
<1>4. QED
  BY <1>1, <1>2, <1>3, PTL DEF LogFileSpec

-----------------------------------------------------------------------------
(* Date.  A term of divisions is a predicate of its numbers, which the         *)
(* provers need not expand where it is passed on.                              *)

\* The years of the code begin in March, 4800 years earlier, and its months are
\* counted from there.
ShiftedYear(x) == IF x.month <= 2 THEN x.year + 4799 ELSE x.year + 4800
ShiftedMonth(x) == IF x.month <= 2 THEN x.month + 9 ELSE x.month - 3

\* The days before a month, and before a year.
MonthStart(m) == (153 * m + 2) \div 5
YearStart(y) == y * 365 + y \div 4 - y \div 100 + y \div 400

Dates == [year : Nat, month : 1..12, day : Nat]

\* The number of a date is that of the days before it.
LEMMA NumberOfDate ==
  ASSUME NEW x \in Dates
  PROVE  getJulianDayNumber(x.year, x.month, x.day)
           = x.day + MonthStart(ShiftedMonth(x)) + YearStart(ShiftedYear(x)) - 32045
<1> DEFINE a == (14 - x.month) \div 12
           y == x.year + 4800 - a
           m == x.month + 12 * a - 3
<1>1. a = IF x.month <= 2 THEN 1 ELSE 0
  BY DEF Dates
<1>2. y = ShiftedYear(x) /\ m = ShiftedMonth(x)
  BY <1>1 DEF ShiftedYear, ShiftedMonth, Dates
<1>3. getJulianDayNumber(x.year, x.month, x.day)
        = x.day + (153 * m + 2) \div 5 + y * 365 + y \div 4 - y \div 100 + y \div 400
            - 32045
  BY DEF getJulianDayNumber
<1>4. /\ x.day \in Int /\ (153 * m + 2) \div 5 \in Int /\ y * 365 \in Int
      /\ y \div 4 \in Int /\ y \div 100 \in Int /\ y \div 400 \in Int
  BY <1>1 DEF Dates
<1>5. QED
  BY <1>2, <1>3, <1>4 DEF MonthStart, YearStart

\* The days before each month of a year that begins in March.
LEMMA MonthStarts ==
  /\ MonthStart(0) = 0 /\ MonthStart(1) = 31 /\ MonthStart(2) = 61
  /\ MonthStart(3) = 92 /\ MonthStart(4) = 122 /\ MonthStart(5) = 153
  /\ MonthStart(6) = 184 /\ MonthStart(7) = 214 /\ MonthStart(8) = 245
  /\ MonthStart(9) = 275 /\ MonthStart(10) = 306 /\ MonthStart(11) = 337
BY DEF MonthStart

\* A quotient grows by one where the remainder becomes zero.
LEMMA NextIs ==
  ASSUME NEW n \in Nat
  PROVE  /\ (n + 1) \div 4 = n \div 4 + (IF (n + 1) % 4 = 0 THEN 1 ELSE 0)
         /\ (n + 1) \div 100 = n \div 100 + (IF (n + 1) % 100 = 0 THEN 1 ELSE 0)
         /\ (n + 1) \div 400 = n \div 400 + (IF (n + 1) % 400 = 0 THEN 1 ELSE 0)
OBVIOUS

\* A year that begins in March is as long as the calendar year it ends in.
LEMMA Leap ==
  ASSUME NEW n \in Nat
  PROVE  /\ IsLeap(n + 4801) <=> IsLeap(n + 1)
         /\ YearStart(n + 1) = YearStart(n) + (IF IsLeap(n + 1) THEN 366 ELSE 365)
<1>1. YearStart(n + 1) = YearStart(n) + (IF IsLeap(n + 1) THEN 366 ELSE 365)
  BY NextIs DEF YearStart, IsLeap
<1>2. IsLeap(n + 4801) <=> IsLeap(n + 1)
  BY DEF IsLeap
<1>3. QED
  BY <1>1, <1>2

\* A day of the calendar.
IsDay(x) == x \in Dates /\ x.day \in 1..DaysIn(x.year, x.month)

\* The day behind the days before its month, from the first of March on.
DayOfYear(x) == x.day - 1 + MonthStart(ShiftedMonth(x))

\* A day of the calendar is one of such a year, and the place in the year tells its
\* month.
LEMMA DaysOfYear ==
  ASSUME NEW x, IsDay(x)
  PROVE  /\ ShiftedMonth(x) \in 0..11 /\ ShiftedYear(x) \in Nat
         /\ DayOfYear(x) \in 0..365
         /\ DayOfYear(x) = 365 => IsLeap(ShiftedYear(x) + 1)
         /\ (5 * DayOfYear(x) + 2) \div 153 = ShiftedMonth(x)
<1>1. x.year \in Nat /\ x.month \in 1..12 /\ x.day \in 1..31
  BY DEF IsDay, Dates, DaysIn
<1>2. ShiftedMonth(x) \in 0..11 /\ ShiftedYear(x) \in Nat
  BY <1>1 DEF ShiftedMonth, ShiftedYear
<1>3. CASE x.month = 2
  <2>1. ShiftedMonth(x) = 11 /\ ShiftedYear(x) = x.year + 4799
        /\ x.day <= IF IsLeap(x.year) THEN 29 ELSE 28
    BY <1>1, <1>3 DEF ShiftedMonth, ShiftedYear, IsDay, DaysIn
  <2>2. x.day = 29 => IsLeap(x.year)
    BY <1>1, <2>1
  <2>3. IsLeap(x.year) <=> IsLeap(x.year + 4800)
    BY <1>1 DEF IsLeap
  <2>4. QED
    BY <1>1, <2>1, <2>2, <2>3, MonthStarts DEF DayOfYear
<1>4. CASE x.month \in {4, 6, 9, 11}
  <2>1. x.day <= 30
    BY <1>1, <1>4 DEF IsDay, DaysIn
  <2>2. QED
    BY <1>1, <1>2, <1>4, <2>1, MonthStarts DEF DayOfYear, ShiftedMonth
<1>5. CASE x.month \in {1, 3, 5, 7, 8, 10, 12}
  BY <1>1, <1>2, <1>5, MonthStarts DEF DayOfYear, ShiftedMonth
<1>6. QED
  BY <1>1, <1>3, <1>4, <1>5

\* A year is found from the days of those before it, scaled, since it is not longer
\* than the longest: year D of a century, doy days later.
InYear(D, doy, r) ==
  /\ D \in 0..99 /\ doy \in 0..365 /\ (doy = 365 => D % 4 = 3)
  /\ r \in Int /\ r = doy + D * 365 + D \div 4

YearFound(r, D, doy) ==
  /\ LET d == (4 * r + 3) \div 1461
     IN d = D /\ r - ((1461 * d) \div 4) = doy
  /\ 0 <= r /\ r <= 36524 /\ (r = 36524 => D = 99 /\ doy = 365)

\* The code finds the year.
LEMMA YearIs ==
  ASSUME NEW D, NEW doy, NEW r, InYear(D, doy, r)
  PROVE  YearFound(r, D, doy)
<1> DEFINE q == D \div 4
           w == D % 4
<1>1. q \in 0..24 /\ w \in 0..3 /\ D = 4 * q + w /\ D \in Int
  BY DEF InYear
<1>2. /\ doy = 365 => w = 3
      /\ r = doy + D * 365 + q /\ r \in Int /\ doy \in 0..365
  BY DEF InYear
<1>3. (1461 * D) \div 4 = D * 365 + q
  BY <1>1
<1> HIDE DEF q, w
<1>4. 1461 * D <= 4 * r + 3 /\ 4 * r + 3 < 1461 * D + 1461
  BY <1>1, <1>2
<1>5. (4 * r + 3) \div 1461 = D
  BY ONLY <1>1, <1>2, <1>4
<1>6. r - ((1461 * D) \div 4) = doy
  BY <1>1, <1>2, <1>3
<1>7. 0 <= r /\ r <= 36524 /\ (r = 36524 => D = 99 /\ doy = 365)
  BY <1>1, <1>2
<1>8. QED
  BY <1>5, <1>6, <1>7 DEF YearFound

\* A century likewise: century B, r days later.
InCentury(B, r, a) ==
  /\ B \in Nat /\ r \in Int /\ 0 <= r /\ r <= 36524 /\ (r = 36524 => B % 4 = 3)
  /\ a \in Int /\ a = (146097 * B) \div 4 + r

CenturyFound(a, B, r) ==
  LET b == (4 * a + 3) \div 146097
  IN b = B /\ a - ((b * 146097) \div 4) = r

\* The code finds the century.
LEMMA CenturyIs ==
  ASSUME NEW B, NEW r, NEW a, InCentury(B, r, a)
  PROVE  CenturyFound(a, B, r)
<1> DEFINE q == (146097 * B) \div 4
           w == B % 4
<1>1. q \in Int /\ w \in 0..3 /\ 4 * q = 146097 * B - w /\ B \in Int /\ r \in Int /\ a \in Int
  BY DEF InCentury
<1>2. /\ r = 36524 => w = 3
      /\ 0 <= r /\ r <= 36524
      /\ a = q + r
  BY DEF InCentury
<1>3. (B * 146097) \div 4 = q
  BY <1>1
<1> HIDE DEF q, w
<1>4. 146097 * B <= 4 * a + 3 /\ 4 * a + 3 < 146097 * B + 146097
  BY <1>1, <1>2
<1>5. (4 * a + 3) \div 146097 = B
  BY ONLY <1>1, <1>4
<1>6. QED
  BY <1>1, <1>2, <1>3, <1>5 DEF CenturyFound

\* The date of a day of the years that begin in March, with what they begin with.
Named(B, D, M, doy) ==
  [year |-> B * 100 + D - 4800 + M \div 10, month |-> M + 3 - 12 * (M \div 10),
   day |-> doy - ((153 * M + 2) \div 5) + 1]

\* getYearMonthDay() finds them, the century first.
AtYear(b, c) ==
  LET d == (4 * c + 3) \div 1461
      e == c - ((1461 * d) \div 4)
      m == (5 * e + 2) \div 153
  IN Named(b, d, m, e)

AtCentury(a) ==
  LET b == (4 * a + 3) \div 146097
      c == a - ((b * 146097) \div 4)
  IN AtYear(b, c)

\* What is found makes the date.
LEMMA Finds ==
  ASSUME NEW j \in Int, NEW a \in Int, a = j + 32044, NEW B \in Int, NEW D \in Int,
         NEW r \in Int, NEW doy \in Int, NEW M \in Int,
         CenturyFound(a, B, r), YearFound(r, D, doy), (5 * doy + 2) \div 153 = M
  PROVE  getYearMonthDay(j) = Named(B, D, M, doy)
<1>1. getYearMonthDay(j) = AtCentury(j + 32044)
  BY DEF getYearMonthDay, AtCentury, AtYear, Named
<1>2. AtCentury(a) = AtYear(B, r)
  BY DEF AtCentury, CenturyFound
<1>3. AtYear(B, r) = Named(B, D, M, doy)
  BY DEF AtYear, YearFound
<1>4. QED
  BY <1>1, <1>2, <1>3

\* The days from the first of March of the year -4800 on, by centuries and years.
InParts(a, y, doy) ==
  \E B \in Nat, D \in 0..99, r \in Int :
    B * 100 + D = y /\ CenturyFound(a, B, r) /\ YearFound(r, D, doy)

\* Century, year of the century and day of the year are found for every day.
LEMMA DaysSince ==
  ASSUME NEW y \in Nat, NEW doy \in 0..365, doy = 365 => IsLeap(y + 1),
         NEW a, a = YearStart(y) + doy
  PROVE  InParts(a, y, doy)
<1> DEFINE B == y \div 100
           D == y % 100
           e == D \div 4
           r == doy + D * 365 + e
<1>1. B \in Nat /\ D \in 0..99 /\ B * 100 + D = y
  OBVIOUS
<1>2. /\ y \div 4 = 25 * B + e /\ y \div 400 = B \div 4
      /\ (146097 * B) \div 4 = 36524 * B + B \div 4
  BY <1>1
<1>3. doy = 365 => D % 4 = 3 /\ (D = 99 => B % 4 = 3)
  BY <1>1 DEF IsLeap
<1>4. e \in Int /\ r \in Int /\ B \div 4 \in Int /\ a \in Int
      /\ a = (146097 * B) \div 4 + r
  BY <1>1, <1>2 DEF YearStart
<1>5. InYear(D, doy, r)
  BY <1>1, <1>3, <1>4 DEF InYear
<1> HIDE DEF B, D, e, r
<1>6. YearFound(r, D, doy)
  BY <1>5, YearIs
<1>7. r = 36524 => B % 4 = 3
  BY <1>3, <1>6 DEF YearFound
<1>8. InCentury(B, r, a)
  BY <1>1, <1>4, <1>6, <1>7 DEF InCentury, YearFound
<1>9. CenturyFound(a, B, r)
  BY <1>8, CenturyIs
<1>10. B \in Nat /\ D \in 0..99 /\ r \in Int
  BY <1>1, <1>4
<1>11. QED
  BY <1>1, <1>6, <1>9, <1>10, Zenon DEF InParts

\* A day of the calendar comes back.
LEMMA DateIsFound ==
  ASSUME NEW x, IsDay(x)
  PROVE  getYearMonthDay(getJulianDayNumber(x.year, x.month, x.day)) = x
<1> DEFINE j == getJulianDayNumber(x.year, x.month, x.day)
           y == ShiftedYear(x)
           doy == DayOfYear(x)
           M == ShiftedMonth(x)
<1>1. /\ M \in 0..11 /\ y \in Nat /\ doy \in 0..365
      /\ (doy = 365 => IsLeap(y + 1)) /\ (5 * doy + 2) \div 153 = M
      /\ doy = x.day - 1 + MonthStart(M) /\ MonthStart(M) \in Int
  BY DaysOfYear DEF DayOfYear, MonthStart
<1>2. x \in Dates
  BY DEF IsDay
<1> HIDE DEF y, doy, M
<1> DEFINE a == j + 32044
<1>3. a = YearStart(y) + doy /\ j \in Int
  <2>1. j = x.day + MonthStart(M) + YearStart(y) - 32045
    BY <1>2, NumberOfDate DEF y, M
  <2>2. YearStart(y) \in Int /\ x.day \in Int
    BY <1>1, <1>2 DEF YearStart, Dates
  <2> HIDE DEF j
  <2>3. QED
    BY <1>1, <2>1, <2>2
<1> HIDE DEF j, a
<1>4. PICK B \in Nat, D \in 0..99, r \in Int :
           B * 100 + D = y /\ CenturyFound(a, B, r) /\ YearFound(r, D, doy)
  <2>1. InParts(a, y, doy)
    BY <1>1, <1>3, DaysSince
  <2>2. QED
    BY <2>1, Zenon DEF InParts
<1>5. (5 * doy + 2) \div 153 = M /\ doy \in Int /\ M \in Int /\ B \in Int /\ D \in Int
  BY <1>1, <1>4
<1>6. a = j + 32044
  BY DEF a
<1>7. getYearMonthDay(j) = Named(B, D, M, doy)
  BY <1>3, <1>4, <1>5, <1>6, Finds
<1>8. M \div 10 = IF x.month <= 2 THEN 1 ELSE 0
  BY <1>2 DEF M, ShiftedMonth, Dates
<1>9. B * 100 + D - 4800 + M \div 10 = x.year
  BY <1>2, <1>4, <1>8 DEF y, ShiftedYear, Dates
<1>10. M + 3 - 12 * (M \div 10) = x.month
  BY <1>2, <1>8 DEF M, ShiftedMonth, Dates
<1>11. doy - ((153 * M + 2) \div 5) + 1 = x.day
  BY <1>1, <1>2 DEF MonthStart, Dates
<1>12. QED
  BY <1>2, <1>7, <1>9, <1>10, <1>11 DEF j, Dates, Named

\* The next month begins behind the last day of a month.
LEMMA NextMonth ==
  ASSUME NEW x \in Dates, NEW n \in Dates, n.day = 1,
         \/ x.month < 12 /\ n.year = x.year /\ n.month = x.month + 1
         \/ x.month = 12 /\ n.year = x.year + 1 /\ n.month = 1
  PROVE  MonthStart(ShiftedMonth(n)) + YearStart(ShiftedYear(n))
           = MonthStart(ShiftedMonth(x)) + YearStart(ShiftedYear(x))
               + DaysIn(x.year, x.month)
<1>1. x.year \in Nat /\ n.year \in Nat /\ x.month \in 1..12 /\ n.month \in 1..12
  BY DEF Dates
<1>2. CASE x.month = 2
  <2> DEFINE y == x.year + 4799
  <2>1. /\ ShiftedMonth(x) = 11 /\ ShiftedYear(x) = y
        /\ ShiftedMonth(n) = 0 /\ ShiftedYear(n) = y + 1 /\ y \in Nat
    BY <1>1, <1>2 DEF ShiftedMonth, ShiftedYear
  <2>2. YearStart(y) \in Int /\ YearStart(y + 1) \in Int
    BY <2>1 DEF YearStart
  <2>3. IsLeap(y + 1) <=> IsLeap(x.year)
    BY <1>1 DEF IsLeap
  <2>4. YearStart(y + 1) = YearStart(y) + (IF IsLeap(x.year) THEN 366 ELSE 365)
    BY <2>1, <2>3, Leap
  <2>5. DaysIn(x.year, x.month) = IF IsLeap(x.year) THEN 29 ELSE 28
    BY <1>2 DEF DaysIn
  <2> HIDE DEF y
  <2>6. QED
    BY <2>1, <2>2, <2>4, <2>5, MonthStarts
<1>3. CASE x.month # 2
  <2>1. /\ ShiftedMonth(n) = ShiftedMonth(x) + 1 /\ ShiftedYear(n) = ShiftedYear(x)
        /\ ShiftedYear(x) \in Nat
    BY <1>1, <1>3 DEF ShiftedMonth, ShiftedYear
  <2>2. YearStart(ShiftedYear(x)) \in Int
    BY <2>1 DEF YearStart
  <2>3. MonthStart(ShiftedMonth(x) + 1) = MonthStart(ShiftedMonth(x)) + DaysIn(x.year, x.month)
        /\ MonthStart(ShiftedMonth(x)) \in Int /\ DaysIn(x.year, x.month) \in Int
    BY <1>1, <1>3, MonthStarts DEF ShiftedMonth, DaysIn
  <2>4. QED
    BY <2>1, <2>2, <2>3
<1>4. QED
  BY <1>2, <1>3

\* The terms of a number are numbers.
LEMMA StartsAreNumbers ==
  ASSUME NEW x \in Dates
  PROVE  /\ MonthStart(ShiftedMonth(x)) \in Int /\ YearStart(ShiftedYear(x)) \in Int
         /\ DaysIn(x.year, x.month) \in 28..31
<1>1. ShiftedMonth(x) \in Int /\ ShiftedYear(x) \in Int
  BY DEF Dates, ShiftedMonth, ShiftedYear
<1>2. QED
  BY <1>1 DEF MonthStart, YearStart, DaysIn

\* The number of the next day is the next number.
LEMMA NextDayIs ==
  ASSUME IsDay(date), NextDay
  PROVE  /\ IsDay(date')
         /\ getJulianDayNumber(date'.year, date'.month, date'.day)
              = getJulianDayNumber(date.year, date.month, date.day) + 1
<1>1. /\ date \in Dates /\ date.day \in 1..DaysIn(date.year, date.month)
      /\ date.year \in Nat /\ date.month \in 1..12 /\ date.day \in Nat
  BY DEF IsDay, Dates
<1>2. DaysIn(date.year, date.month) \in 28..31
  BY <1>1, StartsAreNumbers
<1>3. CASE date.day < DaysIn(date.year, date.month)
  <2>1. date' = [date EXCEPT !.day = @ + 1]
    BY <1>3 DEF NextDay
  <2>2. /\ date' \in Dates /\ date'.year = date.year /\ date'.month = date.month
        /\ date'.day = date.day + 1
    BY <1>1, <2>1 DEF Dates
  <2>3. IsDay(date')
    BY <1>1, <1>2, <1>3, <2>2 DEF IsDay
  <2>4. ShiftedYear(date') = ShiftedYear(date) /\ ShiftedMonth(date') = ShiftedMonth(date)
    BY <2>2 DEF ShiftedYear, ShiftedMonth
  <2>5. QED
    BY <1>1, <2>2, <2>3, <2>4, NumberOfDate, StartsAreNumbers
<1>4. CASE date.day = DaysIn(date.year, date.month)
  <2>1. /\ date' \in Dates /\ date'.day = 1
        /\ \/ date.month < 12 /\ date'.year = date.year /\ date'.month = date.month + 1
           \/ date.month = 12 /\ date'.year = date.year + 1 /\ date'.month = 1
    <3>1. CASE date.month < 12
      <4>1. date' = [date EXCEPT !.day = 1, !.month = @ + 1]
        BY <1>1, <1>2, <1>4, <3>1 DEF NextDay
      <4>2. /\ date'.day = 1 /\ date'.year = date.year /\ date'.month = date.month + 1
            /\ date' = [year |-> date.year, month |-> date.month + 1, day |-> 1]
        BY <1>1, <4>1 DEF Dates
      <4>3. QED
        BY <1>1, <3>1, <4>2 DEF Dates
    <3>2. CASE date.month = 12
      <4>1. date' = [year |-> date.year + 1, month |-> 1, day |-> 1]
        BY <1>1, <1>2, <1>4, <3>2 DEF NextDay
      <4>2. QED
        BY <1>1, <3>2, <4>1 DEF Dates
    <3>3. QED
      BY <1>1, <3>1, <3>2
  <2>2. IsDay(date')
    BY <2>1, StartsAreNumbers DEF IsDay
  <2>3. MonthStart(ShiftedMonth(date')) + YearStart(ShiftedYear(date'))
          = MonthStart(ShiftedMonth(date)) + YearStart(ShiftedYear(date)) + date.day
    BY <1>1, <1>4, <2>1, NextMonth
  <2>4. /\ MonthStart(ShiftedMonth(date')) \in Int /\ YearStart(ShiftedYear(date')) \in Int
        /\ MonthStart(ShiftedMonth(date)) \in Int /\ YearStart(ShiftedYear(date)) \in Int
    BY <1>1, <2>1, StartsAreNumbers
  <2>5. getJulianDayNumber(date'.year, date'.month, date'.day)
          = 1 + MonthStart(ShiftedMonth(date')) + YearStart(ShiftedYear(date')) - 32045
    BY <2>1, NumberOfDate
  <2>6. getJulianDayNumber(date.year, date.month, date.day)
          = date.day + MonthStart(ShiftedMonth(date)) + YearStart(ShiftedYear(date)) - 32045
    BY <1>1, NumberOfDate
  <2>7. QED
    BY <1>1, <2>2, <2>3, <2>4, <2>5, <2>6
<1>5. QED
  BY <1>1, <1>2, <1>3, <1>4

\* The calendar without fairness.
DateSpec == DateInit /\ [][NextDay]_dateVars

\* The inductive invariant.
DateInv ==
  /\ IsDay(date) /\ julianDayNumber \in Int
  /\ getJulianDayNumber(date.year, date.month, date.day) = julianDayNumber
  /\ weekDay(julianDayNumber) = weekday

\* The first day satisfies the invariant.
LEMMA DateInvInit == DateInit => DateInv
<1> SUFFICES ASSUME DateInit PROVE DateInv
  OBVIOUS
<1>1. date = [year |-> FirstYear, month |-> 1, day |-> 1] /\ FirstYear \in Nat
  BY DateAssumption DEF DateInit
<1>2. date \in Dates /\ date.year = FirstYear /\ date.month = 1 /\ date.day = 1
  BY <1>1 DEF Dates
<1>3. IsDay(date)
  BY <1>2, StartsAreNumbers DEF IsDay
<1>4. getJulianDayNumber(1900, 1, 1) = 2415021
  <2>1. ShiftedMonth(date) = 10 /\ ShiftedYear(date) = 6699
    BY <1>2, DateAssumption DEF ShiftedMonth, ShiftedYear
  <2>2. MonthStart(10) = 306 /\ YearStart(6699) = 2446759
    BY MonthStarts DEF YearStart
  <2>3. QED
    BY <1>2, <2>1, <2>2, NumberOfDate, DateAssumption
<1>5. weekDay(2415021) = 1
  BY DEF weekDay
<1>6. QED
  BY <1>2, <1>3, <1>4, <1>5, DateAssumption DEF DateInit, DateInv

\* Every day satisfies it if the day before does.
LEMMA DateInvStep == DateInv /\ [NextDay]_dateVars => DateInv'
<1> SUFFICES ASSUME DateInv, [NextDay]_dateVars PROVE DateInv'
  OBVIOUS
<1>1. CASE NextDay
  <2>1. /\ IsDay(date')
        /\ getJulianDayNumber(date'.year, date'.month, date'.day) = julianDayNumber + 1
    BY <1>1, NextDayIs DEF DateInv
  <2>2. /\ julianDayNumber' = julianDayNumber + 1 /\ weekday' = (weekday + 1) % 7
        /\ julianDayNumber \in Int /\ weekday = weekDay(julianDayNumber)
    BY <1>1 DEF NextDay, DateInv
  <2>3. weekDay(julianDayNumber') = weekday'
    BY <2>2 DEF weekDay
  <2>4. QED
    BY <2>1, <2>2, <2>3 DEF DateInv
<1>2. CASE UNCHANGED dateVars
  BY <1>2 DEF DateInv, dateVars, IsDay
<1>3. QED
  BY <1>1, <1>2

\* The number of every day of the calendar follows that of the day before, gives
\* the day back and knows its place in the week, however far the calendar goes.
THEOREM NumbersDoNameDays == DateSpec => []NumbersAreDays
<1>1. DateInv => NumbersAreDays
  BY DateIsFound DEF DateInv, NumbersAreDays
<1>2. QED
  BY <1>1, DateInvInit, DateInvStep, PTL DEF DateSpec

-----------------------------------------------------------------------------
(* LogStream: the digits are found from the last to the first, and read      *)
(* back from the first to the last.                                          *)

\* What one turn of the loop of convert() does to a number.
LEMMA OneDigit ==
  ASSUME NEW base \in {10, 16}, NEW n \in Int
  PROVE  LET q == Quotient(n, base)
             r == Magnitude(Remainder(n, base))
         IN /\ q \in Int /\ Magnitude(q) \in Nat /\ Magnitude(n) \in Nat
            /\ r \in 0..(base - 1)
            /\ Magnitude(n) = base * Magnitude(q) + r
            /\ q # 0 => Magnitude(q) \in Nat \ {0}
<1> DEFINE m == Magnitude(n)
           d == m \div base
           q == Quotient(n, base)
           r == Magnitude(Remainder(n, base))
<1>1. m \in Nat /\ (n >= 0 => n = m) /\ (n < 0 => n = -m /\ m > 0)
  BY DEF Magnitude
<1>2. d \in Nat /\ m - base * d \in 0..(base - 1) /\ base * d \in Nat
  <2> HIDE DEF m
  <2>1. CASE base = 10
    BY <1>1, <2>1
  <2>2. CASE base = 16
    BY <1>1, <2>2
  <2>3. QED
    BY <2>1, <2>2
<1>3. q = IF n >= 0 THEN d ELSE -d
  <2>1. CASE n >= 0
    BY <1>1, <2>1 DEF Quotient
  <2>2. CASE n < 0
    BY <2>2 DEF Quotient, Magnitude
  <2>3. QED
    BY <2>1, <2>2
<1> HIDE DEF d, m
<1>4. Remainder(n, base) = n - base * q
  BY DEF Remainder
<1> HIDE DEF q
<1>5. Magnitude(q) = d
  BY <1>2, <1>3 DEF Magnitude
<1>6. r = m - base * d
  <2>1. CASE base = 10
    BY <2>1, <1>1, <1>2, <1>3, <1>4 DEF Magnitude
  <2>2. CASE base = 16
    BY <2>2, <1>1, <1>2, <1>3, <1>4 DEF Magnitude
  <2>3. QED
    BY <2>1, <2>2
<1> HIDE DEF r
<1>7. /\ q \in Int /\ Magnitude(q) \in Nat /\ m \in Nat /\ r \in 0..(base - 1)
      /\ m = base * Magnitude(q) + r
      /\ q # 0 => Magnitude(q) \in Nat \ {0}
  BY <1>1, <1>2, <1>3, <1>5, <1>6
<1>8. QED
  BY <1>7 DEF m, q, r

\* The digits of a number are those of its quotient and the last one.
LEMMA DigitsFollow ==
  ASSUME NEW base \in {10, 16}
  PROVE  \A n \in Int :
           /\ Digits(n, base) \in Seq(0..(base - 1))
           /\ Digits(n, base) =
                LET last == <<Magnitude(Remainder(n, base))>>
                IN IF Quotient(n, base) = 0 THEN last
                   ELSE Digits(Quotient(n, base), base) \o last
<1> DEFINE S == Seq(0..(base - 1))
           LastDigit(n) == <<Magnitude(Remainder(n, base))>>
           OneTurn(g, n) == IF Quotient(n, base) = 0 THEN LastDigit(n)
                            ELSE g[Quotient(n, base)] \o LastDigit(n)
           ends == {n \in Int : Quotient(n, base) = 0}
           size == [n \in Int |-> Magnitude(n)]
           next == [n \in Int |-> Quotient(n, base)]
           first == [n \in Int |-> LastDigit(n)]
           step == [x \in Int \X S |-> x[2] \o LastDigit(x[1])]
<1>1. \A n \in Int : LastDigit(n) \in S
  <2>1. \A n \in Int : Magnitude(Remainder(n, base)) \in 0..(base - 1)
    BY OneDigit
  <2>2. QED
    BY <2>1
<1>2. size \in [Int -> Nat] /\ next \in [Int -> Int]
  <2>1. \A n \in Int : Magnitude(n) \in Nat /\ Quotient(n, base) \in Int
    BY OneDigit
  <2>2. QED
    BY <2>1
<1>3. first \in [Int -> S] /\ step \in [Int \X S -> S]
  <2> HIDE DEF LastDigit
  <2>1. \A n \in Int, s \in S : s \o LastDigit(n) \in S
    BY <1>1, ConcatProperties
  <2> HIDE DEF S
  <2>2. QED
    BY <1>1, <2>1
<1>4. \A n \in Int \ ends : size[next[n]] < size[n]
  <2> SUFFICES ASSUME NEW n \in Int \ ends PROVE size[next[n]] < size[n]
    OBVIOUS
  <2>1. /\ Quotient(n, base) \in Int /\ Magnitude(Quotient(n, base)) \in Nat \ {0}
        /\ Magnitude(Remainder(n, base)) \in 0..(base - 1)
        /\ Magnitude(n) \in Nat
        /\ Magnitude(n) = base * Magnitude(Quotient(n, base))
                            + Magnitude(Remainder(n, base))
    BY OneDigit
  <2>2. Magnitude(Quotient(n, base)) < Magnitude(n)
    <3>1. CASE base = 10
      BY <2>1, <3>1
    <3>2. CASE base = 16
      BY <2>1, <3>2
    <3>3. QED
      BY <3>1, <3>2
  <2>3. QED
    BY <2>1, <2>2
<1>5. ends \in SUBSET Int
  OBVIOUS
<1>6. PICK f : Recurs(f, Int, S, ends, next, first, step)
  <2> HIDE DEF ends, size, next, first, step, S
  <2>1. IsRecursion(Int, S, ends, size, next, first, step)
    BY <1>2, <1>3, <1>4, <1>5 DEF IsRecursion
  <2>2. QED
    BY <2>1, Recursion
<1>7. /\ f \in [Int -> S]
      /\ \A n \in Int :
           f[n] = IF n \in ends THEN first[n] ELSE step[<<n, f[next[n]]>>]
  <2> HIDE DEF ends, next, first, step, S
  <2>1. QED
    BY <1>6 DEF Recurs
<1>8. ASSUME NEW n \in Int PROVE f[n] = OneTurn(f, n)
  <2>1. f[next[n]] \in S
    BY <1>2, <1>7
  <2>2. step[<<n, f[next[n]]>>] = f[next[n]] \o LastDigit(n)
    <3> HIDE DEF LastDigit, S
    <3>1. QED
      BY <2>1
  <2>3. QED
    BY <1>7, <2>2
<1> DEFINE d[n \in Int] == LET last == <<Magnitude(Remainder(n, base))>>
                           IN IF Quotient(n, base) = 0 THEN last
                              ELSE d[Quotient(n, base)] \o last
<1>9. f = [n \in Int |-> OneTurn(f, n)]
  BY <1>7, <1>8
<1>10. d = [n \in Int |-> OneTurn(d, n)]
  BY <1>9, Zenon
<1>11. \A n \in Int : Digits(n, base) = d[n]
  BY DEF Digits
<1> HIDE DEF d
<1>12. \A n \in Int : Digits(n, base) = LET last == LastDigit(n)
                IN IF Quotient(n, base) = 0 THEN last
                   ELSE Digits(Quotient(n, base), base) \o last
  <2>1. \A n \in Int : d[n] = OneTurn(d, n)
    BY <1>10
  <2>2. \A n \in Int : Quotient(n, base) \in Int
    BY OneDigit
  <2>3. QED
    BY <1>11, <2>1, <2>2, Zenon
<1> DEFINE G == {m \in Nat : \A n \in Int : Magnitude(n) = m => Digits(n, base) \in S}
<1>13. ASSUME NEW m \in Nat, \A j \in 0..(m - 1) : j \in G PROVE m \in G
  <2> SUFFICES ASSUME NEW n \in Int, Magnitude(n) = m PROVE Digits(n, base) \in S
    OBVIOUS
  <2>1. CASE Quotient(n, base) = 0
    BY <1>1, <1>12, <2>1
  <2>2. CASE Quotient(n, base) # 0
    <3>1. n \in Int \ ends /\ Quotient(n, base) \in Int
      BY <2>2, OneDigit
    <3>2. Magnitude(Quotient(n, base)) < m /\ Magnitude(Quotient(n, base)) \in Nat
      BY <1>2, <1>4, <3>1
    <3>3. Magnitude(Quotient(n, base)) \in 0..(m - 1)
      BY <3>2
    <3>4. Digits(Quotient(n, base), base) \in S
      BY <1>13, <3>1, <3>3
    <3>5. Digits(Quotient(n, base), base) \o LastDigit(n) \in S
      <4> HIDE DEF LastDigit
      <4>1. QED
        BY <1>1, <3>4, ConcatProperties
    <3>6. QED
      BY <1>12, <2>2, <3>5
  <2>3. QED
    BY <2>1, <2>2
<1>14. Nat \subseteq G
  <2> HIDE DEF G
  <2>1. QED
    BY <1>13, Induction
<1>15. \A n \in Int : Digits(n, base) \in S
  <2>1. \A n \in Int : Magnitude(n) \in Nat
    BY OneDigit
  <2>2. QED
    BY <1>14, <2>1
<1>16. QED
  BY <1>12, <1>15, Zenon

\* v is the values of the beginnings of s.
ValuesOf(v, s, base) ==
  /\ v \in [0..Len(s) -> Int]
  /\ v[0] = 0
  /\ \A k \in 1..Len(s) : v[k] = base * v[k - 1] + s[k]

\* s are the digits of the magnitude m, without leading zeros, and no more than
\* one for every three bits.
DigitsOf(m, s, base) ==
  /\ s \in Seq(0..(base - 1)) /\ s # <<>>
  /\ \E v : ValuesOf(v, s, base) /\ v[Len(s)] = m
  /\ s[1] = 0 => m = 0 /\ Len(s) = 1
  /\ \A k \in Nat \ {0} : m < 2^(3 * k) => Len(s) <= k

\* Three bits more.
LEMMA ThreeBits ==
  ASSUME NEW k \in Nat
  PROVE  2^(3 * k) \in Nat \ {0} /\ 2^(3 * (k + 1)) = 8 * 2^(3 * k)
<1> DEFINE p(i) == 2^(3 * k + i)
<1>1. p(0) \in Nat \ {0} /\ p(1) = 2 * p(0)
  <2>1. 2^(3 * k) \in Nat \ {0} /\ 2^(3 * k + 1) = 2 * 2^(3 * k)
    BY PowerOfTwo
  <2>2. 3 * k = 3 * k + 0
    OBVIOUS
  <2>3. QED
    BY <2>1, <2>2, Zenon
<1>2. \A i \in 1..2 : p(i + 1) = 2 * p(i)
  <2> TAKE i \in 1..2
  <2>1. 2^(3 * k + i + 1) = 2 * 2^(3 * k + i)
    BY PowerOfTwo
  <2>2. 3 * k + (i + 1) = 3 * k + i + 1
    OBVIOUS
  <2>3. QED
    BY <2>1, <2>2, Zenon
<1>3. p(0) = 2^(3 * k) /\ p(3) = 2^(3 * (k + 1))
  <2>1. 3 * k = 3 * k + 0 /\ 3 * (k + 1) = 3 * k + 3
    OBVIOUS
  <2>2. QED
    BY <2>1, Zenon
<1> HIDE DEF p
<1>4. p(1 + 1) = p(2) /\ p(2 + 1) = p(3)
  OBVIOUS
<1>5. p(3) = 8 * p(0)
  BY <1>1, <1>2, <1>4
<1>6. QED
  BY <1>1, <1>3, <1>5, Zenon

\* A digit behind the digits of m.
LEMMA OneDigitMore ==
  ASSUME NEW base \in {10, 16}, NEW m \in Nat \ {0}, NEW s, DigitsOf(m, s, base),
         NEW r \in 0..(base - 1)
  PROVE  DigitsOf(base * m + r, s \o <<r>>, base)
<1> DEFINE t == s \o <<r>>
<1>1. /\ s \in Seq(0..(base - 1)) /\ Len(s) \in Nat \ {0}
      /\ t \in Seq(0..(base - 1)) /\ Len(t) = Len(s) + 1
      /\ \A k \in 1..Len(s) : t[k] = s[k]
      /\ t[Len(s) + 1] = r
  BY DEF DigitsOf
<1>2. base * m + r \in Nat /\ base * m + r > 8 * m - 1
  <2>1. CASE base = 10
    BY <2>1
  <2>2. CASE base = 16
    BY <2>2
  <2>3. QED
    BY <2>1, <2>2
<1>3. PICK v : ValuesOf(v, s, base) /\ v[Len(s)] = m
  BY DEF DigitsOf
<1> HIDE DEF t
<1> DEFINE w == [k \in 0..Len(t) |-> IF k = Len(t) THEN base * m + r ELSE v[k]]
<1>4. ValuesOf(w, t, base) /\ w[Len(t)] = base * m + r
  <2>1. /\ v \in [0..Len(s) -> Int] /\ v[0] = 0
        /\ \A k \in 1..Len(s) : v[k] = base * v[k - 1] + s[k]
    BY <1>3 DEF ValuesOf
  <2>2. w \in [0..Len(t) -> Int]
    BY <1>1, <1>2, <2>1
  <2>3. w[0] = 0
    BY <1>1, <2>1
  <2>4. w[Len(t)] = base * m + r
    BY <1>1
  <2>5. ASSUME NEW k \in 1..Len(t) PROVE w[k] = base * w[k - 1] + t[k]
    <3>1. CASE k = Len(t)
      <4>1. w[k - 1] = m /\ t[k] = r /\ w[k] = base * m + r
        BY <1>1, <1>3, <3>1
      <4>2. QED
        BY <4>1
    <3>2. CASE k # Len(t)
      <4>1. k \in 1..Len(s) /\ k \in 0..Len(t) /\ k - 1 \in 0..Len(t) /\ k - 1 # Len(t)
        BY <1>1, <3>2
      <4>2. w[k - 1] = v[k - 1] /\ t[k] = s[k] /\ w[k] = v[k]
        BY <1>1, <3>2, <4>1
      <4>3. QED
        BY <2>1, <4>1, <4>2
    <3>3. QED
      BY <3>1, <3>2
  <2> HIDE DEF w
  <2>6. QED
    BY <2>2, <2>3, <2>4, <2>5 DEF ValuesOf
<1>5. t[1] # 0
  <2>1. s[1] # 0
    BY DEF DigitsOf
  <2>2. 1 \in 1..Len(s)
    BY <1>1
  <2>3. t[1] = s[1]
    BY <1>1, <2>2
  <2>4. QED
    BY <2>1, <2>3
<1>6. ASSUME NEW k \in Nat \ {0}, base * m + r < 2^(3 * k)
      PROVE  Len(t) <= k
  <2>1. CASE k = 1
    <3>1. 2^(3 * 1) = 8
      OBVIOUS
    <3>2. base * m + r < 8
      BY <1>6, <2>1, <3>1
    <3>3. QED
      BY <1>2, <3>2
  <2>2. CASE k # 1
    <3>1. PICK j \in Nat \ {0} : k = j + 1
      <4>1. k - 1 \in Nat \ {0} /\ k = (k - 1) + 1
        BY <2>2
      <4>2. QED
        BY <4>1
    <3> DEFINE p == 2^(3 * j)  q == 2^(3 * (j + 1))
    <3>2. p \in Nat /\ q = 8 * p
      BY ThreeBits
    <3>3. base * m + r < q
      BY <1>6, <3>1
    <3> HIDE DEF p, q
    <3>4. m < p
      BY <1>2, <3>2, <3>3
    <3>5. Len(s) <= j
      BY <3>4 DEF DigitsOf, p
    <3>6. QED
      BY <1>1, <3>1, <3>5
  <2>3. QED
    BY <2>1, <2>2
<1>7. t # <<>>
  BY <1>1
<1>8. DigitsOf(base * m + r, t, base)
  <2> HIDE DEF w
  <2>1. QED
    BY <1>1, <1>4, <1>5, <1>6, <1>7 DEF DigitsOf
<1>9. QED
  BY <1>8 DEF t

\* convert() and convertHex() find the digits of every integer.
LEMMA DigitsAreFound ==
  ASSUME NEW base \in {10, 16}
  PROVE  \A n \in Int : DigitsOf(Magnitude(n), Digits(n, base), base)
<1> DEFINE G == {m \in Nat : \A n \in Int :
                   Magnitude(n) = m => DigitsOf(m, Digits(n, base), base)}
<1>1. ASSUME NEW m \in Nat, \A j \in 0..(m - 1) : j \in G PROVE m \in G
  <2> SUFFICES ASSUME NEW n \in Int, Magnitude(n) = m
               PROVE  DigitsOf(m, Digits(n, base), base)
    OBVIOUS
  <2> DEFINE q == Quotient(n, base)
             r == Magnitude(Remainder(n, base))
  <2>1. /\ q \in Int /\ Magnitude(q) \in Nat /\ r \in 0..(base - 1)
        /\ m = base * Magnitude(q) + r
        /\ q # 0 => Magnitude(q) \in Nat \ {0}
    BY OneDigit
  <2>2. Digits(n, base) = IF q = 0 THEN <<r>> ELSE Digits(q, base) \o <<r>>
    BY DigitsFollow
  <2> HIDE DEF q, r
  <2>3. CASE q = 0
    <3>1. m = r
      <4>1. Magnitude(q) = 0
        BY <2>3 DEF Magnitude
      <4>2. CASE base = 10
        BY <2>1, <4>1, <4>2
      <4>3. CASE base = 16
        BY <2>1, <4>1, <4>3
      <4>4. QED
        BY <4>2, <4>3
    <3> DEFINE s == <<r>>
               v == [k \in 0..1 |-> IF k = 0 THEN 0 ELSE r]
    <3>2. s \in Seq(0..(base - 1)) /\ s # <<>> /\ Len(s) = 1 /\ s[1] = r
      BY <2>1
    <3>3. r \in Int /\ base * 0 = 0
      BY <2>1
    <3>4. ValuesOf(v, s, base) /\ v[Len(s)] = m
      BY <3>1, <3>2, <3>3 DEF ValuesOf
    <3> HIDE DEF s, v
    <3>5. DigitsOf(m, s, base)
      BY <3>1, <3>2, <3>4 DEF DigitsOf
    <3>6. QED
      BY <2>2, <2>3, <3>5 DEF s
  <2>4. CASE q # 0
    <3>1. Magnitude(q) \in Nat \ {0} /\ Magnitude(q) < m
      <4>1. CASE base = 10
        BY <2>1, <2>4, <4>1
      <4>2. CASE base = 16
        BY <2>1, <2>4, <4>2
      <4>3. QED
        BY <4>1, <4>2
    <3>2. Magnitude(q) \in 0..(m - 1)
      BY <3>1
    <3>3. DigitsOf(Magnitude(q), Digits(q, base), base)
      BY <1>1, <2>1, <3>2
    <3>4. DigitsOf(base * Magnitude(q) + r, Digits(q, base) \o <<r>>, base)
      BY <2>1, <3>1, <3>3, OneDigitMore
    <3>5. QED
      BY <2>1, <2>2, <2>4, <3>4
  <2>5. QED
    BY <2>3, <2>4
<1>2. Nat \subseteq G
  <2> HIDE DEF G
  <2>1. QED
    BY <1>1, Induction
<1>3. \A n \in Int : Magnitude(n) \in Nat
  BY DEF Magnitude
<1>4. QED
  BY <1>2, <1>3

\* The digits of m have the value m, read in the usual way.
LEMMA ValueIsFound ==
  ASSUME NEW base \in {10, 16}, NEW m \in Nat, NEW s, DigitsOf(m, s, base)
  PROVE  ValueOf(s, base) = m
<1>1. PICK v : ValuesOf(v, s, base) /\ v[Len(s)] = m
  BY DEF DigitsOf
<1>2. Len(s) \in Nat
  BY DEF DigitsOf
<1> DEFINE value[n \in 0..Len(s)] == IF n = 0 THEN 0 ELSE base * value[n - 1] + s[n]
           OneTurn(g, n) == IF n = 0 THEN 0 ELSE base * g[n - 1] + s[n]
<1>3. v = [n \in 0..Len(s) |-> OneTurn(v, n)]
  BY <1>1, <1>2 DEF ValuesOf
<1>4. value = [n \in 0..Len(s) |-> OneTurn(value, n)]
  BY <1>3, Zenon
<1>5. ValueOf(s, base) = value[Len(s)]
  BY DEF ValueOf
<1> HIDE DEF value
<1> DEFINE G == {n \in Nat : n <= Len(s) => value[n] = v[n]}
<1>6. ASSUME NEW n \in Nat, \A j \in 0..(n - 1) : j \in G PROVE n \in G
  <2> SUFFICES ASSUME n <= Len(s) PROVE value[n] = v[n]
    OBVIOUS
  <2>1. value[n] = OneTurn(value, n) /\ v[n] = OneTurn(v, n)
    BY <1>2, <1>3, <1>4
  <2>2. CASE n = 0
    BY <2>1, <2>2
  <2>3. CASE n # 0
    <3>1. value[n - 1] = v[n - 1]
      BY <1>2, <1>6, <2>3
    <3>2. QED
      BY <2>1, <2>3, <3>1
  <2>4. QED
    BY <2>2, <2>3
<1>7. Nat \subseteq G
  <2> HIDE DEF G
  <2>1. QED
    BY <1>6, Induction
<1>8. QED
  BY <1>1, <1>2, <1>5, <1>7

\* text is that of an integer, which is not longer than its digits and a sign.
TextOf(text, value, base) ==
  /\ text # <<>> /\ Len(text) \in Nat
  /\ ReadBack(text, base) = value
  /\ Len(text) > 1 => text[1] # 0
  /\ \A k \in Nat \ {0} : Magnitude(value) < 2^(3 * k) =>
       Len(text) <= k + (IF value < 0 THEN 1 ELSE 0)

\* convert() and convertHex() write what reads back.
LEMMA TextReadsBack ==
  ASSUME NEW value \in Int
  PROVE  /\ TextOf(convert(value), value, 10)
         /\ value >= 0 => TextOf(convertHex(value), value, 16)
<1> DEFINE m == Magnitude(value)
<1>1. m \in Nat /\ m = IF value < 0 THEN -value ELSE value
  BY DEF Magnitude
<1>2. ASSUME NEW base \in {10, 16}, NEW s, s = Digits(value, base)
      PROVE  /\ DigitsOf(m, s, base) /\ ValueOf(s, base) = m
             /\ s \in Seq(0..(base - 1)) /\ Len(s) \in Nat \ {0} /\ s[1] \in Nat
             /\ s # <<>> /\ (Len(s) > 1 => s[1] # 0)
  <2>1. DigitsOf(m, s, base)
    BY <1>2, DigitsAreFound
  <2>2. ValueOf(s, base) = m
    BY <1>1, <2>1, ValueIsFound
  <2>3. s \in Seq(0..(base - 1)) /\ s # <<>>
    BY <2>1 DEF DigitsOf
  <2>4. Len(s) \in Nat \ {0} /\ s[1] \in 0..(base - 1)
    BY <2>3
  <2>5. Len(s) > 1 => s[1] # 0
    <3>1. s[1] = 0 => Len(s) = 1
      BY <2>1, Zenon DEF DigitsOf
    <3>2. Len(s) = 1 => ~(Len(s) > 1)
      OBVIOUS
    <3>3. QED
      BY <3>1, <3>2, Zenon
  <2>6. QED
    BY <2>1, <2>2, <2>3, <2>4, <2>5
<1>3. ASSUME NEW base \in {10, 16}, value >= 0
      PROVE  TextOf(Digits(value, base), value, base)
  <2> DEFINE s == Digits(value, base)
  <2>1. m = value
    BY <1>1, <1>3
  <2> HIDE DEF s, m
  <2>2. /\ DigitsOf(m, s, base) /\ ValueOf(s, base) = m
        /\ Len(s) \in Nat \ {0} /\ s[1] \in Nat
        /\ s # <<>> /\ (Len(s) > 1 => s[1] # 0)
    BY <1>2 DEF s
  <2>3. ReadBack(s, base) = value
    BY <2>1, <2>2 DEF ReadBack, Minus
  <2>4. ASSUME NEW k \in Nat \ {0}, Magnitude(value) < 2^(3 * k)
        PROVE  Len(s) <= k
    BY <2>2, <2>4 DEF DigitsOf, m
  <2>5. TextOf(s, value, base)
    BY <1>3, <2>1, <2>2, <2>3, <2>4 DEF TextOf
  <2>6. QED
    BY <2>5 DEF s
<1>4. CASE value >= 0
  <2>1. convert(value) = Digits(value, 10)
    <3>1. Digits(value, 10) \in Seq(0..(10 - 1))
      BY <1>2
    <3>2. (IF value < 0 THEN <<Minus>> ELSE <<>>) = <<>>
      BY <1>4
    <3>3. convert(value) = <<>> \o Digits(value, 10)
      BY <3>2, Zenon DEF convert
    <3>4. QED
      BY <3>1, <3>3
  <2>2. QED
    BY <1>3, <1>4, <2>1 DEF convertHex
<1>5. CASE value < 0
  <2> DEFINE s == Digits(value, 10)
             t == <<Minus>> \o s
  <2>1. /\ DigitsOf(m, s, 10) /\ ValueOf(s, 10) = m /\ m = -value
        /\ Len(s) \in Nat \ {0} /\ s \in Seq(0..(10 - 1))
    BY <1>1, <1>2, <1>5
  <2>2. convert(value) = t
    BY <1>5 DEF convert
  <2> HIDE DEF s, m
  <2>3. t \in Seq(Int) /\ Len(t) = Len(s) + 1 /\ t[1] = Minus /\ Tail(t) = s
    BY <2>1 DEF Minus
  <2> HIDE DEF t
  <2>4. ReadBack(t, 10) = value
    <3>1. ReadBack(t, 10) = -ValueOf(s, 10)
      BY <2>3, Zenon DEF ReadBack
    <3>2. QED
      BY <2>1, <3>1
  <2>5. t # <<>> /\ (Len(t) > 1 => t[1] # 0)
    BY <2>1, <2>3 DEF Minus
  <2>6. ASSUME NEW k \in Nat \ {0}, Magnitude(value) < 2^(3 * k)
        PROVE  Len(t) <= k + 1
    <3>1. Len(s) <= k
      BY <2>1, <2>6 DEF DigitsOf, m
    <3>2. QED
      BY <2>1, <2>3, <3>1
  <2>7. TextOf(t, value, 10)
    BY <1>5, <2>1, <2>3, <2>4, <2>5, <2>6 DEF TextOf
  <2>8. QED
    BY <1>5, <2>2, <2>7
<1>6. QED
  BY <1>4, <1>5

\* An integer has fewer than three bits for every place that is kept free.
LEMMA IntegersFit ==
  ASSUME NEW value \in MinValue..MaxValue
  PROVE  /\ value \in Int /\ kMaxNumericSize - 3 \in Nat \ {0}
         /\ Magnitude(value) < 2^(3 * (kMaxNumericSize - 3))
<1> DEFINE k == kMaxNumericSize - 3
<1>1. PICK j \in Nat : j + 1 = Width
  <2>1. Width - 1 \in Nat /\ (Width - 1) + 1 = Width
    BY LogStreamAssumption
  <2>2. QED
    BY <2>1
<1>2. PICK i \in Nat : 3 * k = Width + i
  <2>1. 3 * k - Width \in Nat /\ 3 * k = Width + (3 * k - Width)
    BY LogStreamAssumption
  <2>2. QED
    BY <2>1
<1>3. k \in Nat \ {0}
  BY LogStreamAssumption
<1> HIDE DEF k
<1> DEFINE half == 2^j  all == 2^Width  room == 2^(3 * k)
<1>4. half \in Nat \ {0} /\ all = 2 * half
  BY <1>1, PowerOfTwo
<1>5. all <= room
  <2>1. 2^Width <= 2^(Width + i)
    BY LogStreamAssumption, PowersGrow
  <2>2. QED
    BY <1>2, <2>1, Zenon
<1>6. MinValue = -half /\ MaxValue = all - 1
  <2>1. Width - 1 = j
    BY <1>1
  <2>2. QED
    BY <2>1, Zenon DEF MinValue, MaxValue
<1>7. room \in Nat
  <2>1. 3 * k \in Nat
    BY <1>3
  <2>2. QED
    BY <2>1, PowerOfTwo
<1> HIDE DEF half, all, room
<1>8. value \in Int /\ -half <= value /\ value <= all - 1
  BY <1>4, <1>6
<1>9. Magnitude(value) < room
  BY <1>4, <1>5, <1>7, <1>8 DEF Magnitude
<1>10. QED
  BY <1>3, <1>8, <1>9 DEF k, room

\* A pointer is an unsigned integer.
LEMMA PointersAreIntegers ==
  ASSUME NEW value \in 0..MaxValue
  PROVE  value \in MinValue..MaxValue /\ value >= 0
<1> DEFINE half == 2^(Width - 1)  all == 2^Width
<1>1. half \in Nat /\ all \in Nat
  BY PowerOfTwo, LogStreamAssumption
<1>2. MinValue = -half /\ MaxValue = all - 1
  BY DEF MinValue, MaxValue
<1> HIDE DEF half, all
<1>3. QED
  BY <1>1, <1>2

\* Division with a rest.
LEMMA DividedBy ==
  ASSUME NEW number \in Nat, NEW step \in {10, 100, 1000, 1024}
  PROVE  /\ number \div step \in Nat /\ number % step \in 0..(step - 1)
         /\ number = step * (number \div step) + (number % step)
<1>1. CASE step = 10
  BY <1>1
<1>2. CASE step = 100
  BY <1>2
<1>3. CASE step = 1000
  BY <1>3
<1>4. CASE step = 1024
  BY <1>4
<1>5. QED
  BY <1>1, <1>2, <1>3, <1>4

\* How long the text of a natural number is.
LEMMA LengthsOfTexts ==
  ASSUME NEW n \in Nat
  PROVE  /\ Len(Digits(n, 10)) \in Nat
         /\ n < 10 => Len(Digits(n, 10)) <= 1
         /\ n < 100 => Len(Digits(n, 10)) <= 2
         /\ n < 1000 => Len(Digits(n, 10)) <= 3
         /\ n < 10000 => Len(Digits(n, 10)) <= 4
<1> DEFINE L(k) == Len(Digits(k, 10))
<1>1. ASSUME NEW k \in Nat
      PROVE  /\ k \div 10 \in Nat /\ 10 * (k \div 10) <= k
             /\ L(k) \in Nat
             /\ L(k) = IF k < 10 THEN 1 ELSE L(k \div 10) + 1
  <2> DEFINE q == k \div 10
  <2>1. q \in Nat /\ 10 * q <= k /\ (q = 0 <=> k < 10)
    OBVIOUS
  <2>2. Quotient(k, 10) = q
    BY DEF Quotient
  <2>3. /\ Digits(k, 10) \in Seq(0..(10 - 1)) /\ Digits(q, 10) \in Seq(0..(10 - 1))
        /\ Digits(k, 10) = IF q = 0 THEN <<Magnitude(Remainder(k, 10))>>
                           ELSE Digits(q, 10) \o <<Magnitude(Remainder(k, 10))>>
    <3>1. \A i \in Int :
            /\ Digits(i, 10) \in Seq(0..(10 - 1))
            /\ Digits(i, 10) =
                 IF Quotient(i, 10) = 0 THEN <<Magnitude(Remainder(i, 10))>>
                 ELSE Digits(Quotient(i, 10), 10) \o <<Magnitude(Remainder(i, 10))>>
      <4>1. 10 \in {10, 16}
        OBVIOUS
      <4>2. QED
        BY <4>1, DigitsFollow, Zenon
    <3>2. k \in Int /\ q \in Int
      BY <2>1
    <3> HIDE DEF q
    <3>3. QED
      BY <2>2, <3>1, <3>2, Zenon
  <2> HIDE DEF q
  <2>4. L(k) \in Nat /\ L(k) = IF q = 0 THEN 1 ELSE L(q) + 1
    BY <2>3
  <2>5. QED
    BY <2>1, <2>4 DEF q
<1> HIDE DEF L
<1>2. \A k \in Nat : k < 10 => L(k) = 1
  BY <1>1
<1>3. \A k \in Nat : k < 100 => L(k) <= 2
  <2> TAKE k \in Nat
  <2> HAVE k < 100
  <2>1. k \div 10 \in Nat /\ 10 * (k \div 10) <= k
    BY <1>1
  <2>2. k \div 10 < 10
    BY <2>1
  <2>3. QED
    BY <1>1, <1>2, <2>1, <2>2
<1>4. \A k \in Nat : k < 1000 => L(k) <= 3
  <2> TAKE k \in Nat
  <2> HAVE k < 1000
  <2>1. k \div 10 \in Nat /\ 10 * (k \div 10) <= k
    BY <1>1
  <2>2. k \div 10 < 100 /\ L(k \div 10) \in Nat
    BY <1>1, <2>1
  <2>3. QED
    BY <1>1, <1>3, <2>1, <2>2
<1>5. \A k \in Nat : k < 10000 => L(k) <= 4
  <2> TAKE k \in Nat
  <2> HAVE k < 10000
  <2>1. k \div 10 \in Nat /\ 10 * (k \div 10) <= k
    BY <1>1
  <2>2. k \div 10 < 1000 /\ L(k \div 10) \in Nat
    BY <1>1, <2>1
  <2>3. QED
    BY <1>1, <1>4, <2>1, <2>2
<1>6. /\ L(n) \in Nat
      /\ n < 10 => L(n) <= 1
      /\ n < 100 => L(n) <= 2
      /\ n < 1000 => L(n) <= 3
      /\ n < 10000 => L(n) <= 4
  <2>1. L(n) \in Nat /\ (n < 10 => L(n) = 1)
    BY <1>1, <1>2
  <2>2. QED
    BY <1>3, <1>4, <1>5, <2>1
<1>7. QED
  BY <1>6 DEF L

\* How long the text of a number with decimals is.
LEMMA LengthsOfQuantities ==
  ASSUME NEW number \in Nat, NEW places \in {1, 10, 100}
  PROVE  /\ Characters(number, places) \in Nat
         /\ number < (IF places = 1 THEN 10000 ELSE 1000) =>
              Characters(number, places) <= 4
<1> DEFINE whole == number \div places
           L(k) == Len(Digits(k, 10))
<1>1. /\ whole \in Nat
      /\ places = 1 => whole = number
      /\ places # 1 /\ number < 1000 => whole < IF places = 10 THEN 100 ELSE 10
  <2>1. CASE places = 1
    BY <2>1
  <2>2. CASE places = 10
    BY <2>2
  <2>3. CASE places = 100
    BY <2>3
  <2>4. QED
    BY <2>1, <2>2, <2>3
<1>2. Characters(number, places) = L(whole) + (IF places = 1 THEN 0 ELSE L(places))
  BY DEF Characters
<1> HIDE DEF whole
<1>3. L(whole) \in Nat /\ (whole < 10 => L(whole) <= 1)
      /\ (whole < 100 => L(whole) <= 2) /\ (whole < 10000 => L(whole) <= 4)
  <2>1. \A n \in Nat : /\ L(n) \in Nat
                       /\ n < 10 => L(n) <= 1
                       /\ n < 100 => L(n) <= 2
                       /\ n < 10000 => L(n) <= 4
    BY LengthsOfTexts
  <2> HIDE DEF L
  <2>2. QED
    BY <1>1, <2>1
<1>4. /\ L(10) \in Nat /\ L(10) <= 2
      /\ L(100) \in Nat /\ L(100) <= 3
  <2>1. \A n \in Nat : /\ L(n) \in Nat
                       /\ n < 100 => L(n) <= 2
                       /\ n < 1000 => L(n) <= 3
    BY LengthsOfTexts
  <2> HIDE DEF L
  <2>2. 10 \in Nat /\ 10 < 100 /\ 100 \in Nat /\ 100 < 1000
    OBVIOUS
  <2>3. QED
    BY <2>1, <2>2
<1> HIDE DEF L
<1>5. CASE places = 1
  BY <1>1, <1>2, <1>3, <1>5
<1>6. CASE places = 10
  BY <1>1, <1>2, <1>3, <1>4, <1>6
<1>7. CASE places = 100
  BY <1>1, <1>2, <1>3, <1>4, <1>7
<1>8. QED
  BY <1>5, <1>6, <1>7

\* What formatSI() and formatIEC() can be given, in units: less than one of the
\* next size is when it is rounded, and no int64_t is above 9.223 E.
AnyQuantity(base) ==
  {x \in [unit : 1..6, count : Nat, below : BOOLEAN] :
     IF x.unit = 6 THEN x.count <= 9223
     ELSE Below(x, base * base - (base \div 2))}

\* The stream is given some of them.
LEMMA QuantitiesAreSome ==
  ASSUME NEW base \in {1000, 1024}, NEW x \in Quantities(base)
  PROVE  x \in AnyQuantity(base)
<1> DEFINE bounds == {base + 5, (9995 * base) \div 1000, (9995 * base) \div 100,
                      base * base - (base \div 2)}
           counts == UNION {(bound - 5)..(bound + 5) : bound \in bounds}
           R == [unit : 1..6, count : counts, below : BOOLEAN]
           most == base * base - (base \div 2)
           Small(y) == IF y.unit = 6 THEN y.count < 9 * base ELSE Below(y, most)
<1>1. \A bound \in bounds : bound \in Nat /\ bound >= 5
  <2>1. CASE base = 1000
    BY <2>1
  <2>2. CASE base = 1024
    BY <2>2
  <2>3. QED
    BY <2>1, <2>2
<1>2. Quantities(base) = {y \in R : Small(y)}
  BY DEF Quantities
<1> HIDE DEF bounds, most
<1>3. \A c \in counts : c \in Nat
  BY <1>1
<1> HIDE DEF counts
<1>4. x \in R /\ Small(x)
  <2> HIDE DEF R, Small
  <2>1. QED
    BY <1>2
<1>5. x.count \in Nat /\ x.below \in BOOLEAN
  <2>1. x.count \in counts /\ x.below \in BOOLEAN
    <3> HIDE DEF Small
    <3>1. QED
      BY <1>4
  <2>2. x.count \in Nat
    <3> HIDE DEF counts
    <3>1. QED
      BY <1>3, <2>1
  <2>3. QED
    BY <2>1, <2>2
<1>6. /\ x.unit = 6 => x.count < 9 * base
      /\ x.unit # 6 => Below(x, most)
  BY <1>4
<1>7. x.unit \in 1..6 /\ x = [unit |-> x.unit, count |-> x.count, below |-> x.below]
  <2> HIDE DEF Small
  <2>1. QED
    BY <1>4
<1>8. x \in [unit : 1..6, count : Nat, below : BOOLEAN]
  BY <1>5, <1>7
<1>9. 9 * base \in Nat /\ 9 * base < 9223
  OBVIOUS
<1>10. IF x.unit = 6 THEN x.count <= 9223 ELSE Below(x, most)
  BY <1>5, <1>6, <1>9
<1>11. QED
  BY <1>8, <1>10 DEF AnyQuantity, most

\* formatIEC() never writes more than six characters, its two-letter unit
\* included, as LogStream.h:231 says: the bounds allow for what is rounded up.
THEOREM IECIsShort ==
  ASSUME NEW x \in AnyQuantity(1024)
  PROVE  Characters(formatIEC(x)[1], formatIEC(x)[2]) \in 0..4
<1> DEFINE places == IF Below(x, 10234) THEN 100
                     ELSE IF x.unit = 6 \/ Below(x, 102348) THEN 10 ELSE 1
           number == x.count * places
           r == Rounded(number, 1024, x.below, FALSE, TRUE)
<1>1. /\ x.count \in Nat
      /\ x.unit = 6 => x.count <= 9223
      /\ x.unit # 6 => Below(x, 1048064)
  <2>1. 1024 * 1024 - (1024 \div 2) = 1048064
    OBVIOUS
  <2>2. QED
    BY <2>1 DEF AnyQuantity
<1>2. formatIEC(x) = <<r, places>>
  BY DEF formatIEC
<1>3. \/ places = 100 /\ Below(x, 10234)
      \/ places = 10 /\ Below(x, 102348)
      \/ places = 1 /\ Below(x, 1048064)
  BY <1>1 DEF Below
<1> HIDE DEF places
<1>4. /\ r \in Nat /\ 2 * 1024 * r <= 2 * (x.count * places) + 1024
      /\ (x.below => 2 * 1024 * r < 2 * (x.count * places) + 1024)
  <2>1. number \in Nat
    BY <1>1, <1>3
  <2> HIDE DEF number
  <2> DEFINE down == number \div 1024  rest == number % 1024
  <2>2. down \in Nat /\ rest \in 0..1023 /\ number = 1024 * down + rest
    BY <2>1, DividedBy
  <2>3. \/ r = down
        \/ r = down + 1 /\ 2 * rest >= 1024 /\ ~(2 * rest = 1024 /\ x.below)
    BY <2>2 DEF Rounded
  <2> HIDE DEF down, rest, r
  <2>4. /\ r \in Nat /\ 2 * 1024 * r <= 2 * number + 1024
        /\ (x.below => 2 * 1024 * r < 2 * number + 1024)
    <3>1. CASE r = down
      BY <2>2, <3>1
    <3>2. CASE r = down + 1 /\ 2 * rest >= 1024 /\ ~(2 * rest = 1024 /\ x.below)
      BY <2>2, <3>2
    <3>3. QED
      BY <2>3, <3>1, <3>2
  <2>5. QED
    BY <2>4 DEF number
<1> HIDE DEF r
<1>5. r < (IF places = 1 THEN 10000 ELSE 1000)
  <2>1. CASE places = 100 /\ Below(x, 10234)
    BY <1>1, <1>4, <2>1 DEF Below
  <2>2. CASE places = 10 /\ Below(x, 102348)
    BY <1>1, <1>4, <2>2 DEF Below
  <2>3. CASE places = 1 /\ Below(x, 1048064)
    BY <1>1, <1>4, <2>3 DEF Below
  <2>4. QED
    BY <1>3, <2>1, <2>2, <2>3
<1>6. Characters(r, places) \in Nat /\ Characters(r, places) <= 4
  BY <1>3, <1>4, <1>5, LengthsOfQuantities
<1>7. QED
  BY <1>2, <1>6

\* Where doubles tell a quantity from the next one, and in particular below
\* 9.008 P, formatSI() never writes more than five characters, its unit included,
\* as LogStream.h:226 says; and it writes some number of them in any case.
THEOREM SIIsShortWhenExact ==
  ASSUME NEW x \in AnyQuantity(1000)
  PROVE  /\ Characters(formatSI(x)[1], formatSI(x)[2]) \in Nat
         /\ x.unit = 6 \/ ~Merges(x) => 
              Characters(formatSI(x)[1], formatSI(x)[2]) \in 0..4
<1> DEFINE places == IF x.unit = 6 \/ Below(x, 9995) THEN 100
                     ELSE IF Below(x, 99950) THEN 10 ELSE 1
           step == 1000 \div places
           number == x.count
           below == x.below /\ ~Merges(x)
           r == Rounded(number, step, below, DoubleIsAbove(number), number % 125 = 0)
<1>1. /\ x.count \in Nat /\ x.unit \in 1..6
      /\ x.unit = 6 => x.count <= 9223
      /\ x.unit # 6 => Below(x, 999500)
  <2>1. 1000 * 1000 - (1000 \div 2) = 999500
    OBVIOUS
  <2>2. QED
    BY <2>1 DEF AnyQuantity
<1>2. formatSI(x) = <<r, places>>
  BY DEF formatSI
<1>3. \/ places = 100 /\ step = 10 /\ (x.unit = 6 \/ Below(x, 9995))
      \/ places = 10 /\ step = 100 /\ Below(x, 99950)
      \/ places = 1 /\ step = 1000 /\ Below(x, 999500)
  <2>1. 1000 \div 1 = 1000 /\ 1000 \div 10 = 100 /\ 1000 \div 100 = 10
    OBVIOUS
  <2>2. QED
    BY <1>1, <2>1 DEF Below
<1> HIDE DEF places, step
<1>4. /\ r \in Nat /\ 2 * (step * r) <= 2 * number + step
      /\ (below => 2 * (step * r) < 2 * number + step)
  <2>1. number \in Nat /\ step \in {10, 100, 1000}
    BY <1>1, <1>3
  <2> HIDE DEF number
  <2> DEFINE down == number \div step  rest == number % step
  <2>2. down \in Nat /\ rest \in 0..(step - 1) /\ number = step * down + rest
    BY <2>1, DividedBy
  <2>3. \/ r = down
        \/ r = down + 1 /\ 2 * rest >= step /\ ~(2 * rest = step /\ below)
    <3> HIDE DEF below
    <3>1. QED
      BY <2>1, <2>2 DEF Rounded
  <2> HIDE DEF down, rest, r, below
  <2>4. CASE r = down
    BY <2>1, <2>2, <2>4
  <2>5. CASE r = down + 1 /\ 2 * rest >= step /\ ~(2 * rest = step /\ below)
    <3>1. step * r = step * down + step
      BY <2>1, <2>2, <2>5
    <3>2. QED
      BY <2>1, <2>2, <2>5, <3>1
  <2>6. QED
    BY <2>3, <2>4, <2>5
<1> HIDE DEF r
<1>5. Characters(r, places) \in Nat
  BY <1>3, <1>4, LengthsOfQuantities
<1>6. ASSUME x.unit = 6 \/ ~Merges(x)
      PROVE  r < (IF places = 1 THEN 10000 ELSE 1000)
  <2>1. CASE places = 100 /\ step = 10 /\ x.unit = 6
    BY <1>1, <1>4, <2>1
  <2>2. CASE places = 100 /\ step = 10 /\ x.unit # 6 /\ Below(x, 9995)
    BY <1>1, <1>4, <1>6, <2>2 DEF Below
  <2>3. CASE places = 10 /\ step = 100 /\ Below(x, 99950)
    <3>1. x.unit # 6 \/ x.count <= 9223
      BY <1>1
    <3>2. QED
      BY <1>1, <1>4, <1>6, <2>3, <3>1 DEF Below
  <2>4. CASE places = 1 /\ step = 1000 /\ Below(x, 999500)
    BY <1>1, <1>4, <2>4 DEF Below
  <2>5. QED
    BY <1>3, <2>1, <2>2, <2>3, <2>4
<1>7. ASSUME x.unit = 6 \/ ~Merges(x) PROVE Characters(r, places) <= 4
  BY <1>3, <1>4, <1>6, <1>7, LengthsOfQuantities
<1>8. QED
  BY <1>2, <1>5, <1>7

\* So the text of formatSI() has some length, that of formatIEC() at most six.
LEMMA QuantitiesFit ==
  /\ \A x \in Quantities(1000) : Characters(formatSI(x)[1], formatSI(x)[2]) \in Nat
  /\ \A x \in Quantities(1024) :
       Characters(formatIEC(x)[1], formatIEC(x)[2]) \in 0..4
BY QuantitiesAreSome, SIIsShortWhenExact, IECIsShort

\* The length of the buffer is one, too.
StreamInv == length \in Nat /\ NumbersReadBack

\* What has been printed, if it is right.
PrintedFine ==
  /\ printed.base \in {10, 16} =>
       /\ printed.text # <<>>
       /\ ReadBack(printed.text, printed.base) = printed.value
       /\ Len(printed.text) > 1 => printed.text[1] # 0
  /\ printed.base = 1024 => printed.characters <= 6

\* The first state.
LEMMA StreamStarts == StreamInit => StreamInv
<1> SUFFICES ASSUME StreamInit PROVE StreamInv
  OBVIOUS
<1>1. length = 0 /\ printed = [value |-> 0, base |-> 10, text |-> <<0>>]
  BY DEF StreamInit
<1> DEFINE v == [k \in 0..1 |-> 0]
<1>2. DigitsOf(0, <<0>>, 10)
  <2>1. <<0>> \in Seq(0..(10 - 1)) /\ <<0>> # <<>> /\ Len(<<0>>) = 1
    OBVIOUS
  <2>2. ValuesOf(v, <<0>>, 10) /\ v[Len(<<0>>)] = 0
    BY DEF ValuesOf
  <2> HIDE DEF v
  <2>3. QED
    BY <2>1, <2>2 DEF DigitsOf
<1>3. ValueOf(<<0>>, 10) = 0
  BY <1>2, ValueIsFound
<1>4. ReadBack(<<0>>, 10) = 0
  BY <1>3 DEF ReadBack, Minus
<1>5. QED
  BY <1>1, <1>4, LogStreamAssumption DEF StreamInv, NumbersReadBack

\* A step of the stream.
LEMMA StreamSteps == StreamInv /\ [StreamNext]_streamVars => StreamInv'
<1> SUFFICES ASSUME StreamInv, [StreamNext]_streamVars PROVE StreamInv'
  OBVIOUS
<1>1. length \in Nat /\ length < SIZE /\ PrintedFine /\ SIZE \in Nat
      /\ kMaxNumericSize \in Nat
  BY LogStreamAssumption DEF StreamInv, NumbersReadBack, PrintedFine
<1>2. ASSUME length' \in Nat, length' < SIZE, PrintedFine' PROVE StreamInv'
  BY <1>2 DEF StreamInv, NumbersReadBack, PrintedFine
<1>3. ASSUME UNCHANGED printed PROVE PrintedFine'
  BY <1>1, <1>3 DEF PrintedFine
<1>4. ASSUME NEW len \in Nat,
             length' = IF avail > len THEN length + len ELSE length
      PROVE  length' \in Nat /\ length' < SIZE
  BY <1>1, <1>4 DEF avail
<1>5. ASSUME NEW len \in Nat, len < kMaxNumericSize, PutInPlace(len)
      PROVE  length' \in Nat /\ length' < SIZE
  BY <1>1, <1>5 DEF avail, PutInPlace
<1>6. ASSUME NEW text, NEW value \in MinValue..MaxValue, NEW base \in {10, 16},
             printed' = [value |-> value, base |-> base, text |-> text],
             TextOf(text, value, base)
      PROVE  /\ PrintedFine'
             /\ Len(text) \in Nat
             /\ Len(text) + (IF value < 0 THEN 0 ELSE 1) < kMaxNumericSize - 1
  <2>1. PrintedFine'
    BY <1>6 DEF PrintedFine, TextOf
  <2>2. /\ value \in Int /\ kMaxNumericSize - 3 \in Nat \ {0}
        /\ Magnitude(value) < 2^(3 * (kMaxNumericSize - 3))
    BY IntegersFit
  <2>3. Len(text) <= kMaxNumericSize - 3 + (IF value < 0 THEN 1 ELSE 0)
    BY <1>6, <2>2 DEF TextOf
  <2>4. Len(text) \in Nat
    BY <1>6 DEF TextOf
  <2>5. QED
    BY <1>1, <2>1, <2>2, <2>3, <2>4
<1>7. CASE \E len \in 0..SIZE : appendText(len)
  BY <1>1, <1>2, <1>3, <1>4, <1>7 DEF appendText
<1>8. CASE \E value \in MinValue..MaxValue : PutInteger(value)
  <2>1. PICK value \in MinValue..MaxValue : PutInteger(value)
    BY <1>8
  <2> DEFINE text == convert(value)
  <2>2. TextOf(text, value, 10)
    BY IntegersFit, TextReadsBack
  <2>3. /\ printed' = [value |-> value, base |-> 10, text |-> text]
        /\ PutInPlace(Len(text))
    BY <2>1 DEF PutInteger
  <2> HIDE DEF text
  <2>4. /\ PrintedFine' /\ Len(text) \in Nat
        /\ Len(text) + (IF value < 0 THEN 0 ELSE 1) < kMaxNumericSize - 1
    BY <1>6, <2>2, <2>3
  <2>5. QED
    BY <1>1, <1>2, <1>5, <2>3, <2>4
<1>9. CASE \E value \in 0..MaxValue : PutPointer(value)
  <2>1. PICK value \in 0..MaxValue : PutPointer(value)
    BY <1>9
  <2> DEFINE text == convertHex(value)
  <2>2. value \in MinValue..MaxValue /\ value >= 0 /\ value \in Int
    BY PointersAreIntegers, IntegersFit
  <2>3. TextOf(text, value, 16)
    BY <2>2, IntegersFit, TextReadsBack
  <2>4. /\ printed' = [value |-> value, base |-> 16, text |-> text]
        /\ PutInPlace(Len(text) + 2)
    BY <2>1 DEF PutPointer
  <2> HIDE DEF text
  <2>5. /\ PrintedFine' /\ Len(text) \in Nat
        /\ Len(text) + 1 < kMaxNumericSize - 1
    <3>1. 16 \in {10, 16} /\ ~(value < 0)
      BY <2>2
    <3>2. /\ PrintedFine' /\ Len(text) \in Nat
          /\ Len(text) + (IF value < 0 THEN 0 ELSE 1) < kMaxNumericSize - 1
      BY <1>6, <2>2, <2>3, <2>4, <3>1, Zenon
    <3>3. QED
      BY <3>1, <3>2
  <2>6. QED
    BY <1>1, <1>2, <1>5, <2>4, <2>5
<1>10. CASE \E len \in 1..(kMaxNumericSize - 1) : PutDouble(len)
  BY <1>1, <1>2, <1>3, <1>5, <1>10 DEF PutDouble
<1>11. CASE \E base \in {1000, 1024} : \E x \in Quantities(base) : PutQuantity(base, x)
  <2>1. PICK base \in {1000, 1024} :
          \E x \in Quantities(base) : PutQuantity(base, x)
    BY <1>11
  <2>2. PICK x \in Quantities(base) : PutQuantity(base, x)
    BY <2>1
  <2> DEFINE text == IF base = 1000 THEN formatSI(x) ELSE formatIEC(x)
             characters == Characters(text[1], text[2])
                             + (IF base = 1000 THEN 1 ELSE 2)
  <2>3. characters \in Nat /\ (base = 1024 => characters <= 6)
    <3>1. CASE base = 1000
      BY <3>1, QuantitiesFit
    <3>2. CASE base = 1024
      BY <3>2, QuantitiesFit
    <3>3. QED
      BY <3>1, <3>2
  <2>4. /\ printed' = [base |-> base, characters |-> characters]
        /\ length' = IF avail > characters THEN length + characters ELSE length
    BY <2>2 DEF PutQuantity
  <2> HIDE DEF characters
  <2>5. PrintedFine'
    BY <2>3, <2>4 DEF PrintedFine
  <2>6. QED
    BY <1>2, <1>4, <2>3, <2>4, <2>5
<1>12. CASE ResetBuffer
  BY <1>1, <1>2, <1>3, <1>12, LogStreamAssumption DEF ResetBuffer
<1>13. CASE UNCHANGED streamVars
  BY <1>1, <1>2, <1>3, <1>13 DEF streamVars
<1>14. QED
  BY <1>7, <1>8, <1>9, <1>10, <1>11, <1>12, <1>13 DEF StreamNext

\* The stream alone.
StreamSpec == StreamInit /\ [][StreamNext]_streamVars

\* For integers of any width: what operator<< writes for an integer or a pointer
\* reads back as the same number, the least one included, without leading zeros
\* and within the buffer, and formatIEC() writes at most six characters.
THEOREM NumbersDoReadBack == StreamSpec => []NumbersReadBack
<1>1. StreamInv => NumbersReadBack
  BY DEF StreamInv
<1>2. QED
  BY <1>1, StreamStarts, StreamSteps, PTL DEF StreamSpec

-----------------------------------------------------------------------------
(* SnakeGame *)

\* The game without fairness.
SnakeSpec == SnakeInit /\ [][SnakeNext]_snakeVars

Directions == {"UP", "DOWN", "LEFT", "RIGHT"}

\* Opposite and Arrows, by their values.
LEMMA Turns ==
  /\ DOMAIN Opposite = Directions /\ DOMAIN Arrows = {"w", "s", "a", "d"}
  /\ \A d \in Directions : /\ Opposite[d] \in Directions /\ Opposite[d] # d
                           /\ Opposite[Opposite[d]] = d
  /\ \A key \in DOMAIN Arrows : Arrows[key] \in Directions
BY DEF Opposite, Arrows, Directions

\* Two moves lead back only if the second is opposite to the first.
LEMMA NoWayBack ==
  ASSUME NEW q \in Int \X Int, NEW d \in Directions, NEW e \in Directions,
         e # Opposite[d]
  PROVE  Moved(Moved(q, d), e) # q
<1>1. PICK x \in Int, y \in Int : q = <<x, y>>
  OBVIOUS
<1>2. CASE d = "UP"
  BY <1>1, <1>2 DEF Moved, Directions, Opposite
<1>3. CASE d = "DOWN"
  BY <1>1, <1>3 DEF Moved, Directions, Opposite
<1>4. CASE d = "LEFT"
  BY <1>1, <1>4 DEF Moved, Directions, Opposite
<1>5. CASE d = "RIGHT"
  BY <1>1, <1>5 DEF Moved, Directions, Opposite
<1>6. QED
  BY <1>2, <1>3, <1>4, <1>5 DEF Directions

\* Every part of a snake is one move from the next.
Connected(s) ==
  \A i \in 2..Len(s) : \E dir \in DOMAIN Opposite : s[i - 1] = Moved(s[i], dir)

\* A snake that could be on the board.
IsSnake(s) ==
  s \in Seq(Board) /\ Len(s) >= 3 /\ IsInjective(s) /\ Connected(s)

\* The first one could.
LEMMA FirstIsSnake ==
  /\ IsSnake(FirstSnake) /\ Len(FirstSnake) = 3
  /\ FirstSnake[1] = Moved(FirstSnake[2], "RIGHT")
<1> DEFINE x == gameWidth \div 2
           y == gameHeight \div 2
<1>1. /\ x \in Nat /\ x >= 3 /\ x <= gameWidth - 2
      /\ y \in Nat /\ y >= 1 /\ y <= gameHeight - 2
  BY BoardAssumption
<1>2. FirstSnake = [i \in 1..3 |-> <<x + 1 - i, y>>]
  BY DEF FirstSnake
<1> HIDE DEF x, y
<1>3. /\ 1..3 = {1, 2, 3} /\ FirstSnake[1] = <<x, y>>
      /\ FirstSnake[2] = <<x - 1, y>> /\ FirstSnake[3] = <<x - 2, y>>
  BY <1>1, <1>2
<1>4. \A i \in 1..3 : FirstSnake[i] \in Board
  <2>1. /\ x \in 1..(gameWidth - 2) /\ x - 1 \in 1..(gameWidth - 2)
        /\ x - 2 \in 1..(gameWidth - 2) /\ y \in 1..(gameHeight - 2)
    BY <1>1, BoardAssumption
  <2>2. FirstSnake[1] \in Board /\ FirstSnake[2] \in Board /\ FirstSnake[3] \in Board
    BY <1>3, <2>1 DEF Board
  <2>3. QED
    BY <1>3, <2>2
<1>5. FirstSnake \in Seq(Board) /\ Len(FirstSnake) = 3 /\ DOMAIN FirstSnake = 1..3
  BY <1>2, <1>4
<1>6. IsInjective(FirstSnake)
  BY <1>1, <1>3, <1>5 DEF IsInjective
<1>7. FirstSnake[1] = Moved(FirstSnake[2], "RIGHT")
      /\ FirstSnake[2] = Moved(FirstSnake[3], "RIGHT")
  BY <1>1, <1>3 DEF Moved
<1>8. Connected(FirstSnake)
  <2> SUFFICES ASSUME NEW i \in 2..3 PROVE FirstSnake[i - 1] = Moved(FirstSnake[i], "RIGHT")
    BY <1>5, Turns DEF Connected, Directions
  <2>1. i = 2 \/ i = 3
    OBVIOUS
  <2>2. QED
    BY <1>7, <2>1
<1>9. QED
  BY <1>5, <1>6, <1>7, <1>8 DEF IsSnake

\* A head one move further makes the snake longer.
LEMMA LongerIsSnake ==
  ASSUME NEW s, IsSnake(s), NEW dir \in Directions, NEW p \in Board, p \notin ToSet(s),
         p = Moved(Head(s), dir)
  PROVE  LET longer == <<p>> \o s IN
         /\ IsSnake(longer) /\ Len(longer) = Len(s) + 1
         /\ longer[1] = p /\ longer[2] = s[1]
         /\ ToSet(longer) = ToSet(s) \cup {p}
<1> DEFINE longer == <<p>> \o s
<1>1. s \in Seq(Board) /\ Len(s) \in Nat /\ Len(s) >= 3 /\ Head(s) = s[1]
      /\ DOMAIN s = 1..Len(s)
  BY DEF IsSnake
<1>2. /\ longer \in Seq(Board) /\ Len(longer) = Len(s) + 1 /\ longer[1] = p
      /\ \A i \in 2..(Len(s) + 1) : longer[i] = s[i - 1]
      /\ DOMAIN longer = 1..(Len(s) + 1)
  <2>1. <<p>> \in Seq(Board) /\ Len(<<p>>) = 1
    OBVIOUS
  <2>2. longer \in Seq(Board) /\ Len(longer) = 1 + Len(s)
    BY <1>1, <2>1
  <2>3. longer[1] = p /\ \A i \in 2..(Len(s) + 1) : longer[i] = s[i - 1]
    BY <1>1, <2>1
  <2>4. QED
    BY <1>1, <2>2, <2>3
<1> HIDE DEF longer
<1>3. \A i \in 1..Len(s) : s[i] \in ToSet(s) /\ s[i] # p
  BY <1>1 DEF ToSet
<1>4. IsInjective(longer)
  <2> SUFFICES ASSUME NEW i \in 1..(Len(s) + 1), NEW j \in 1..(Len(s) + 1),
                      longer[i] = longer[j]
               PROVE  i = j
    BY <1>2 DEF IsInjective
  <2>1. CASE i = 1 /\ j # 1
    <3>1. longer[j] = s[j - 1] /\ j - 1 \in 1..Len(s)
      BY <1>1, <1>2, <2>1
    <3>2. QED
      BY <1>2, <1>3, <2>1, <3>1
  <2>2. CASE i # 1 /\ j = 1
    <3>1. longer[i] = s[i - 1] /\ i - 1 \in 1..Len(s)
      BY <1>1, <1>2, <2>2
    <3>2. QED
      BY <1>2, <1>3, <2>2, <3>1
  <2>3. CASE i # 1 /\ j # 1
    <3>1. /\ longer[i] = s[i - 1] /\ i - 1 \in 1..Len(s)
          /\ longer[j] = s[j - 1] /\ j - 1 \in 1..Len(s)
      BY <1>1, <1>2, <2>3
    <3>2. i - 1 = j - 1
      BY <1>1, <3>1 DEF IsSnake, IsInjective
    <3>3. QED
      BY <3>2
  <2>4. QED
    BY <2>1, <2>2, <2>3
<1>5. Connected(longer)
  <2> SUFFICES ASSUME NEW i \in 2..(Len(s) + 1)
               PROVE  \E e \in DOMAIN Opposite : longer[i - 1] = Moved(longer[i], e)
    BY <1>2 DEF Connected
  <2>1. CASE i = 2
    <3>1. longer[2] = s[1]
      BY <1>1, <1>2
    <3>2. QED
      BY <1>1, <1>2, <2>1, <3>1, Turns
  <2>2. CASE i # 2
    <3>1. i - 1 \in 2..Len(s) /\ longer[i] = s[i - 1] /\ longer[i - 1] = s[(i - 1) - 1]
      BY <1>1, <1>2, <2>2
    <3>2. QED
      BY <3>1 DEF IsSnake, Connected
  <2>3. QED
    BY <2>1, <2>2
<1>6. ToSet(longer) = ToSet(s) \cup {p}
  <2>1. ASSUME NEW x \in ToSet(longer) PROVE x \in ToSet(s) \cup {p}
    <3>1. PICK i \in 1..(Len(s) + 1) : x = longer[i]
      BY <1>2 DEF ToSet
    <3>2. CASE i = 1
      BY <1>2, <3>1, <3>2
    <3>3. CASE i # 1
      <4>1. longer[i] = s[i - 1] /\ i - 1 \in 1..Len(s)
        BY <1>1, <1>2, <3>3
      <4>2. QED
        BY <1>3, <3>1, <4>1
    <3>4. QED
      BY <3>2, <3>3
  <2>2. ASSUME NEW x \in ToSet(s) PROVE x \in ToSet(longer)
    <3>1. PICK i \in 1..Len(s) : x = s[i]
      BY <1>1 DEF ToSet
    <3>2. i + 1 \in 1..(Len(s) + 1) /\ longer[i + 1] = s[i]
      BY <1>1, <1>2
    <3>3. QED
      BY <1>2, <3>1, <3>2 DEF ToSet
  <2>3. p \in ToSet(longer)
    <3>1. 1 \in 1..(Len(s) + 1)
      BY <1>1
    <3>2. QED
      BY <1>2, <3>1 DEF ToSet
  <2>4. QED
    BY <2>1, <2>2, <2>3
<1>7. longer[2] = s[1]
  BY <1>1, <1>2
<1>8. QED
  BY <1>1, <1>2, <1>4, <1>5, <1>6, <1>7 DEF IsSnake, longer

\* Without its last part it is a snake still.
LEMMA FrontIsSnake ==
  ASSUME NEW s, IsSnake(s), Len(s) >= 4
  PROVE  /\ IsSnake(Front(s)) /\ Len(Front(s)) = Len(s) - 1
         /\ Front(s)[1] = s[1] /\ Front(s)[2] = s[2]
         /\ ToSet(Front(s)) \subseteq ToSet(s)
<1> DEFINE f == Front(s)
           n == Len(s) - 1
<1>1. s \in Seq(Board) /\ n \in Nat /\ n >= 3 /\ DOMAIN s = 1..(n + 1) /\ Len(s) = n + 1
  BY DEF IsSnake
<1>2. f \in Seq(Board) /\ Len(f) = n /\ DOMAIN f = 1..n /\ \A i \in 1..n : f[i] = s[i]
  BY <1>1 DEF Front
<1> HIDE DEF f, n
<1>3. IsInjective(f)
  BY <1>1, <1>2 DEF IsSnake, IsInjective
<1>4. Connected(f)
  <2> SUFFICES ASSUME NEW i \in 2..n
               PROVE  \E dir \in DOMAIN Opposite : f[i - 1] = Moved(f[i], dir)
    BY <1>2 DEF Connected
  <2>1. i \in 2..Len(s) /\ f[i] = s[i] /\ f[i - 1] = s[i - 1]
    BY <1>1, <1>2
  <2>2. QED
    BY <2>1 DEF IsSnake, Connected
<1>5. ToSet(f) \subseteq ToSet(s)
  BY <1>1, <1>2 DEF ToSet
<1>6. f[1] = s[1] /\ f[2] = s[2]
  BY <1>1, <1>2
<1>7. QED
  BY <1>1, <1>2, <1>3, <1>4, <1>5, <1>6 DEF IsSnake, f, n

\* Food does not lie on the snake, wherever generateFood() has stopped.
LEMMA FoodIsFree ==
  ASSUME NEW s \in Seq(Board), NEW p \in FoodPlaces(s) PROVE p \notin ToSet(s)
<1>1. ToSet(s) \subseteq Board
  BY DEF ToSet
<1>2. nowhere \notin Board
  BY BoardAssumption DEF nowhere, Board
<1>3. QED
  BY <1>1, <1>2 DEF FoodPlaces

\* The inductive invariant: while the game goes on the neck lies behind the
\* head, and the next direction does not lead back to it.
SnakeInv ==
  /\ IsSnake(snake) /\ score \in Nat /\ Len(snake) = score + 3
  /\ food \notin ToSet(snake)
  /\ direction \in Directions /\ nextDirection \in Directions
  /\ nextDirection # Opposite[direction]
  /\ ~gameOver => snake[1] = Moved(snake[2], direction)

\* The game begins, and begins again, like this.
LEMMA SnakeStarts ==
  ASSUME NEW p \in FoodPlaces(FirstSnake)
  PROVE  /\ IsSnake(FirstSnake) /\ 0 \in Nat /\ Len(FirstSnake) = 0 + 3
         /\ p \notin ToSet(FirstSnake)
         /\ "RIGHT" \in Directions /\ "RIGHT" # Opposite["RIGHT"]
         /\ FirstSnake[1] = Moved(FirstSnake[2], "RIGHT")
<1>1. "RIGHT" \in Directions
  BY DEF Directions
<1>2. FirstSnake \in Seq(Board)
  BY FirstIsSnake DEF IsSnake
<1>3. QED
  BY <1>1, <1>2, FirstIsSnake, FoodIsFree, Turns

\* A move keeps the snake and its neck.
LEMMA GameLoopKeeps ==
  ASSUME SnakeInv, gameLoop PROVE SnakeInv'
<1> DEFINE newHead == Moved(Head(snake), nextDirection)
           longer == <<newHead>> \o snake
<1>1. /\ direction' = nextDirection /\ nextDirection' = nextDirection
      /\ IsSnake(snake) /\ score \in Nat /\ Len(snake) = score + 3
      /\ nextDirection \in Directions /\ nextDirection # Opposite[nextDirection]
      /\ food \notin ToSet(snake) /\ Head(snake) = snake[1]
  BY Turns DEF gameLoop, SnakeInv, IsSnake
<1>2. CASE gameOver' = TRUE /\ UNCHANGED <<snake, food, score>>
  BY <1>1, <1>2 DEF SnakeInv
<1>3. CASE newHead \in Board \ ToSet(snake) /\ newHead = food
  <2>1. /\ snake' = longer /\ score' = score + 1 /\ food' \in FoodPlaces(longer)
    BY <1>3 DEF gameLoop
  <2>2. /\ IsSnake(longer) /\ Len(longer) = Len(snake) + 1
        /\ longer[1] = newHead /\ longer[2] = snake[1]
    BY <1>1, <1>3, LongerIsSnake
  <2>3. food' \notin ToSet(longer)
    BY <2>1, <2>2, FoodIsFree DEF IsSnake
  <2>4. snake'[1] = Moved(snake'[2], direction')
    BY <1>1, <2>1, <2>2
  <2>5. score' \in Nat /\ Len(snake') = score' + 3
    <3>1. Len(snake') = Len(snake) + 1
      BY <2>1, <2>2
    <3>2. QED
      BY <1>1, <2>1, <3>1
  <2>6. IsSnake(snake') /\ food' \notin ToSet(snake')
    BY <2>1, <2>2, <2>3
  <2>7. QED
    BY <1>1, <2>4, <2>5, <2>6 DEF SnakeInv
<1>4. CASE newHead \in Board \ ToSet(snake) /\ newHead # food
  <2>1. snake' = Front(longer) /\ score' = score /\ food' = food
    BY <1>4 DEF gameLoop
  <2>2. /\ IsSnake(longer) /\ Len(longer) = Len(snake) + 1
        /\ longer[1] = newHead /\ longer[2] = snake[1]
        /\ ToSet(longer) = ToSet(snake) \cup {newHead}
    BY <1>1, <1>4, LongerIsSnake
  <2>3. Len(longer) >= 4 /\ Len(longer) - 1 = Len(snake)
    <3>1. Len(snake) >= 3 /\ Len(snake) \in Nat
      BY <1>1 DEF IsSnake
    <3> HIDE DEF longer
    <3>2. QED
      BY <2>2, <3>1
  <2>4. /\ IsSnake(snake') /\ Len(snake') = Len(snake)
        /\ snake'[1] = newHead /\ snake'[2] = snake[1]
        /\ ToSet(snake') \subseteq ToSet(longer)
    <3> HIDE DEF longer
    <3>1. QED
      BY <2>1, <2>2, <2>3, FrontIsSnake
  <2>5. food' \notin ToSet(snake')
    BY <1>1, <1>4, <2>1, <2>2, <2>4
  <2>6. snake'[1] = Moved(snake'[2], direction')
    BY <1>1, <2>4
  <2>7. score' \in Nat /\ Len(snake') = score' + 3
    BY <1>1, <2>1, <2>4
  <2>8. QED
    BY <1>1, <2>4, <2>5, <2>6, <2>7 DEF SnakeInv
<1>5. QED
  BY <1>2, <1>3, <1>4 DEF gameLoop

\* Every step of the game keeps it.
LEMMA SnakeStep == SnakeInv /\ [SnakeNext]_snakeVars => SnakeInv'
<1> SUFFICES ASSUME SnakeInv, [SnakeNext]_snakeVars PROVE SnakeInv'
  OBVIOUS
<1>1. ASSUME UNCHANGED <<snake, food, direction, nextDirection, score>>,
             gameOver' \in {gameOver, TRUE}
      PROVE  SnakeInv'
  BY <1>1 DEF SnakeInv
<1>2. CASE Initialize \/ Pause \/ Quit
  BY <1>1, <1>2 DEF Initialize, Pause, Quit
<1>3. CASE Restart
  <2>1. /\ snake' = FirstSnake /\ food' \in FoodPlaces(FirstSnake)
        /\ direction' = "RIGHT" /\ nextDirection' = "RIGHT" /\ score' = 0
    BY <1>3 DEF Restart
  <2>2. /\ IsSnake(snake') /\ score' \in Nat /\ Len(snake') = score' + 3
        /\ food' \notin ToSet(snake')
        /\ direction' \in Directions /\ nextDirection' # Opposite[direction']
        /\ snake'[1] = Moved(snake'[2], direction')
    <3>1. ASSUME NEW p \in FoodPlaces(FirstSnake) PROVE p \notin ToSet(FirstSnake)
      BY SnakeStarts
    <3>2. PICK p \in FoodPlaces(FirstSnake) : food' = p
      BY <2>1
    <3>3. QED
      BY <2>1, <3>1, <3>2, SnakeStarts
  <2>3. QED
    BY <2>1, <2>2 DEF SnakeInv
<1>4. CASE gameLoop
  BY <1>4, GameLoopKeeps
<1>5. ASSUME NEW key \in DOMAIN Arrows, Turn(key) PROVE SnakeInv'
  <2>1. /\ UNCHANGED <<snake, food, direction, score, gameOver>>
        /\ nextDirection' = IF direction = Opposite[Arrows[key]] THEN nextDirection
                                                                 ELSE Arrows[key]
    BY <1>5 DEF Turn, flags
  <2>2. direction \in Directions /\ nextDirection \in Directions
        /\ nextDirection # Opposite[direction] /\ Arrows[key] \in Directions
    BY Turns DEF SnakeInv
  <2>3. nextDirection' \in Directions /\ nextDirection' # Opposite[direction]
    BY <2>1, <2>2, Turns
  <2>4. QED
    BY <2>1, <2>3 DEF SnakeInv
<1>6. CASE UNCHANGED snakeVars
  BY <1>1, <1>6 DEF snakeVars, flags
<1>7. QED
  BY <1>2, <1>3, <1>4, <1>5, <1>6 DEF SnakeNext

\* So does the beginning.
LEMMA SnakeInvInit == SnakeInit => SnakeInv
BY SnakeStarts DEF SnakeInit, SnakeInv

\* On a board of any size the snake is a path that does not cross itself, as
\* long as the score says, and never lies on the food.
THEOREM BoardStaysLegal == SnakeSpec => []BoardLegal
<1>1. SnakeInv => BoardLegal
  <2> SUFFICES ASSUME SnakeInv PROVE BoardLegal
    OBVIOUS
  <2>1. ToSet(snake) \subseteq Board
    BY DEF SnakeInv, IsSnake, ToSet
  <2>2. QED
    BY <2>1 DEF SnakeInv, IsSnake, Connected, BoardLegal
<1>2. QED
  BY <1>1, SnakeInvInit, SnakeStep, PTL DEF SnakeSpec

\* However many keys are pressed between two moves, the snake never turns back.
THEOREM SnakeNeverTurnsBack == SnakeSpec => NeverTurnsBack
<1>1. SnakeInv /\ [SnakeNext]_snakeVars =>
        [direction' # direction /\ snake # <<>> /\ ~gameOver
           => Moved(Head(snake), direction') # snake[2]]_snakeVars
  <2> SUFFICES ASSUME SnakeInv, SnakeNext, direction' # direction, ~gameOver
               PROVE  Moved(Head(snake), direction') # snake[2]
    OBVIOUS
  <2>1. ~Restart
    BY DEF Restart
  <2>2. gameLoop
    BY <2>1 DEF SnakeNext, Initialize, Pause, Restart, Quit, Turn
  <2>3. direction' = nextDirection /\ Head(snake) = snake[1] /\ snake[2] \in Board
    <3>1. snake \in Seq(Board) /\ Len(snake) >= 3
      BY DEF SnakeInv, IsSnake
    <3>2. QED
      BY <2>2, <3>1 DEF gameLoop
  <2>4. snake[2] \in Int \X Int
    BY <2>3, BoardAssumption DEF Board
  <2>5. snake[1] = Moved(snake[2], direction)
    BY DEF SnakeInv
  <2>6. QED
    BY <2>3, <2>4, <2>5, NoWayBack DEF SnakeInv
<1>2. QED
  BY <1>1, SnakeInvInit, SnakeStep, PTL DEF SnakeSpec, NeverTurnsBack

-----------------------------------------------------------------------------
(* AsyncLog and its Thread. *)

\* The log without fairness.
LogSpec == LogInit /\ [][LogNext]_logVars

\* Where creator, body and mutex are, with one of the two in the mutex at most.
ThreadInv ==
  /\ ThreadTypeOK
  /\ (holder = "creator") <=> (creator = "locked")
  /\ (holder = "body") <=> (body = "locked")
  /\ currentHolder = "creator" => creator \in {"locked", "unlock"}
  /\ currentHolder = "body" => body \in {"locked", "unlock"}
  /\ latch = IF body \in {"none", "starter", "latch", "locked"} THEN 1 ELSE 0
  /\ body \notin {"none", "starter"} => tid
  /\ creator \in {"unlock", "started", "join", "joined"} => latch = 0
  /\ creator = "new" => body = "none"
  /\ creator = "joined" => body = "finished"

\* A step of start(), threadStarter() or join() keeps it.
LEMMA ThreadKeeps == ASSUME ThreadInv, ThreadStep PROVE ThreadInv'
<1> USE DEF ThreadInv, ThreadTypeOK, Both
<1>1. CASE Start
  <2>1. /\ creator = "new" /\ UNCHANGED <<tid, latchVars>>
        /\ \/ creator' = "latch" /\ body' = "starter"
           \/ creator' = "failed" /\ body' = body
    BY <1>1 DEF Start
  <2>2. QED
    BY <2>1 DEF latchVars
<1>2. CASE CreatorLocks
  BY <1>2 DEF CreatorLocks, Lock
<1>3. CASE Wait
  BY <1>3 DEF Wait
<1>4. CASE WaitReturns
  BY <1>4 DEF WaitReturns
<1>5. CASE CreatorUnassigns
  BY <1>5 DEF CreatorUnassigns
<1>6. CASE JoinReturns
  BY <1>6 DEF JoinReturns, latchVars
<1>7. CASE SetTid
  BY <1>7 DEF SetTid, latchVars
<1>8. CASE BodyLocks
  BY <1>8 DEF BodyLocks, Lock
<1>9. CASE countDown
  BY <1>9 DEF countDown
<1>10. CASE BodyUnassigns
  BY <1>10 DEF BodyUnassigns
<1>11. CASE SpuriousReturn
  BY <1>11 DEF SpuriousReturn, latchVars
<1>12. QED
  BY <1>1, <1>2, <1>3, <1>4, <1>5, <1>6, <1>7, <1>8, <1>9, <1>10, <1>11
     DEF ThreadStep, CreatorStep, BodyStep

\* With it, a thread that was started has its id, and its mutex is free at last.
LEMMA ThreadIsComplete == ASSUME ThreadInv PROVE StartIsComplete
BY DEF ThreadInv, ThreadTypeOK, Both, StartIsComplete

\* What is put last is last behind whatever comes before.
LEMMA PutLast ==
  ASSUME NEW x \in Seq(Entries), NEW q \in Seq(Entries), NEW e \in Entries
  PROVE  /\ Append(q, e) \in Seq(Entries)
         /\ x \o Append(q, e) = Append(x \o q, e)
<1>1. Append(q, e) \in Seq(Entries) /\ Append(q, e) = q \o <<e>>
  BY AppendProperties, AppendIsConcat
<1>2. <<e>> \in Seq(Entries) /\ x \o q \in Seq(Entries)
  BY ConcatProperties
<1>3. (x \o q) \o <<e>> = x \o (q \o <<e>>)
  BY <1>2, ConcatAssociative, SMTT(30)
<1>4. Append(x \o q, e) = (x \o q) \o <<e>>
  BY <1>2, AppendIsConcat
<1>5. QED
  BY <1>1, <1>3, <1>4

\* What is taken from the front was the front.
LEMMA TakeFirst ==
  ASSUME NEW x \in Seq(Entries), NEW q \in Seq(Entries), q # <<>>
  PROVE  /\ Head(q) \in Entries /\ Tail(q) \in Seq(Entries)
         /\ x \o <<Head(q)>> \o Tail(q) = x \o q
         /\ x \o <<Head(q)>> = Append(x, Head(q))
<1>1. Head(q) \in Entries /\ Tail(q) \in Seq(Entries)
  BY HeadTailProperties
<1>2. q = <<Head(q)>> \o Tail(q)
  BY HeadTailProperties, SMTT(30)
<1>3. <<Head(q)>> \in Seq(Entries)
  BY <1>1
<1>4. (x \o <<Head(q)>>) \o Tail(q) = x \o (<<Head(q)>> \o Tail(q))
  BY <1>1, <1>3, ConcatAssociative, SMTT(30)
<1>5. x \o <<Head(q)>> = Append(x, Head(q))
  BY <1>1, AppendIsConcat
<1>6. QED
  BY <1>1, <1>2, <1>4, <1>5

\* The inductive invariant of the log.  Until it is constructed nothing is
\* queued.
LogInv ==
  /\ ThreadInv /\ LogTypeOK
  /\ stop => object = "AsyncLog"
  /\ object = "AsyncLog" /\ ~stop =>
       queue = <<>> /\ logged = <<>> /\ stdout = <<>> /\ writer # "output"
  /\ object = "AsyncLogStdout" => stdout \o Taken \o queue = logged

\* Whatever is put while the log is in use is logged behind all the rest.
LEMMA PutIsLogged ==
  ASSUME LogInv, NEW e \in Entries, object = "AsyncLogStdout", Put(e),
         logged' = Append(logged, e), UNCHANGED <<stop, object>>,
         fatal' \in [message : Nat, flush : Nat, aborted : BOOLEAN]
  PROVE  LogInv'
<1>1. /\ queue \in Seq(Entries) /\ logged \in Seq(Entries) /\ stdout \in Seq(Entries)
      /\ item \in Entries /\ writer \in {"while", "take", "waiting", "output"}
      /\ ThreadInv
  BY DEF LogInv, LogTypeOK
<1>2. /\ queue' = Append(queue, e) /\ UNCHANGED <<threadVars, item, stdout>>
      /\ writer' = IF writer = "waiting" THEN "take" ELSE writer
  BY DEF Put
<1>3. ThreadInv'
  BY <1>1, <1>2 DEF threadVars, latchVars, ThreadInv, ThreadTypeOK
<1>4. Taken \in Seq(Entries) /\ Taken' = Taken
  BY <1>1, <1>2 DEF Taken
<1>5. stdout \o Taken \in Seq(Entries)
  BY <1>1, <1>4, ConcatProperties
<1>6. stdout' \o Taken' \o queue' = logged'
  <2>1. stdout \o Taken \o queue = logged
    BY DEF LogInv
  <2>2. stdout \o Taken \o Append(queue, e) = Append(stdout \o Taken \o queue, e)
    BY <1>1, <1>5, PutLast
  <2>3. QED
    BY <1>2, <1>4, <2>1, <2>2
<1>7. queue' \in Seq(Entries) /\ logged' \in Seq(Entries)
  BY <1>1, <1>2, PutLast
<1>8. LogTypeOK'
  BY <1>1, <1>2, <1>3, <1>7 DEF LogInv, LogTypeOK, ThreadInv
<1>9. QED
  BY <1>2, <1>3, <1>6, <1>8 DEF LogInv

\* Every step keeps the invariant.
LEMMA LogStep == LogInv /\ [LogNext]_logVars => LogInv'
<1> SUFFICES ASSUME LogInv, [LogNext]_logVars PROVE LogInv'
  OBVIOUS
<1>0. /\ queue \in Seq(Entries) /\ logged \in Seq(Entries) /\ stdout \in Seq(Entries)
      /\ writer \in {"while", "take", "waiting", "output"} /\ item \in Entries
      /\ stop \in BOOLEAN /\ object \in {"AsyncLog", "AsyncLogStdout"}
      /\ fatal \in [message : Nat, flush : Nat, aborted : BOOLEAN]
      /\ ThreadInv /\ null \in Entries
  BY DEF LogInv, LogTypeOK, Entries
<1>1. ASSUME ThreadInv',
             queue' \in Seq(Entries), logged' \in Seq(Entries),
             stdout' \in Seq(Entries),
             writer' \in {"while", "take", "waiting", "output"}, item' \in Entries,
             stop' \in BOOLEAN, object' \in {"AsyncLog", "AsyncLogStdout"},
             fatal' \in [message : Nat, flush : Nat, aborted : BOOLEAN]
      PROVE  (ThreadInv /\ LogTypeOK)'
  BY <1>1 DEF LogTypeOK, ThreadInv
<1>2. CASE UNCHANGED logVars
  <2>1. ThreadInv'
    BY <1>0, <1>2 DEF logVars, threadVars, latchVars, ThreadInv, ThreadTypeOK
  <2>2. QED
    BY <1>0, <1>1, <1>2, <2>1
       DEF LogInv, logVars, queueVars, writerVars, Taken
<1>3. CASE InThread(ThreadStep)
  <2>1. ThreadInv'
    BY <1>0, <1>3, ThreadKeeps DEF InThread
  <2>2. QED
    BY <1>0, <1>1, <1>3, <2>1
       DEF LogInv, InThread, queueVars, writerVars, Taken
<1>4. ASSUME UNCHANGED threadVars PROVE ThreadInv'
  BY <1>0, <1>4 DEF threadVars, latchVars, ThreadInv, ThreadTypeOK
<1>5. CASE Constructed
  <2>1. /\ UNCHANGED threadVars /\ UNCHANGED <<queueVars, writerVars, stop, fatal>>
        /\ object = "AsyncLog" /\ ~stop /\ object' = "AsyncLogStdout"
    BY <1>5 DEF Constructed
  <2>2. queue = <<>> /\ logged = <<>> /\ stdout = <<>> /\ Taken' = <<>>
    BY <2>1 DEF LogInv, Taken, writerVars
  <2>3. stdout' \o Taken' \o queue' = logged'
    <3>1. <<>> \o <<>> \o <<>> = <<>>
      OBVIOUS
    <3>2. QED
      BY <2>1, <2>2, <3>1 DEF queueVars, writerVars
  <2>4. QED
    BY <1>0, <1>1, <1>4, <2>1, <2>3 DEF LogInv, queueVars, writerVars
<1>6. CASE Destroy
  <2>1. /\ UNCHANGED threadVars /\ UNCHANGED <<queueVars, writerVars, fatal>>
        /\ object' = "AsyncLog" /\ stop' = TRUE
    BY <1>6 DEF Destroy
  <2>2. QED
    BY <1>0, <1>1, <1>4, <2>1 DEF LogInv, queueVars, writerVars
<1>7. CASE FlushAndJoin
  <2>1. /\ creator = "started" /\ creator' = "join" /\ stop
        /\ UNCHANGED <<body, tid, latchVars, logged, item, stdout, stop, object, fatal>>
        /\ queue' = Append(queue, null)
        /\ writer' = IF writer = "waiting" THEN "take" ELSE writer
    BY <1>7 DEF FlushAndJoin
  <2>2. ThreadInv'
    BY <1>0, <2>1 DEF ThreadInv, ThreadTypeOK, latchVars
  <2>3. queue' \in Seq(Entries)
    BY <1>0, <2>1, PutLast
  <2>4. object = "AsyncLog"
    BY <2>1 DEF LogInv
  <2>5. QED
    BY <1>0, <1>1, <2>1, <2>2, <2>3, <2>4 DEF LogInv
<1>8. CASE FatalFlush
  <2>1. /\ object = "AsyncLogStdout" /\ Put(null) /\ logged' = Append(logged, null)
        /\ UNCHANGED <<stop, object>> /\ fatal.message > 0
        /\ fatal' = [fatal EXCEPT !.message = @ - 1, !.flush = @ + 1]
    BY <1>8 DEF FatalFlush, Usable, PutFlush
  <2>2. fatal' \in [message : Nat, flush : Nat, aborted : BOOLEAN]
    <3>1. fatal.message - 1 \in Nat /\ fatal.flush + 1 \in Nat /\ fatal.aborted \in BOOLEAN
      BY <1>0, <2>1
    <3>2. fatal' = [message |-> fatal.message - 1, flush |-> fatal.flush + 1,
                    aborted |-> fatal.aborted]
      BY <1>0, <2>1
    <3>3. QED
      BY <3>1, <3>2
  <2>3. QED
    BY <1>0, <2>1, <2>2, PutIsLogged
<1>9. CASE flush
  <2>1. /\ object = "AsyncLogStdout" /\ Put(null) /\ logged' = Append(logged, null)
        /\ UNCHANGED <<stop, object>> /\ fatal' = fatal
    BY <1>9 DEF flush, Usable, PutFlush
  <2>2. QED
    BY <1>0, <2>1, PutIsLogged
<1>10. CASE Abort
  <2>1. /\ UNCHANGED threadVars /\ object = "AsyncLogStdout"
        /\ fatal' = [fatal EXCEPT !.aborted = TRUE]
        /\ UNCHANGED <<queueVars, writerVars, stop, object>>
    BY <1>10 DEF Abort, Usable
  <2>2. fatal' \in [message : Nat, flush : Nat, aborted : BOOLEAN]
    BY <1>0, <2>1
  <2>3. QED
    BY <1>0, <1>1, <1>4, <2>1, <2>2 DEF LogInv, queueVars, writerVars, Taken
<1>11. ASSUME NEW m \in Messages, addLog(m) PROVE LogInv'
  <2>1. /\ object = "AsyncLogStdout" /\ Put(m) /\ logged' = Append(logged, m)
        /\ UNCHANGED <<stop, object>>
        /\ fatal' \in {fatal, [fatal EXCEPT !.message = @ + 1]}
    BY <1>11 DEF addLog, Usable
  <2>2. fatal' \in [message : Nat, flush : Nat, aborted : BOOLEAN]
    BY <1>0, <2>1
  <2>3. m \in Entries
    BY DEF Entries
  <2>4. QED
    BY <2>1, <2>2, <2>3, PutIsLogged
<1>12. CASE InWriter(WhileNotStop)
  <2>1. /\ UNCHANGED <<queueVars, creator, tid, latchVars, item, stdout, stop,
                       object, fatal>>
        /\ body = "func" /\ writer = "while"
        /\ \/ body' = "finished" /\ writer' = writer
           \/ body' = body /\ writer' = "take"
    BY <1>12 DEF InWriter, WhileNotStop
  <2>2. ThreadInv'
    BY <1>0, <2>1 DEF ThreadInv, ThreadTypeOK, latchVars
  <2>3. QED
    BY <1>0, <1>1, <2>1, <2>2 DEF LogInv, queueVars, Taken
<1>13. CASE InWriter(WaitNotEmpty) \/ InWriter(SpuriousWakeUp)
  <2>1. /\ UNCHANGED threadVars
        /\ UNCHANGED <<queueVars, item, stdout, stop, object, fatal>>
        /\ writer # "output" /\ writer' \in {"take", "waiting"}
    BY <1>13 DEF InWriter, WaitNotEmpty, SpuriousWakeUp
  <2>2. QED
    BY <1>0, <1>1, <1>4, <2>1 DEF LogInv, queueVars, Taken
<1>14. CASE InWriter(Take)
  <2>1. /\ UNCHANGED threadVars /\ UNCHANGED <<logged, stdout, stop, object, fatal>>
        /\ writer = "take" /\ writer' = "output" /\ queue # <<>>
        /\ item' = Head(queue) /\ queue' = Tail(queue)
    BY <1>14 DEF InWriter, Take
  <2>2. /\ item' \in Entries /\ queue' \in Seq(Entries)
        /\ stdout \o <<item'>> \o queue' = stdout \o queue
    BY <1>0, <2>1, TakeFirst
  <2>3. object = "AsyncLogStdout" => stdout' \o Taken' \o queue' = logged'
    <3> SUFFICES ASSUME object = "AsyncLogStdout"
                 PROVE  stdout' \o Taken' \o queue' = logged'
      OBVIOUS
    <3>1. stdout \o <<>> \o queue = logged /\ stdout \o <<>> = stdout
      BY <1>0, <2>1, ConcatEmptySeq DEF LogInv, Taken
    <3>2. QED
      BY <2>1, <2>2, <3>1 DEF Taken
  <2>4. object = "AsyncLog" => stop
    BY <2>1 DEF LogInv
  <2>5. QED
    BY <1>0, <1>1, <1>4, <2>1, <2>2, <2>3, <2>4 DEF LogInv
<1>15. CASE InWriter(Output)
  <2>1. /\ UNCHANGED threadVars /\ UNCHANGED <<queueVars, stop, object, fatal>>
        /\ writer = "output" /\ writer' = "while" /\ item' = null
        /\ stdout' = IF object = "AsyncLog" THEN stdout ELSE Append(stdout, item)
    BY <1>15 DEF InWriter, Output
  <2>2. stdout' \in Seq(Entries)
    BY <1>0, <2>1, AppendProperties
  <2>3. object = "AsyncLogStdout" => stdout' \o Taken' \o queue' = logged'
    <3> SUFFICES ASSUME object = "AsyncLogStdout"
                 PROVE  stdout' \o Taken' \o queue' = logged'
      OBVIOUS
    <3>1. stdout' = Append(stdout, item) /\ Taken = <<item>> /\ Taken' = <<>>
      BY <2>1 DEF Taken
    <3>2. Append(stdout, item) = stdout \o <<item>>
      BY <1>0, AppendIsConcat
    <3>3. stdout' \o <<>> = stdout'
      BY <2>2, ConcatEmptySeq
    <3>4. stdout \o Taken \o queue = logged
      BY DEF LogInv
    <3>5. QED
      BY <2>1, <3>1, <3>2, <3>3, <3>4 DEF queueVars
  <2>4. object = "AsyncLog" => stop
    BY <2>1 DEF LogInv
  <2>5. QED
    BY <1>0, <1>1, <1>4, <2>1, <2>2, <2>3, <2>4 DEF LogInv, queueVars
<1>16. QED
  <2>1. InWriter(WriterStep) =>
          \/ InWriter(WhileNotStop) \/ InWriter(WaitNotEmpty)
          \/ InWriter(Take) \/ InWriter(Output)
    BY DEF InWriter, WriterStep
  <2>2. QED
    BY <1>2, <1>3, <1>5, <1>6, <1>7, <1>8, <1>9, <1>10, <1>11, <1>12, <1>13, <1>14,
       <1>15, <2>1 DEF LogNext

\* Until the log is destroyed the messages and flushes that have reached stdout,
\* are taken and are queued are those that were queued, in order, whichever
\* threads go on to log while others are about to abort; and the log's thread
\* has been started properly.
THEOREM LogStaysInOrder == LogSpec => []LogInOrder
<1>1. LogInit => LogInv
  <2> SUFFICES ASSUME LogInit PROVE LogInv
    OBVIOUS
  <2>1. ThreadInv
    BY DEF LogInit, ThreadInit, ThreadInv, ThreadTypeOK, Both
  <2>2. <<>> \in Seq(Entries) /\ null \in Entries
    BY DEF Entries
  <2>3. fatal \in [message : Nat, flush : Nat, aborted : BOOLEAN]
    BY DEF LogInit
  <2>4. LogTypeOK
    BY <2>1, <2>2, <2>3 DEF LogInit, LogTypeOK, ThreadInv
  <2>5. QED
    BY <2>1, <2>4 DEF LogInit, LogInv
<1>2. LogInv => LogInOrder
  BY ThreadIsComplete DEF LogInv, LogInOrder
<1>3. QED
  BY <1>1, <1>2, LogStep, PTL DEF LogSpec

-----------------------------------------------------------------------------
(* Signals. *)

\* The signals without fairness.
SignalSpec == SignalInit /\ [][SignalNext]_signalVars

\* What may be kept of a signal.
SignalEntries == [action : Actions \cup {"none"}, callback : {"none", "reading", "bare"},
            enabled : BOOLEAN, blocked : BOOLEAN, ignored : BOOLEAN, pending : BOOLEAN]

\* An entry that follows its action, and one without an action that is as new.
Follows(x) ==
  /\ x \in SignalEntries
  /\ x.enabled = (x.action = "Handled")
  /\ x.action # "Handled" =>
       ~x.blocked /\ ~x.pending /\ x.ignored = (x.action = "Ignored")
  /\ x.action = "none" => x = NoHandler

\* The inductive invariant.
SignalInv ==
  /\ SignalTypeOK
  /\ process # "killed" => \A s \in Signums : Follows(signal[s])
  /\ process # "killed" /\ ended => \A s \in Signums : signal[s] = NoHandler
  /\ keyboard.handler = "own" =>
       keyboard.enabled = (keyboard.terminal = "interactive")

\* A new entry follows its action.
LEMMA NoHandlerFollows == Follows(NoHandler)
BY DEF Follows, SignalEntries, NoHandler, Actions

\* Update() keeps an entry's type, whatever it was.
LEMMA UpdateKeepsType ==
  ASSUME NEW x \in SignalEntries, NEW action \in Actions
  PROVE  Update(x, action) \in SignalEntries
BY ZenonT(60) DEF SignalEntries, Actions, Update, Leave, BackTo, Watched

\* Update() leaves an entry that follows its new action.
LEMMA UpdateFollows ==
  ASSUME NEW x, Follows(x), NEW action \in Actions
  PROVE  Follows(Update(x, action))
<1> DEFINE y == Update(x, action)
<1>1. x \in SignalEntries
  BY DEF Follows
<1>2. y \in SignalEntries /\ y.action = action /\ action # "none"
  BY <1>1, ZenonT(60) DEF SignalEntries, Actions, Update, Leave, BackTo, Watched
<1>3. y.enabled = (action = "Handled")
  BY <1>1 DEF Follows, SignalEntries, Actions, Update, Leave, BackTo, Watched
<1>4. action # "Handled" =>
        ~y.blocked /\ ~y.pending /\ y.ignored = (action = "Ignored")
  BY <1>1 DEF Follows, SignalEntries, Actions, Update, Leave, BackTo, Watched
<1>5. QED
  BY <1>2, <1>3, <1>4 DEF Follows

\* Every step keeps the invariant.  A process that was killed makes none.
LEMMA SignalStep == SignalInv /\ [SignalNext]_signalVars => SignalInv'
<1> SUFFICES ASSUME SignalInv, [SignalNext]_signalVars PROVE SignalInv'
  OBVIOUS
<1> USE DEF SignalInv
<1>1. /\ signal \in [Signums -> SignalEntries] /\ loops \in 1..MaxLoops /\ ended \in BOOLEAN
      /\ process \in {"alive", "killed", "crashed"}
      /\ keyboard \in [handler : {"none", "own", "orphan"}, enabled : BOOLEAN,
                       terminal : {"normal", "interactive"}, wanted : BOOLEAN]
  BY DEF SignalTypeOK, SignalEntries
<1>2. CASE UNCHANGED signalVars
  BY <1>2 DEF signalVars, SignalTypeOK
<1>3. ASSUME NEW s \in Signums, NEW action \in Actions, handleSignal(s, action)
      PROVE  SignalInv'
  <2>1. process = "alive" /\ ended = FALSE /\ UNCHANGED <<keyboard, loops, ended>>
        /\ process' \in {"alive", "killed"}
    BY <1>3 DEF handleSignal, LoopRuns
  <2>2. signal' = [signal EXCEPT ![s] = Update(signal[s], action)]
    BY <1>3 DEF handleSignal
  <2>3. Follows(Update(signal[s], action)) /\ Update(signal[s], action) \in SignalEntries
    BY <2>1, UpdateFollows DEF Follows
  <2>4. signal' \in [Signums -> SignalEntries] /\ \A t \in Signums : Follows(signal'[t])
    BY <1>1, <2>1, <2>2, <2>3
  <2>5. QED
    BY <1>1, <2>1, <2>4 DEF SignalTypeOK, SignalEntries
<1>4. ASSUME NEW s \in Signums, Raise(s) PROVE SignalInv'
  <2>1. process = "alive" /\ UNCHANGED <<keyboard, loops, ended>>
    BY <1>4 DEF Raise
  <2>2. CASE signal[s].blocked
    <3>1. signal' = [signal EXCEPT ![s].pending = TRUE] /\ UNCHANGED process
      BY <1>4, <2>2 DEF Raise
    <3>2. Follows(signal[s]) /\ signal[s].action = "Handled"
      BY <2>1, <2>2 DEF Follows
    <3>3. Follows([signal[s] EXCEPT !.pending = TRUE])
      BY <3>2 DEF Follows, SignalEntries, Actions
    <3>4. ended = FALSE
      <4>1. NoHandler.blocked = FALSE
        BY DEF NoHandler
      <4>2. QED
        BY <1>1, <2>1, <2>2, <4>1
    <3>5. signal' \in [Signums -> SignalEntries] /\ \A t \in Signums : Follows(signal'[t])
      BY <1>1, <2>1, <3>1, <3>3 DEF Follows
    <3>6. QED
      BY <1>1, <2>1, <3>1, <3>4, <3>5 DEF SignalTypeOK, SignalEntries
  <2>3. CASE ~signal[s].blocked
    <3>1. UNCHANGED signal /\ process' \in {"alive", "killed"}
      BY <1>4, <2>1, <2>3 DEF Raise
    <3>2. QED
      BY <1>1, <2>1, <3>1 DEF SignalTypeOK, SignalEntries
  <2>4. QED
    BY <2>2, <2>3
<1>5. ASSUME NEW s \in Signums, SignalCallback(s) PROVE SignalInv'
  <2>1. /\ process = "alive" /\ ended = FALSE /\ UNCHANGED <<keyboard, loops, ended, process>>
        /\ signal' = [signal EXCEPT ![s].pending = (signal[s].callback = "bare")]
        /\ signal[s].enabled
    BY <1>5 DEF SignalCallback, LoopRuns
  <2>2. Follows([signal[s] EXCEPT !.pending = (signal[s].callback = "bare")])
    BY <1>1, <2>1 DEF Follows, SignalEntries, Actions, NoHandler
  <2>3. signal' \in [Signums -> SignalEntries] /\ \A t \in Signums : Follows(signal'[t])
    BY <1>1, <2>1, <2>2 DEF Follows
  <2>4. QED
    BY <1>1, <2>1, <2>3 DEF SignalTypeOK, SignalEntries
<1>6. ASSUME NEW on \in BOOLEAN, handleKeyboard(on) PROVE SignalInv'
  <2>1. /\ process = "alive" /\ UNCHANGED <<signal, loops, ended>>
        /\ process' \in {"alive", "crashed"}
    BY <1>6 DEF handleKeyboard
  <2>2. CASE ended \/ keyboard.handler = "orphan" \/ (~on /\ keyboard.handler = "none")
    <3>1. keyboard' = [keyboard EXCEPT !.wanted = on]
      BY <1>6, <2>2 DEF handleKeyboard
    <3>2. QED
      BY <1>1, <2>1, <3>1 DEF SignalTypeOK, SignalEntries
  <2>3. CASE ~(ended \/ keyboard.handler = "orphan" \/ (~on /\ keyboard.handler = "none"))
    <3>1. keyboard' = [handler |-> "own", enabled |-> on, wanted |-> on,
                       terminal |-> IF on THEN "interactive" ELSE "normal"]
      BY <1>6, <2>3 DEF handleKeyboard
    <3>2. QED
      BY <1>1, <2>1, <3>1 DEF SignalTypeOK, SignalEntries
  <2>4. QED
    BY <2>2, <2>3
<1>7. CASE EndLoop
  <2>1. /\ process = "alive" /\ ended' = TRUE /\ UNCHANGED loops
        /\ process' \in {"alive", "killed", "crashed"}
        /\ keyboard' = IF keyboard.handler = "none" THEN keyboard
                       ELSE [keyboard EXCEPT !.handler = "orphan", !.enabled = FALSE]
        /\ signal' = [s \in Signums |->
             IF signal[s].action = "none" THEN signal[s] ELSE NoHandler]
    BY <1>7 DEF EndLoop, LoopRuns
  <2>2. \A s \in Signums : signal'[s] = NoHandler
    BY <2>1 DEF Follows
  <2>3. signal' \in [Signums -> SignalEntries] /\ \A s \in Signums : Follows(signal'[s])
    BY <2>1, <2>2, NoHandlerFollows DEF Follows
  <2>4. /\ keyboard' \in [handler : {"none", "own", "orphan"}, enabled : BOOLEAN,
                          terminal : {"normal", "interactive"}, wanted : BOOLEAN]
        /\ keyboard'.handler # "own"
    BY <1>1, <2>1
  <2>5. QED
    BY <1>1, <2>1, <2>2, <2>3, <2>4 DEF SignalTypeOK, SignalEntries
<1>8. CASE CreateLoop
  <2>1. /\ loops' \in 1..MaxLoops /\ ended' = FALSE
        /\ UNCHANGED <<signal, keyboard, process>>
    BY <1>1, <1>8, SignalAssumption DEF CreateLoop
  <2>2. SignalTypeOK'
    BY <1>1, <2>1 DEF SignalTypeOK, SignalEntries
  <2>3. QED
    BY <2>1, <2>2
<1>9. QED
  BY <1>2, <1>3, <1>4, <1>5, <1>6, <1>7, <1>8 DEF SignalNext

\* Whatever actions signals go through, until one kills the process, epoll watches
\* a signal exactly while it is Handled and otherwise mask and disposition are
\* those of its action; and the terminal is interactive exactly while the loop
\* reads the keyboard.  The end of a loop that finds the keyboard's handler of a
\* former one crashes (EventLoop.cpp:140-147), and there it ends.
THEOREM SignalsDoFollow == SignalSpec => []SignalsFollowActions
<1>1. SignalInit => SignalInv
  <2> SUFFICES ASSUME SignalInit PROVE SignalInv
    OBVIOUS
  <2>1. signal \in [Signums -> SignalEntries] /\ \A s \in Signums : Follows(signal[s])
    BY NoHandlerFollows DEF SignalInit, Follows
  <2>2. QED
    <3>1. SignalTypeOK
      <4>1. loops \in 1..MaxLoops
        BY SignalAssumption DEF SignalInit
      <4>2. /\ ended \in BOOLEAN /\ process \in {"alive", "killed", "crashed"}
            /\ keyboard \in [handler : {"none", "own", "orphan"}, enabled : BOOLEAN,
                             terminal : {"normal", "interactive"}, wanted : BOOLEAN]
        BY DEF SignalInit
      <4>3. QED
        BY <2>1, <4>1, <4>2 DEF SignalTypeOK, SignalEntries
    <3>2. QED
      BY <2>1, <3>1 DEF SignalInit, SignalInv
<1>2. SignalInv => SignalsFollowActions
  BY DEF SignalInv, SignalsFollowActions, Follows
<1>3. QED
  BY <1>1, <1>2, SignalStep, PTL DEF SignalSpec

\* No signal is made Handled that has been Handled in the same loop.
HandledOnce == \A s \in Signums : handleSignal(s, "Handled") => signal[s].callback = "none"

\* A signal that is Handled is blocked, and read from its signalfd.
ReadIfHandled(x) ==
  /\ x.callback # "bare"
  /\ x.action = "Handled" => x.blocked /\ x.callback = "reading"

\* Every step but a second Handled keeps it of all signals.
LEMMA ReadStep ==
  ASSUME SignalTypeOK, \A s \in Signums : ReadIfHandled(signal[s]),
         [SignalNext]_signalVars, [HandledOnce]_signalVars
  PROVE  \A s \in Signums : ReadIfHandled(signal'[s])
<1>1. signal \in [Signums -> SignalEntries]
  BY DEF SignalTypeOK, SignalEntries
<1>2. CASE UNCHANGED signalVars
  BY <1>2 DEF signalVars
<1>3. CASE HandledOnce /\ ~UNCHANGED signalVars
  <2>1. ASSUME NEW s \in Signums, NEW action \in Actions, handleSignal(s, action)
        PROVE  ReadIfHandled(Update(signal[s], action))
    <3>1. CASE action = "Handled"
      <4>1. signal[s].callback = "none" /\ signal[s].action # "Handled"
        BY <1>3, <2>1, <3>1 DEF HandledOnce, ReadIfHandled
      <4>2. QED
        BY <1>1, <3>1, <4>1 DEF Update, Watched, ReadIfHandled, SignalEntries
    <3>2. CASE action # "Handled"
      <4>1. /\ Update(signal[s], action).callback = signal[s].callback
            /\ Update(signal[s], action).action = action
        BY <1>1, <3>2 DEF Update, Leave, BackTo, SignalEntries
      <4>2. QED
        BY <3>2, <4>1 DEF ReadIfHandled
    <3>3. QED
      BY <3>1, <3>2
  <2>2. ASSUME NEW s \in Signums, NEW action \in Actions, handleSignal(s, action)
        PROVE  \A t \in Signums : ReadIfHandled(signal'[t])
    <3>1. signal' = [signal EXCEPT ![s] = Update(signal[s], action)]
      BY <2>2 DEF handleSignal
    <3>2. QED
      BY <1>1, <2>1, <2>2, <3>1
  <2>3. ASSUME NEW s \in Signums, Raise(s) \/ SignalCallback(s)
        PROVE  \A t \in Signums : ReadIfHandled(signal'[t])
    <3>1. \E p \in BOOLEAN : signal' = signal \/ signal' = [signal EXCEPT ![s].pending = p]
      BY <2>3 DEF Raise, SignalCallback
    <3>2. QED
      BY <1>1, <3>1 DEF ReadIfHandled, SignalEntries
  <2>4. CASE EndLoop
    <3>1. \A t \in Signums : signal'[t] = signal[t] \/ signal'[t] = NoHandler
      BY <2>4 DEF EndLoop
    <3>2. ReadIfHandled(NoHandler)
      BY DEF ReadIfHandled, NoHandler
    <3>3. QED
      BY <3>1, <3>2
  <2>5. CASE CreateLoop \/ \E on \in BOOLEAN : handleKeyboard(on)
    BY <2>5 DEF CreateLoop, handleKeyboard
  <2>6. \/ \E t \in Signums : Raise(t) \/ SignalCallback(t)
        \/ \E t \in Signums, action \in Actions : handleSignal(t, action)
        \/ EndLoop
        \/ CreateLoop \/ \E on \in BOOLEAN : handleKeyboard(on)
    BY <1>3, Zenon DEF SignalNext
  <2> DEFINE Goal == \A t \in Signums : ReadIfHandled(signal'[t])
  <2>7. ASSUME NEW t \in Signums, Raise(t) \/ SignalCallback(t) PROVE Goal
    BY <2>3, <2>7
  <2>8. ASSUME NEW t \in Signums, NEW action \in Actions, handleSignal(t, action) PROVE Goal
    BY <2>2, <2>8
  <2> HIDE DEF Goal
  <2>9. Goal
    BY <2>4, <2>5, <2>6, <2>7, <2>8 DEF Goal
  <2>10. QED
    BY <2>9 DEF Goal
<1>4. QED
  BY <1>2, <1>3

\* What Signal.cpp:29 says does hold as long as a signal is Handled only once in a
\* loop, whatever other actions it has before and after: then its default action
\* is blocked, and its signalfd is read, so that the loop does not spin.
THEOREM HandledOnceIsBlocked ==
  SignalSpec /\ [][HandledOnce]_signalVars
    => [](HandledIsBlocked
            /\ \A s \in Signums : signal[s].action = "Handled" => signal[s].callback = "reading")
<1> DEFINE Read == \A s \in Signums : ReadIfHandled(signal[s])
<1>1. SignalInit => Read
  BY DEF SignalInit, ReadIfHandled, NoHandler
<1>2. SignalsFollowActions /\ Read /\ [SignalNext]_signalVars /\ [HandledOnce]_signalVars
        => Read'
  BY ReadStep DEF SignalsFollowActions
<1>3. Read => HandledIsBlocked
                /\ \A s \in Signums : signal[s].action = "Handled" => signal[s].callback = "reading"
  BY DEF ReadIfHandled, HandledIsBlocked
<1> HIDE DEF Read
<1>4. QED
  BY <1>1, <1>2, <1>3, SignalsDoFollow, PTL DEF SignalSpec

\* The terminal is interactive only where a running loop reads the keyboard for
\* somebody who wants it.
KeyboardIsRead ==
  keyboard.terminal = "interactive" =>
    keyboard.wanted /\ keyboard.handler = "own" /\ ~ended

\* Every step keeps it but the end of a loop whose keyboard is still wanted.
LEMMA KeyboardStep ==
  ASSUME SignalTypeOK, KeyboardIsRead, [SignalNext]_signalVars,
         [EndLoop => ~keyboard.wanted]_signalVars
  PROVE  KeyboardIsRead'
<1>1. keyboard \in [handler : {"none", "own", "orphan"}, enabled : BOOLEAN,
                    terminal : {"normal", "interactive"}, wanted : BOOLEAN]
  BY DEF SignalTypeOK
<1>2. ASSUME UNCHANGED <<keyboard, ended>> PROVE KeyboardIsRead'
  BY <1>2 DEF KeyboardIsRead
<1>3. ASSUME NEW on \in BOOLEAN, handleKeyboard(on) PROVE KeyboardIsRead'
  <2>1. ended' = ended
    BY <1>3 DEF handleKeyboard
  <2>2. CASE ended \/ keyboard.handler = "orphan" \/ (~on /\ keyboard.handler = "none")
    <3>1. keyboard' = [keyboard EXCEPT !.wanted = on]
      BY <1>3, <2>2 DEF handleKeyboard
    <3>2. keyboard.terminal # "interactive"
      BY <2>2 DEF KeyboardIsRead
    <3>3. QED
      BY <1>1, <3>1, <3>2 DEF KeyboardIsRead
  <2>3. CASE ~(ended \/ keyboard.handler = "orphan" \/ (~on /\ keyboard.handler = "none"))
    <3>1. keyboard' = [handler |-> "own", enabled |-> on, wanted |-> on,
                       terminal |-> IF on THEN "interactive" ELSE "normal"]
      BY <1>3, <2>3 DEF handleKeyboard
    <3>2. QED
      BY <2>1, <2>3, <3>1 DEF KeyboardIsRead
  <2>4. QED
    BY <2>2, <2>3
<1>4. CASE EndLoop
  <2>1. CASE UNCHANGED signalVars
    BY <1>2, <2>1 DEF signalVars
  <2>2. CASE ~keyboard.wanted
    <3>1. keyboard.terminal # "interactive"
      BY <2>2 DEF KeyboardIsRead
    <3>2. keyboard'.terminal = keyboard.terminal
      BY <1>1, <1>4 DEF EndLoop
    <3>3. QED
      BY <3>1, <3>2 DEF KeyboardIsRead
  <2>3. QED
    BY <1>4, <2>1, <2>2
<1>5. CASE CreateLoop
  BY <1>5 DEF CreateLoop, KeyboardIsRead
<1>6. ASSUME NEW s \in Signums,
             Raise(s) \/ SignalCallback(s) \/ \E a \in Actions : handleSignal(s, a)
      PROVE  KeyboardIsRead'
  <2>1. UNCHANGED <<keyboard, ended>>
    BY <1>6 DEF Raise, SignalCallback, handleSignal
  <2>2. QED
    BY <1>2, <2>1
<1>7. CASE UNCHANGED signalVars
  BY <1>2, <1>7 DEF signalVars
<1>8. QED
  BY <1>3, <1>4, <1>5, <1>6, <1>7 DEF SignalNext

\* What EventLoop.h:79 says does hold where users give the keyboard back before
\* the loop ends: nullptr then puts the terminal back to normal.
THEOREM KeyboardGoesBack ==
  SignalSpec /\ [][EndLoop => ~keyboard.wanted]_signalVars
    => [](~keyboard.wanted => keyboard.terminal = "normal")
<1>1. SignalInit => KeyboardIsRead
  BY DEF SignalInit, KeyboardIsRead
<1>2. SignalsFollowActions /\ KeyboardIsRead /\ [SignalNext]_signalVars
        /\ [EndLoop => ~keyboard.wanted]_signalVars => KeyboardIsRead'
  BY KeyboardStep DEF SignalsFollowActions
<1>3. SignalsFollowActions /\ KeyboardIsRead
        => (~keyboard.wanted => keyboard.terminal = "normal")
  BY DEF KeyboardIsRead, SignalsFollowActions, SignalTypeOK
<1>4. QED
  BY <1>1, <1>2, <1>3, SignalsDoFollow, PTL DEF SignalSpec

\* A handler without its loop, while that loop is the last one.
OrphanIsLast ==
  process # "crashed" /\ (keyboard.handler = "orphan" => ended)

\* Every step keeps it but a new loop after one that has used the keyboard.
LEMMA OrphanStep ==
  ASSUME SignalTypeOK, OrphanIsLast, [SignalNext]_signalVars,
         [CreateLoop => keyboard.handler = "none"]_signalVars
  PROVE  OrphanIsLast'
<1>1. keyboard \in [handler : {"none", "own", "orphan"}, enabled : BOOLEAN,
                    terminal : {"normal", "interactive"}, wanted : BOOLEAN]
  BY DEF SignalTypeOK
<1>2. CASE UNCHANGED signalVars
  BY <1>2 DEF signalVars, OrphanIsLast
<1>3. ASSUME NEW on \in BOOLEAN, handleKeyboard(on) PROVE OrphanIsLast'
  <2>1. /\ ended' = ended /\ process = "alive"
        /\ ended \/ keyboard.handler # "orphan"
        /\ process' = IF ~ended /\ keyboard.handler = "orphan" THEN "crashed" ELSE process
    BY <1>3 DEF handleKeyboard, OrphanIsLast
  <2>2. keyboard'.handler = keyboard.handler \/ keyboard'.handler = "own"
    BY <1>1, <1>3 DEF handleKeyboard
  <2>3. QED
    BY <2>1, <2>2 DEF OrphanIsLast
<1>4. CASE EndLoop
  <2>1. ended' /\ keyboard.handler # "orphan" /\ process = "alive"
    BY <1>4 DEF EndLoop, LoopRuns, OrphanIsLast
  <2>2. process' \in {"alive", "killed"}
    BY <1>4, <2>1 DEF EndLoop
  <2>3. QED
    BY <2>1, <2>2 DEF OrphanIsLast
<1>5. CASE CreateLoop
  <2>1. UNCHANGED <<keyboard, process>>
    BY <1>5 DEF CreateLoop
  <2>2. CASE UNCHANGED signalVars
    BY <1>2, <2>2
  <2>3. CASE keyboard.handler = "none"
    BY <2>1, <2>3 DEF OrphanIsLast
  <2>4. QED
    BY <1>5, <2>2, <2>3
<1>6. ASSUME NEW s \in Signums,
             Raise(s) \/ SignalCallback(s) \/ \E a \in Actions : handleSignal(s, a)
      PROVE  OrphanIsLast'
  <2>1. UNCHANGED <<keyboard, ended>> /\ process' \in {process, "killed"}
    BY <1>6 DEF Raise, SignalCallback, handleSignal
  <2>2. QED
    BY <2>1 DEF OrphanIsLast
<1>7. QED
  BY <1>2, <1>3, <1>4, <1>5, <1>6 DEF SignalNext

\* The handler of the keyboard, which outlives its loop without one, crashes
\* nothing as long as no loop is created after one that has used the keyboard
\* (EventLoop.cpp:140-147, IOHandler.cpp:152-164).
THEOREM OneLoopDoesNotCrash ==
  SignalSpec /\ [][CreateLoop => keyboard.handler = "none"]_signalVars
    => [](process # "crashed")
<1>1. SignalInit => OrphanIsLast
  BY DEF SignalInit, OrphanIsLast
<1>2. SignalsFollowActions /\ OrphanIsLast /\ [SignalNext]_signalVars
        /\ [CreateLoop => keyboard.handler = "none"]_signalVars => OrphanIsLast'
  BY OrphanStep DEF SignalsFollowActions
<1>3. OrphanIsLast => process # "crashed"
  BY DEF OrphanIsLast
<1>4. QED
  BY <1>1, <1>2, <1>3, SignalsDoFollow, PTL DEF SignalSpec
=============================================================================
