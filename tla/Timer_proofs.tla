---------------------------- MODULE Timer_proofs ----------------------------
(***************************************************************************)
(* Proofs about Timer, for any number of timers, any times and any queue:  *)
(* a timer is in one place at a time, repeating timers do not drift, a     *)
(* timer that was disabled on the loop thread stays silent, and the        *)
(* timerfd is armed for the earliest timer.  What the heap does is taken   *)
(* from BinaryHeap_proofs, its order being that of timerCmpLessThan().     *)
(***************************************************************************)
EXTENDS Timer, Counting

\* The heap of the timers, ordered by expiration.
Heap == INSTANCE BinaryHeap_proofs WITH Less <- timerCmpLessThan

-----------------------------------------------------------------------------
(* The heap of the timers. *)

\* timerCmpLessThan() orders the timers, by expiration and then by sequence.
LEMMA TimersAreOrdered ==
  ASSUME TypeOK PROVE Heap!Orders(Timers)
<1>1. expiration \in [Timers -> Nat] /\ Timers \subseteq Nat
  BY TimerAssumption DEF TypeOK, Timers
<1>2. \A x \in Timers : expiration[x] \in Nat /\ x \in Nat
  BY <1>1
<1>3. \A x, y \in Timers : timerCmpLessThan(x, y) => ~timerCmpLessThan(y, x)
  BY <1>2 DEF timerCmpLessThan
<1>4. \A x, y, z \in Timers :
        ~timerCmpLessThan(y, x) /\ ~timerCmpLessThan(z, y)
          => ~timerCmpLessThan(z, x)
  BY <1>2 DEF timerCmpLessThan
<1>5. QED
  BY <1>3, <1>4 DEF Heap!Orders

\* The heap is that of BinaryHeap, with this order.
LEMMA HeapOfTimers ==
  ASSUME NEW v, NEW t
  PROVE  /\ insert(v, t) = Heap!insert(v, t)
         /\ popTop(v) = Heap!popTop(v)
         /\ top(v) = Heap!top(v)
         /\ IsHeap(v) = Heap!IsHeap(v)
         /\ Heap!Cardinality(Heap!At(v, t)) = Cardinality(At(v, t))
BY DEF insert, Heap!insert, popTop, Heap!popTop, top, Heap!top, IsHeap,
       Heap!IsHeap, At, Heap!At,
       Cardinality, Heap!Cardinality, percolateUp, Heap!percolateUp, perolateDown,
       Heap!perolateDown, moveAlong, Heap!moveAlong, properParent,
       Heap!properParent, Parent, Heap!Parent, LChild, Heap!LChild, RChild,
       Heap!RChild

\* A timer is added to the heap.
LEMMA TimerInserted ==
  ASSUME TypeOK, NEW t \in Timers
  PROVE  /\ insert(heap, t) \in Seq(Timers)
         /\ \A x : Cardinality(At(insert(heap, t), x)) =
                     Cardinality(At(heap, x)) + (IF t = x THEN 1 ELSE 0)
         /\ {insert(heap, t)[i] : i \in 1..Len(insert(heap, t))} =
              {heap[i] : i \in 1..Len(heap)} \cup {t}
         /\ IsHeap(heap) => IsHeap(insert(heap, t))
<1> DEFINE w == insert(heap, t)
           a == Append(heap, t)
<1>1. heap \in Seq(Timers)
  BY DEF TypeOK
<1>2. a \in Seq(Timers)
  BY <1>1
<1>3. w = Heap!insert(heap, t)
  BY HeapOfTimers
<1>4. Heap!insert(heap, t) \in Seq(Timers)
      /\ Heap!Rearranged(Heap!insert(heap, t), a)
  BY <1>1, Heap!InsertKeepsAll
<1>5. w \in Seq(Timers) /\ Heap!Rearranged(w, a)
  BY <1>3, <1>4
<1> HIDE DEF w
<1>6. ASSUME NEW x
      PROVE  Cardinality(At(w, x)) =
               Cardinality(At(heap, x)) + (IF t = x THEN 1 ELSE 0)
  <2>1. Cardinality(At(a, x)) =
          Cardinality(At(heap, x)) + (IF t = x THEN 1 ELSE 0)
    BY <1>1, CountAppend
  <2> HIDE DEF a
  <2>2. Heap!Cardinality(Heap!At(w, x)) = Heap!Cardinality(Heap!At(a, x))
    BY <1>2, <1>5, Heap!CountRearranged
  <2>3. /\ Heap!Cardinality(Heap!At(w, x)) = Cardinality(At(w, x))
        /\ Heap!Cardinality(Heap!At(a, x)) = Cardinality(At(a, x))
    BY HeapOfTimers
  <2>4. QED
    BY <2>1, <2>2, <2>3
<1>7. {w[i] : i \in 1..Len(w)} = {heap[i] : i \in 1..Len(heap)} \cup {t}
  <2>1. {a[i] : i \in 1..Len(a)} = {heap[i] : i \in 1..Len(heap)} \cup {t}
    <3>1. Len(a) = Len(heap) + 1 /\ a[Len(heap) + 1] = t /\ Len(heap) \in Nat
          /\ \A i \in 1..Len(heap) : a[i] = heap[i]
      BY <1>1
    <3> HIDE DEF a
    <3>2. 1..Len(a) = 1..Len(heap) \cup {Len(heap) + 1}
      BY <3>1
    <3>3. QED
      BY <3>1, <3>2
  <2> HIDE DEF a
  <2>2. {w[i] : i \in 1..Len(w)} = {a[i] : i \in 1..Len(a)}
    BY <1>2, <1>5, Heap!SameRearranged
  <2>3. QED
    BY <2>1, <2>2
<1>8. IsHeap(heap) => IsHeap(w)
  BY <1>1, <1>3, TimersAreOrdered, HeapOfTimers, Heap!InsertKeepsOrder
<1>9. QED
  BY <1>5, <1>6, <1>7, <1>8 DEF w

\* The top of the heap is taken out.
LEMMA TimerPopped ==
  ASSUME TypeOK, heap # <<>>
  PROVE  /\ top(heap) \in Timers
         /\ top(heap) \in {heap[i] : i \in 1..Len(heap)}
         /\ popTop(heap) \in Seq(Timers)
         /\ \A x : Cardinality(At(popTop(heap), x)) =
                     Cardinality(At(heap, x)) - (IF top(heap) = x THEN 1 ELSE 0)
         /\ IsHeap(heap) => IsHeap(popTop(heap))
<1> DEFINE w == popTop(heap)
           b == Tail(heap)
<1>1. heap \in Seq(Timers)
  BY DEF TypeOK
<1>2. b \in Seq(Timers) /\ 1 \in 1..Len(heap) /\ heap[1] \in Timers
      /\ Head(heap) = heap[1] /\ top(heap) = heap[1]
  BY <1>1 DEF top
<1>3. w = Heap!popTop(heap)
  BY HeapOfTimers
<1>4. Heap!popTop(heap) \in Seq(Timers)
      /\ Heap!Rearranged(Heap!popTop(heap), b)
  BY <1>1, Heap!PopKeepsAll
<1>5. w \in Seq(Timers) /\ Heap!Rearranged(w, b)
  BY <1>3, <1>4
<1> HIDE DEF w
<1>6. ASSUME NEW x
      PROVE  Cardinality(At(w, x)) =
               Cardinality(At(heap, x)) - (IF top(heap) = x THEN 1 ELSE 0)
  <2>1. Cardinality(At(b, x)) =
          Cardinality(At(heap, x)) - (IF Head(heap) = x THEN 1 ELSE 0)
    BY <1>1, CountTail
  <2> HIDE DEF b
  <2>2. Heap!Cardinality(Heap!At(w, x)) = Heap!Cardinality(Heap!At(b, x))
    BY <1>2, <1>5, Heap!CountRearranged
  <2>3. /\ Heap!Cardinality(Heap!At(w, x)) = Cardinality(At(w, x))
        /\ Heap!Cardinality(Heap!At(b, x)) = Cardinality(At(b, x))
    BY HeapOfTimers
  <2>4. QED
    BY <1>2, <2>1, <2>2, <2>3
<1>7. IsHeap(heap) => IsHeap(w)
  BY <1>1, <1>3, TimersAreOrdered, HeapOfTimers, Heap!PopKeepsOrder
<1>8. QED
  BY <1>2, <1>5, <1>6, <1>7 DEF w

\* The timer at the top of a heap expires first.
LEMMA TopExpiresFirst ==
  ASSUME TypeOK, NEW v \in Seq(Timers), IsHeap(v), NEW i \in 1..Len(v)
  PROVE  expiration[top(v)] <= expiration[v[i]]
<1>1. expiration \in [Timers -> Nat]
  BY DEF TypeOK
<1>2. ~timerCmpLessThan(v[i], top(v))
  BY <1>1, TimersAreOrdered, HeapOfTimers, Heap!TopIsLeast
<1>3. v[i] \in Timers /\ top(v) \in Timers
  BY DEF top
<1>4. expiration[v[i]] \in Nat /\ expiration[top(v)] \in Nat
  BY <1>1, <1>3
<1>5. QED
  BY <1>2, <1>4 DEF timerCmpLessThan

-----------------------------------------------------------------------------
(* The inductive invariant. *)

\* How many places a timer is in: the heap, the queue, the hands of handleRead().
Places(t) == Cardinality(At(heap, t)) + Cardinality(At(functors, F("add", t)))
               + (IF current = t THEN 1 ELSE 0)

\* A timer is in one place at most, in none before it is created, and in one
\* from then on until it is finished.
PlacesLegal ==
  \A t \in Timers :
    /\ Places(t) <= 1
    /\ t > created => Places(t) = 0
    /\ t <= created /\ Places(t) = 0 => disabled[t] \/ phase \in {"ended", "gone"}

\* handleRead() holds a timer while it runs it.
InHands == current # 0 <=> phase \in {"callback", "return"}

\* A timer that cannot be called any more does not repeat.
Finished ==
  \A t \in Timers :
    /\ t <= created /\ (disabled[t] \/ ~callback[t]) => interval[t] = 0
    /\ t > created => fired[t] = 0 /\ ~disabled[t]

\* Every functor is for a timer that was created.
QueuedAreCreated == \A i \in 1..Len(functors) : functors[i].timer <= created

\* What disable() returned for on the loop thread is disabled.
SilencedAreDisabled == \A t \in silenced : disabled[t]

\* The timerfd is armed for no later than the timer t.
CoveredBy(t) ==
  /\ countdown # Off
  /\ steps = 0 => countdown <= AtLeast(expiration[t] - now, 1)

\* Outside handleRead() the timerfd is armed for no later than any timer in the
\* heap, also while it is readable.
Covered ==
  ~Reading /\ phase \notin {"ended", "gone"} =>
    \A i \in 1..Len(heap) : CoveredBy(heap[i])

TimerInv ==
  /\ TypeOK /\ InHands /\ PlacesLegal /\ Finished /\ QueuedAreCreated
  /\ SilencedAreDisabled
  /\ IsHeap(heap) /\ Covered /\ NoDrift

\* The invariant holds in the initial states.
LEMMA TimerInvInit == Init => TimerInv
<1> SUFFICES ASSUME Init PROVE TimerInv
  OBVIOUS
<1>1. TypeOK
  <2>1. heap \in Seq(Timers) /\ functors \in Seq(Functor)
        /\ swapped \in 0..Len(functors)
    BY DEF Init
  <2>2. /\ expiration \in [Timers -> Nat] /\ interval \in [Timers -> Nat]
        /\ first \in [Timers -> Nat] /\ fired \in [Timers -> Nat]
        /\ disabled \in [Timers -> BOOLEAN] /\ callback \in [Timers -> BOOLEAN]
    BY DEF Init
  <2>3. /\ now \in 0..MaxTime /\ steps \in 0..MaxSteps /\ created \in 0..MaxTimers
        /\ readTime \in 0..MaxTime /\ current \in 0..MaxTimers
    BY TimerAssumption DEF Init
  <2>4. /\ countdown \in Nat \cup {Off} /\ silenced \subseteq Timers
        /\ phase \in Phase /\ ready \in BOOLEAN /\ quit \in BOOLEAN
    BY DEF Init, Phase
  <2>5. QED
    BY <2>1, <2>2, <2>3, <2>4 DEF TypeOK
<1>2. \A x : At(<<>>, x) = {}
  BY DEF At
<1>3. \A t \in Timers : Places(t) = 0
  <2>1. Cardinality({}) = 0
    BY FS_EmptySet
  <2>2. SUFFICES ASSUME NEW t \in Timers PROVE Places(t) = 0
    OBVIOUS
  <2>3. t # 0
    BY TimerAssumption DEF Timers
  <2>4. Cardinality(At(heap, t)) = 0 /\ Cardinality(At(functors, F("add", t))) = 0
    BY <1>2, <2>1 DEF Init
  <2>5. QED
    BY <2>3, <2>4 DEF Init, Places
<1>4. PlacesLegal
  BY <1>3, TimerAssumption DEF Init, PlacesLegal, Timers
<1>5. InHands /\ Finished /\ QueuedAreCreated /\ SilencedAreDisabled /\ NoDrift
  BY TimerAssumption DEF Init, InHands, Finished, QueuedAreCreated,
     SilencedAreDisabled, NoDrift,
     Timers
<1>6. Len(heap) = 0
  BY DEF Init
<1>7. IsHeap(heap) /\ Covered
  BY <1>6 DEF IsHeap, Covered
<1>8. QED
  BY <1>1, <1>4, <1>5, <1>7 DEF TimerInv

\* A functor can be queued.
LEMMA FunctorQueued ==
  ASSUME TypeOK, NEW op \in {"add", "disable", "update"}, NEW t \in Timers
  PROVE  /\ Append(functors, F(op, t)) \in Seq(Functor)
         /\ swapped \in 0..Len(Append(functors, F(op, t)))
<1>1. F(op, t) \in Functor
  BY DEF F, Functor
<1>2. functors \in Seq(Functor) /\ swapped \in 0..Len(functors)
  BY DEF TypeOK
<1>3. QED
  BY <1>1, <1>2

\* Where the loop thread is in the functors, there is one to run.
LEMMA FunctorToRun ==
  ASSUME TypeOK, swapped > 0
  PROVE  /\ functors # <<>> /\ Head(functors) = functors[1]
         /\ Head(functors).timer \in Timers
         /\ Tail(functors) \in Seq(Functor)
         /\ swapped - 1 \in 0..Len(Tail(functors))
<1>1. functors \in Seq(Functor) /\ swapped \in 0..Len(functors)
  BY DEF TypeOK
<1>2. Len(functors) \in Nat /\ Len(functors) > 0
  BY <1>1
<1>3. /\ functors # <<>> /\ Head(functors) = functors[1]
      /\ Head(functors) \in Functor
      /\ Tail(functors) \in Seq(Functor) /\ Len(Tail(functors)) = Len(functors) - 1
  BY <1>1, <1>2
<1>4. Head(functors).timer \in Timers
  BY <1>3 DEF Functor
<1>5. QED
  BY <1>1, <1>2, <1>3, <1>4

\* The types are kept.
LEMMA TypeStep ==
  ASSUME TypeOK, InHands, [Next]_vars PROVE TypeOK'
<1> USE TimerAssumption
       DEF clockVars, timerVars, loopVars, historyVars, Off, Phase
<1>1. ASSUME NEW u \in Users, NEW when \in Whens, NEW period \in Intervals,
             AddTimer(u, when, period)
      PROVE  TypeOK'
  <2>1. created' \in Timers /\ created' \in 0..MaxTimers
    BY <1>1 DEF AddTimer, Timers, TypeOK
  <2>2. functors' \in Seq(Functor) /\ swapped' \in 0..Len(functors')
    BY <1>1, <2>1, FunctorQueued DEF AddTimer
  <2>3. QED
    BY <1>1, <2>1, <2>2 DEF AddTimer, TypeOK
<1>2. ASSUME NEW u \in Users, NEW t \in Timers, disable(u, t) PROVE TypeOK'
  <2>1. CASE quit \/ u = "loop"
    <3>1. Silence(t) /\ UNCHANGED functors
      BY <1>2, <2>1 DEF disable
    <3>2. silenced' \subseteq Timers
      BY <1>2 DEF disable, TypeOK
    <3>3. QED
      BY <1>2, <3>1, <3>2 DEF disable, Silence, TypeOK
  <2>2. CASE ~(quit \/ u = "loop")
    <3>1. functors' \in Seq(Functor) /\ swapped' \in 0..Len(functors')
      BY <1>2, <2>2, FunctorQueued DEF disable
    <3>2. silenced' \subseteq Timers /\ UNCHANGED <<interval, disabled, callback>>
      BY <1>2, <2>2 DEF disable, TypeOK
    <3>3. QED
      BY <1>2, <3>1, <3>2 DEF disable, TypeOK
  <2>3. QED
    BY <2>1, <2>2
<1>3. ASSUME NEW u \in Users, NEW t \in Timers, updateCallback(u, t) PROVE TypeOK'
  <2>1. CASE u = "loop"
    BY <1>3, <2>1 DEF updateCallback, TypeOK
  <2>2. CASE u # "loop"
    <3>1. functors' \in Seq(Functor) /\ swapped' \in 0..Len(functors')
      BY <1>3, <2>2, FunctorQueued DEF updateCallback
    <3>2. QED
      BY <1>3, <2>2, <3>1 DEF updateCallback, TypeOK
  <2>3. QED
    BY <2>1, <2>2
<1>4. ASSUME NEW u \in Users, endLoop(u) PROVE TypeOK'
  BY <1>4 DEF endLoop, TypeOK
<1>5. ASSUME WhileNotQuit PROVE TypeOK'
  <2>1. functors' \in Seq(Functor) /\ swapped' \in 0..Len(functors')
    <3>1. /\ swapped' = 0 /\ functors \in Seq(Functor)
          /\ functors' = <<>> \/ functors' = functors
      BY <1>5 DEF WhileNotQuit, TypeOK
    <3>a. <<>> \in Seq(Functor)
      OBVIOUS
    <3>2. functors' \in Seq(Functor)
      BY <3>1, <3>a
    <3>3. Len(functors') \in Nat
      BY <3>2
    <3>4. QED
      BY <3>1, <3>2, <3>3
  <2>2. QED
    BY <1>5, <2>1 DEF WhileNotQuit, TypeOK
<1>6. ASSUME PollReturns PROVE TypeOK'
  BY <1>6 DEF PollReturns, TypeOK
<1>7. ASSUME PollReturnsForUser PROVE TypeOK'
  BY <1>7 DEF PollReturnsForUser, TypeOK
<1>8. ASSUME StartRead PROVE TypeOK'
  BY <1>8 DEF StartRead, TypeOK
<1>9. ASSUME RunTimer PROVE TypeOK'
  <2>1. heap # <<>>
    BY <1>9 DEF RunTimer, Expired
  <2>2. top(heap) \in Timers /\ popTop(heap) \in Seq(Timers)
    BY <2>1, TimerPopped
  <2>3. top(heap) \in 0..MaxTimers
    BY <2>2 DEF Timers
  <2>4. current' \in 0..MaxTimers /\ heap' \in Seq(Timers)
    BY <1>9, <2>2, <2>3 DEF RunTimer
  <2>5. \/ phase' = "callback" /\ fired' = [fired EXCEPT ![top(heap)] = @ + 1]
        \/ phase' = "return" /\ fired' = fired
    BY <1>9 DEF RunTimer
  <2>6. phase' \in Phase /\ fired' \in [Timers -> Nat]
    <3>1. [fired EXCEPT ![top(heap)] = @ + 1] \in [Timers -> Nat]
      BY <2>2 DEF TypeOK
    <3>2. QED
      BY <2>5, <3>1 DEF TypeOK
  <2>7. QED
    BY <1>9, <2>4, <2>6 DEF RunTimer, TypeOK
<1>10. ASSUME CallbackReturns PROVE TypeOK'
  BY <1>10 DEF CallbackReturns, TypeOK
<1>11. ASSUME Reload PROVE TypeOK'
  <2>1. current \in Timers
    BY <1>11 DEF Reload, InHands, Timers, TypeOK
  <2>2. functors' \in Seq(Functor) /\ swapped' \in 0..Len(functors')
    <3>1. CASE interval[current] > 0
      BY <1>11, <3>1, <2>1, FunctorQueued DEF Reload
    <3>2. CASE ~(interval[current] > 0)
      BY <1>11, <3>2 DEF Reload, TypeOK
    <3>3. QED
      BY <3>1, <3>2
  <2>3. expiration' \in [Timers -> Nat]
    BY <1>11, <2>1, SMTT(30) DEF Reload, TypeOK
  <2>4. disabled' \in [Timers -> BOOLEAN] /\ callback' \in [Timers -> BOOLEAN]
    <3>1. CASE interval[current] > 0
      BY <1>11, <3>1 DEF Reload, TypeOK
    <3>2. CASE ~(interval[current] > 0)
      BY <1>11, <3>2 DEF Reload, TypeOK
    <3>3. QED
      BY <3>1, <3>2
  <2>5. QED
    BY <1>11, <2>2, <2>3, <2>4, SMTT(30) DEF Reload, TypeOK
<1>12. ASSUME FinishRead PROVE TypeOK'
  <2>1. countdown' \in Nat \cup {Off}
    <3>1. CASE heap # <<>>
      <4>1. top(heap) \in Timers
        BY <3>1, TimerPopped
      <4>2. expiration[top(heap)] \in Nat /\ now \in Nat
        BY <4>1 DEF TypeOK
      <4>3. countdown' = AtLeast(expiration[top(heap)] - now, 1)
        BY <1>12, <3>1 DEF FinishRead, resetTimerfd, howMuchTimeFromNow
      <4>4. QED
        BY <4>2, <4>3 DEF AtLeast
    <3>2. CASE heap = <<>>
      BY <1>12, <3>2 DEF FinishRead, TypeOK
    <3>3. QED
      BY <3>1, <3>2
  <2>2. QED
    BY <1>12, <2>1 DEF FinishRead, TypeOK
<1>13. ASSUME StartPending PROVE TypeOK'
  <2>1. Len(functors) \in 0..Len(functors)
    BY DEF TypeOK
  <2>2. QED
    BY <1>13, <2>1 DEF StartPending, TypeOK
<1>14. ASSUME RunFunctor PROVE TypeOK'
  <2> DEFINE t == Head(functors).timer
  <2>1. /\ t \in Timers /\ functors' \in Seq(Functor)
        /\ swapped' \in 0..Len(functors')
    BY <1>14, FunctorToRun DEF RunFunctor
  <2>2. \/ addTimerInLoop(t)
        \/ Silence(t) /\ UNCHANGED <<heap, countdown>>
        \/ /\ callback' = [callback EXCEPT ![t] = TRUE]
           /\ UNCHANGED <<heap, countdown, interval, disabled>>
    BY <1>14 DEF RunFunctor
  <2> HIDE DEF t
  <2>3. heap' \in Seq(Timers)
    BY <2>1, <2>2, TimerInserted DEF addTimerInLoop, TypeOK
  <2>4. countdown' \in Nat \cup {Off}
    <3>1. expiration[t] \in Nat /\ now \in Nat
      BY <2>1 DEF TypeOK
    <3>2. countdown' = countdown \/ countdown' = AtLeast(expiration[t] - now, 1)
      BY <2>2 DEF addTimerInLoop, resetTimerfd, howMuchTimeFromNow
    <3>3. QED
      BY <3>1, <3>2 DEF AtLeast, TypeOK
  <2>5. /\ interval' \in [Timers -> Nat]
        /\ disabled' \in [Timers -> BOOLEAN] /\ callback' \in [Timers -> BOOLEAN]
    <3>1. CASE addTimerInLoop(t)
      BY <3>1 DEF addTimerInLoop, TypeOK
    <3>2. CASE Silence(t)
      BY <2>1, <3>2 DEF Silence, TypeOK
    <3>3. CASE callback' = [callback EXCEPT ![t] = TRUE]
               /\ UNCHANGED <<interval, disabled>>
      BY <2>1, <3>3 DEF TypeOK
    <3>4. QED
      BY <2>2, <3>1, <3>2, <3>3
  <2>6. QED
    BY <1>14, <2>1, <2>3, <2>4, <2>5 DEF RunFunctor, TypeOK
<1>15. ASSUME DestroyTimerQueue PROVE TypeOK'
  <2> DEFINE live == {t \in {heap[i] : i \in 1..Len(heap)} : ~disabled[t]}
  <2>a. /\ interval' = [t \in Timers |-> IF t \in live THEN 0 ELSE interval[t]]
        /\ disabled' = [t \in Timers |-> disabled[t] \/ t \in live]
        /\ callback' = [t \in Timers |-> callback[t] /\ t \notin live]
        /\ heap' = <<>>
    BY <1>15 DEF DestroyTimerQueue
  <2> HIDE DEF live
  <2>b. disabled' \in [Timers -> BOOLEAN] /\ callback' \in [Timers -> BOOLEAN]
    BY <2>a
  <2>1. /\ interval' \in [Timers -> Nat] /\ heap' = <<>>
        /\ disabled' \in [Timers -> BOOLEAN]
        /\ callback' \in [Timers -> BOOLEAN]
    BY <2>a, <2>b DEF TypeOK
  <2>2. QED
    BY <1>15, <2>1 DEF DestroyTimerQueue, TypeOK
<1>16. ASSUME Tick PROVE TypeOK'
  BY <1>16 DEF Tick, TypeOK
<1>17. ASSUME SetClock PROVE TypeOK'
  BY <1>17 DEF SetClock, TypeOK
<1>18. ASSUME UNCHANGED vars PROVE TypeOK'
  BY <1>18 DEF vars, TypeOK
<1>19. QED
  BY <1>1, <1>2, <1>3, <1>4, <1>5, <1>6, <1>7, <1>8, <1>9,
     <1>10, <1>11, <1>12, <1>13, <1>14, <1>15, <1>16, <1>17, <1>18, ZenonT(60)
     DEF Next, Use, LoopStep, CanCall, AddTimer, disable, updateCallback, endLoop

\* handleRead() holds a timer exactly while it runs it.
LEMMA HandsStep ==
  ASSUME TypeOK, InHands, [Next]_vars PROVE InHands'
<1> USE DEF clockVars, timerVars, loopVars, historyVars
<1> USE DEF InHands
<1>1. ASSUME NEW u \in Users, NEW when \in Whens, NEW period \in Intervals,
             AddTimer(u, when, period)
      PROVE  InHands'
  BY <1>1 DEF AddTimer
<1>2. ASSUME NEW u \in Users, NEW t \in Timers, disable(u, t) PROVE InHands'
  BY <1>2 DEF disable
<1>3. ASSUME NEW u \in Users, NEW t \in Timers, updateCallback(u, t) PROVE InHands'
  BY <1>3 DEF updateCallback
<1>4. ASSUME NEW u \in Users, endLoop(u) PROVE InHands'
  BY <1>4 DEF endLoop
<1>5. ASSUME WhileNotQuit PROVE InHands'
  BY <1>5 DEF WhileNotQuit
<1>6. ASSUME PollReturns PROVE InHands'
  BY <1>6 DEF PollReturns
<1>7. ASSUME PollReturnsForUser PROVE InHands'
  BY <1>7 DEF PollReturnsForUser
<1>8. ASSUME StartRead PROVE InHands'
  BY <1>8 DEF StartRead
<1>9. ASSUME RunTimer PROVE InHands'
  <2>1. heap # <<>>
    BY <1>9 DEF RunTimer, Expired
  <2>2. top(heap) # 0
    BY <2>1, TimerPopped DEF Timers
  <2>3. QED
    BY <1>9, <2>2 DEF RunTimer
<1>10. ASSUME CallbackReturns PROVE InHands'
  BY <1>10 DEF CallbackReturns
<1>11. ASSUME Reload PROVE InHands'
  BY <1>11 DEF Reload
<1>12. ASSUME FinishRead PROVE InHands'
  BY <1>12 DEF FinishRead
<1>13. ASSUME StartPending PROVE InHands'
  BY <1>13 DEF StartPending
<1>14. ASSUME RunFunctor PROVE InHands'
  BY <1>14 DEF RunFunctor
<1>15. ASSUME DestroyTimerQueue PROVE InHands'
  BY <1>15 DEF DestroyTimerQueue
<1>16. ASSUME Tick PROVE InHands'
  BY <1>16 DEF Tick
<1>17. ASSUME SetClock PROVE InHands'
  BY <1>17 DEF SetClock
<1>18. ASSUME UNCHANGED vars PROVE InHands'
  BY <1>18 DEF vars
<1>19. QED
  BY <1>1, <1>2, <1>3, <1>4, <1>5, <1>6, <1>7, <1>8, <1>9,
     <1>10, <1>11, <1>12, <1>13, <1>14, <1>15, <1>16, <1>17, <1>18, ZenonT(60)
     DEF Next, Use, LoopStep, CanCall, AddTimer, disable, updateCallback, endLoop

\* What was disabled on the loop thread stays disabled.
LEMMA SilencedStep ==
  ASSUME TypeOK, SilencedAreDisabled, [Next]_vars PROVE SilencedAreDisabled'
<1> USE DEF clockVars, timerVars, loopVars, historyVars
<1> USE DEF SilencedAreDisabled
<1>1. ASSUME NEW u \in Users, NEW when \in Whens, NEW period \in Intervals,
             AddTimer(u, when, period)
      PROVE  SilencedAreDisabled'
  BY <1>1 DEF AddTimer
<1>2. ASSUME NEW u \in Users, NEW t \in Timers, disable(u, t) PROVE SilencedAreDisabled'
  <2>1. CASE u = "loop"
    BY <1>2, <2>1 DEF disable, Silence, TypeOK
  <2>2. CASE u # "loop"
    <3>1. disabled' = disabled \/ disabled' = [disabled EXCEPT ![t] = TRUE]
      BY <1>2 DEF disable, Silence
    <3>2. silenced' = silenced
      BY <1>2, <2>2 DEF disable
    <3>3. QED
      BY <3>1, <3>2 DEF TypeOK
  <2>3. QED
    BY <2>1, <2>2
<1>3. ASSUME NEW u \in Users, NEW t \in Timers, updateCallback(u, t) PROVE SilencedAreDisabled'
  BY <1>3 DEF updateCallback
<1>4. ASSUME NEW u \in Users, endLoop(u) PROVE SilencedAreDisabled'
  BY <1>4 DEF endLoop
<1>5. ASSUME WhileNotQuit PROVE SilencedAreDisabled'
  BY <1>5 DEF WhileNotQuit
<1>6. ASSUME PollReturns PROVE SilencedAreDisabled'
  BY <1>6 DEF PollReturns
<1>7. ASSUME PollReturnsForUser PROVE SilencedAreDisabled'
  BY <1>7 DEF PollReturnsForUser
<1>8. ASSUME StartRead PROVE SilencedAreDisabled'
  BY <1>8 DEF StartRead
<1>9. ASSUME RunTimer PROVE SilencedAreDisabled'
  BY <1>9 DEF RunTimer
<1>10. ASSUME CallbackReturns PROVE SilencedAreDisabled'
  BY <1>10 DEF CallbackReturns
<1>11. ASSUME Reload PROVE SilencedAreDisabled'
  <2>1. disabled' = disabled \/ disabled' = [disabled EXCEPT ![current] = TRUE]
    BY <1>11 DEF Reload
  <2>2. silenced' = silenced
    BY <1>11 DEF Reload
  <2>3. QED
    BY <2>1, <2>2 DEF TypeOK
<1>12. ASSUME FinishRead PROVE SilencedAreDisabled'
  BY <1>12 DEF FinishRead
<1>13. ASSUME StartPending PROVE SilencedAreDisabled'
  BY <1>13 DEF StartPending
<1>14. ASSUME RunFunctor PROVE SilencedAreDisabled'
  <2> DEFINE t == Head(functors).timer
  <2>1. disabled' = disabled \/ disabled' = [disabled EXCEPT ![t] = TRUE]
    BY <1>14 DEF RunFunctor, addTimerInLoop, Silence
  <2>2. silenced' = silenced
    BY <1>14 DEF RunFunctor
  <2>3. QED
    BY <2>1, <2>2 DEF TypeOK
<1>15. ASSUME DestroyTimerQueue PROVE SilencedAreDisabled'
  <2> DEFINE live == {t \in {heap[i] : i \in 1..Len(heap)} : ~disabled[t]}
  <2>1. /\ disabled' = [t \in Timers |-> disabled[t] \/ t \in live]
        /\ silenced' = silenced
    BY <1>15 DEF DestroyTimerQueue
  <2> HIDE DEF live
  <2>2. QED
    BY <2>1 DEF TypeOK
<1>16. ASSUME Tick PROVE SilencedAreDisabled'
  BY <1>16 DEF Tick
<1>17. ASSUME SetClock PROVE SilencedAreDisabled'
  BY <1>17 DEF SetClock
<1>18. ASSUME UNCHANGED vars PROVE SilencedAreDisabled'
  BY <1>18 DEF vars
<1>19. QED
  BY <1>1, <1>2, <1>3, <1>4, <1>5, <1>6, <1>7, <1>8, <1>9,
     <1>10, <1>11, <1>12, <1>13, <1>14, <1>15, <1>16, <1>17, <1>18, ZenonT(60)
     DEF Next, Use, LoopStep, CanCall, AddTimer, disable, updateCallback, endLoop

\* A timer that is anywhere was created.
LEMMA PlacedIsCreated ==
  ASSUME TypeOK, PlacesLegal
  PROVE  /\ \A i \in 1..Len(heap) : heap[i] <= created
         /\ current \in Timers => current <= created
         /\ \A t \in Timers : /\ Cardinality(At(heap, t)) \in Nat
                              /\ Cardinality(At(functors, F("add", t))) \in Nat
                              /\ Places(t) \in Nat
<1>1. heap \in Seq(Timers) /\ functors \in Seq(Functor) /\ created \in Int
      /\ Timers \subseteq Int
  BY DEF TypeOK, Timers
<1>2. ASSUME NEW t \in Timers
      PROVE  /\ Cardinality(At(heap, t)) \in Nat
             /\ Cardinality(At(functors, F("add", t))) \in Nat
             /\ Places(t) \in Nat
  BY <1>1, CountType DEF Places
<1>3. ASSUME NEW i \in 1..Len(heap) PROVE heap[i] <= created
  <2>1. heap[i] \in Timers
    BY <1>1
  <2>2. Cardinality(At(heap, heap[i])) >= 1
    BY <1>1, CountMember
  <2>3. Places(heap[i]) # 0
    BY <1>2, <2>1, <2>2 DEF Places
  <2>4. ~(heap[i] > created)
    BY <2>1, <2>3 DEF PlacesLegal
  <2>5. heap[i] \in Int
    BY <1>1, <2>1
  <2>6. QED
    BY <1>1, <2>4, <2>5
<1>4. ASSUME current \in Timers PROVE current <= created
  <2>1. Places(current) # 0
    BY <1>2, <1>4 DEF Places
  <2>2. QED
    BY <1>1, <1>4, <2>1 DEF PlacesLegal
<1>5. QED
  BY <1>2, <1>3, <1>4

\* A functor for a timer that was created is appended.
LEMMA QueuedAppended ==
  ASSUME TypeOK, QueuedAreCreated, NEW op, NEW t \in Int,
         functors' = Append(functors, F(op, t)), created' \in Int,
         created <= created', t <= created'
  PROVE  QueuedAreCreated'
<1>1. functors \in Seq(Functor) /\ created \in Int
  BY DEF TypeOK
<1>2. ASSUME NEW i \in 1..Len(functors') PROVE functors'[i].timer <= created'
  <2>1. CASE i = Len(functors) + 1
    <3>1. functors'[i] = F(op, t)
      BY <1>1, <2>1
    <3>2. QED
      BY <3>1 DEF F
  <2>2. CASE i # Len(functors) + 1
    <3>1. i \in 1..Len(functors) /\ functors'[i] = functors[i]
      BY <1>1, <2>2
    <3>2. functors[i] \in Functor
      BY <1>1, <3>1
    <3>3. functors[i].timer \in Int /\ functors[i].timer <= created
      BY <3>1, <3>2 DEF QueuedAreCreated, Functor, Timers
    <3>4. QED
      BY <1>1, <3>1, <3>3
  <2>3. QED
    BY <2>1, <2>2
<1>3. QED
  BY <1>2 DEF QueuedAreCreated

\* A functor is queued for a timer that was created.
LEMMA QueuedStep ==
  ASSUME TypeOK, InHands, PlacesLegal, QueuedAreCreated, [Next]_vars PROVE QueuedAreCreated'
<1> USE DEF clockVars, timerVars, loopVars, historyVars
<1>a. created \in Int
  BY DEF TypeOK
<1>1. ASSUME NEW u \in Users, NEW when \in Whens, NEW period \in Intervals,
             AddTimer(u, when, period)
      PROVE  QueuedAreCreated'
  <2>1. /\ functors' = Append(functors, F("add", created'))
        /\ created' = created + 1
    BY <1>1 DEF AddTimer
  <2>2. QED
    BY <1>a, <2>1, QueuedAppended
<1>2. ASSUME NEW u \in Users, NEW t \in Timers, disable(u, t) PROVE QueuedAreCreated'
  <2>1. created' = created /\ t <= created /\ t \in Int
    BY <1>2 DEF disable, Timers
  <2>2. CASE functors' = functors
    BY <2>1, <2>2 DEF QueuedAreCreated
  <2>3. CASE functors' = Append(functors, F("disable", t))
    BY <1>a, <2>1, <2>3, QueuedAppended
  <2>4. QED
    BY <1>2, <2>2, <2>3 DEF disable
<1>3. ASSUME NEW u \in Users, NEW t \in Timers, updateCallback(u, t) PROVE QueuedAreCreated'
  <2>1. created' = created /\ t <= created /\ t \in Int
    BY <1>3 DEF updateCallback, Timers
  <2>2. CASE functors' = functors
    BY <2>1, <2>2 DEF QueuedAreCreated
  <2>3. CASE functors' = Append(functors, F("update", t))
    BY <1>a, <2>1, <2>3, QueuedAppended
  <2>4. QED
    BY <1>3, <2>2, <2>3 DEF updateCallback
<1>4. ASSUME NEW u \in Users, endLoop(u) PROVE QueuedAreCreated'
  BY <1>4 DEF endLoop, QueuedAreCreated
<1>5. ASSUME WhileNotQuit PROVE QueuedAreCreated'
  <2>1. created' = created /\ (functors' = functors \/ functors' = <<>>)
    BY <1>5 DEF WhileNotQuit
  <2>2. Len(<<>>) = 0
    OBVIOUS
  <2>3. QED
    BY <2>1, <2>2 DEF QueuedAreCreated
<1>6. ASSUME PollReturns PROVE QueuedAreCreated'
  BY <1>6 DEF PollReturns, QueuedAreCreated
<1>7. ASSUME PollReturnsForUser PROVE QueuedAreCreated'
  BY <1>7 DEF PollReturnsForUser, QueuedAreCreated
<1>8. ASSUME StartRead PROVE QueuedAreCreated'
  BY <1>8 DEF StartRead, QueuedAreCreated
<1>9. ASSUME RunTimer PROVE QueuedAreCreated'
  BY <1>9 DEF RunTimer, QueuedAreCreated
<1>10. ASSUME CallbackReturns PROVE QueuedAreCreated'
  BY <1>10 DEF CallbackReturns, QueuedAreCreated
<1>11. ASSUME Reload PROVE QueuedAreCreated'
  <2>1. created' = created /\ current \in Timers /\ current \in Int
    BY <1>11 DEF Reload, InHands, TypeOK, Timers
  <2>2. current <= created
    BY <2>1, PlacedIsCreated
  <2>3. CASE functors' = functors
    BY <2>1, <2>3 DEF QueuedAreCreated
  <2>4. CASE functors' = Append(functors, F("add", current))
    BY <1>a, <2>1, <2>2, <2>4, QueuedAppended
  <2>5. QED
    BY <1>11, <2>3, <2>4 DEF Reload
<1>12. ASSUME FinishRead PROVE QueuedAreCreated'
  BY <1>12 DEF FinishRead, QueuedAreCreated
<1>13. ASSUME StartPending PROVE QueuedAreCreated'
  BY <1>13 DEF StartPending, QueuedAreCreated
<1>14. ASSUME RunFunctor PROVE QueuedAreCreated'
  <2>1. functors' = Tail(functors) /\ created' = created
    BY <1>14 DEF RunFunctor
  <2>2. functors \in Seq(Functor) /\ functors # <<>>
    BY <1>14, FunctorToRun DEF RunFunctor, TypeOK
  <2>3. Len(functors') = Len(functors) - 1
        /\ \A i \in 1..Len(functors') : functors'[i] = functors[i + 1]
    BY <2>1, <2>2
  <2>4. QED
    BY <2>1, <2>2, <2>3 DEF QueuedAreCreated
<1>15. ASSUME DestroyTimerQueue PROVE QueuedAreCreated'
  BY <1>15 DEF DestroyTimerQueue, QueuedAreCreated
<1>16. ASSUME Tick PROVE QueuedAreCreated'
  BY <1>16 DEF Tick, QueuedAreCreated
<1>17. ASSUME SetClock PROVE QueuedAreCreated'
  BY <1>17 DEF SetClock, QueuedAreCreated
<1>18. ASSUME UNCHANGED vars PROVE QueuedAreCreated'
  BY <1>18 DEF vars, QueuedAreCreated
<1>19. QED
  BY <1>1, <1>2, <1>3, <1>4, <1>5, <1>6, <1>7, <1>8, <1>9,
     <1>10, <1>11, <1>12, <1>13, <1>14, <1>15, <1>16, <1>17, <1>18, ZenonT(60)
     DEF Next, Use, LoopStep, CanCall, AddTimer, disable, updateCallback, endLoop

\* Timers stay finished where no flag of a repeating timer is changed.
LEMMA FinishedKept ==
  ASSUME Finished, created' = created,
         \A t \in Timers : t <= created /\ interval'[t] # 0 =>
           /\ interval'[t] = interval[t]
           /\ disabled'[t] => disabled[t]
           /\ callback[t] => callback'[t],
         \A t \in Timers : t > created =>
           fired'[t] = fired[t] /\ (disabled'[t] => disabled[t])
  PROVE  Finished'
BY DEF Finished

\* Silencing a timer finishes it.
LEMMA SilenceFinishes ==
  ASSUME TypeOK, Finished, NEW t \in Timers, t <= created, Silence(t),
         UNCHANGED <<created, fired>>
  PROVE  Finished'
<1>1. /\ interval' = [interval EXCEPT ![t] = 0]
      /\ disabled' = [disabled EXCEPT ![t] = TRUE]
      /\ callback' = [callback EXCEPT ![t] = FALSE]
  BY DEF Silence
<1>2. ASSUME NEW x \in Timers, x <= created, interval'[x] # 0
      PROVE  /\ interval'[x] = interval[x]
             /\ disabled'[x] => disabled[x]
             /\ callback[x] => callback'[x]
  BY <1>1, <1>2 DEF TypeOK
<1>3. ASSUME NEW x \in Timers, x > created
      PROVE  fired'[x] = fired[x] /\ (disabled'[x] => disabled[x])
  BY <1>1, <1>3 DEF TypeOK, Timers
<1>4. QED
  BY <1>2, <1>3, FinishedKept

\* A timer that cannot be called any more does not repeat.
LEMMA FinishedStep ==
  ASSUME TypeOK, InHands, PlacesLegal, QueuedAreCreated, Finished, [Next]_vars PROVE Finished'
<1> USE DEF clockVars, timerVars, loopVars, historyVars
<1>1. ASSUME NEW u \in Users, NEW when \in Whens, NEW period \in Intervals,
             AddTimer(u, when, period)
      PROVE  Finished'
  <2>1. created' = created + 1 /\ created' \in Timers
    BY <1>1, TimerAssumption DEF AddTimer, Timers, TypeOK
  <2>2. /\ interval' = [interval EXCEPT ![created'] = period]
        /\ callback' = [callback EXCEPT ![created'] = TRUE]
        /\ UNCHANGED <<fired, disabled>>
    BY <1>1 DEF AddTimer
  <2>3. ~disabled[created'] /\ created \in Int
    BY <2>1 DEF TypeOK, Finished
  <2>4. ASSUME NEW t \in Timers, t <= created', disabled'[t] \/ ~callback'[t]
        PROVE  interval'[t] = 0
    <3>1. t # created'
      BY <2>1, <2>2, <2>3, <2>4 DEF TypeOK
    <3>2. t <= created
      BY <2>1, <2>3, <2>4, <3>1 DEF Timers
    <3>3. (disabled[t] \/ ~callback[t]) /\ interval'[t] = interval[t]
      BY <2>1, <2>2, <2>4, <3>1 DEF TypeOK
    <3>4. QED
      BY <3>2, <3>3 DEF Finished
  <2>5. ASSUME NEW t \in Timers, t > created'
        PROVE  fired'[t] = 0 /\ ~disabled'[t]
    <3>1. t > created
      BY <2>1, <2>3, <2>5 DEF Timers
    <3>2. QED
      BY <2>2, <3>1 DEF Finished
  <2>6. QED
    BY <2>4, <2>5 DEF Finished
<1>2. ASSUME NEW u \in Users, NEW t \in Timers, disable(u, t) PROVE Finished'
  <2>1. \/ Silence(t)
        \/ UNCHANGED <<interval, disabled, callback>>
    BY <1>2 DEF disable
  <2>2. UNCHANGED <<created, fired>> /\ t <= created
    BY <1>2 DEF disable
  <2>3. CASE UNCHANGED <<interval, disabled, callback>>
    BY <2>2, <2>3 DEF Finished
  <2>4. QED
    BY <2>1, <2>2, <2>3, SilenceFinishes
<1>3. ASSUME NEW u \in Users, NEW t \in Timers, updateCallback(u, t) PROVE Finished'
  <2>1. UNCHANGED <<created, fired, interval, disabled>>
        /\ (callback' = callback \/ callback' = [callback EXCEPT ![t] = TRUE])
    BY <1>3 DEF updateCallback
  <2>2. \A x \in Timers : callback[x] => callback'[x]
    BY <2>1 DEF TypeOK
  <2>3. QED
    BY <2>1, <2>2, FinishedKept
<1>4. ASSUME NEW u \in Users, endLoop(u) PROVE Finished'
  BY <1>4 DEF endLoop, Finished
<1>5. ASSUME WhileNotQuit PROVE Finished'
  BY <1>5 DEF WhileNotQuit, Finished
<1>6. ASSUME PollReturns PROVE Finished'
  BY <1>6 DEF PollReturns, Finished
<1>7. ASSUME PollReturnsForUser PROVE Finished'
  BY <1>7 DEF PollReturnsForUser, Finished
<1>8. ASSUME StartRead PROVE Finished'
  BY <1>8 DEF StartRead, Finished
<1>9. ASSUME RunTimer PROVE Finished'
  <2> DEFINE t == top(heap)
  <2>1. heap # <<>>
    BY <1>9 DEF RunTimer, Expired
  <2>2. t \in Timers /\ t <= created
    BY <2>1, TimerPopped, PlacedIsCreated
  <2>3. UNCHANGED <<created, interval, disabled, callback>>
        /\ (fired' = fired \/ fired' = [fired EXCEPT ![t] = @ + 1])
    BY <1>9 DEF RunTimer
  <2> HIDE DEF t
  <2>4. ASSUME NEW x \in Timers, x > created PROVE fired'[x] = fired[x]
    <3>1. x # t
      BY <2>2, <2>4 DEF TypeOK, Timers
    <3>2. QED
      BY <2>3, <3>1 DEF TypeOK
  <2>5. QED
    BY <2>3, <2>4, FinishedKept
<1>10. ASSUME CallbackReturns PROVE Finished'
  BY <1>10 DEF CallbackReturns, Finished
<1>11. ASSUME Reload PROVE Finished'
  <2>1. current \in Timers /\ current <= created
    BY <1>11, PlacedIsCreated DEF Reload, InHands, TypeOK, Timers
  <2>2. UNCHANGED <<created, fired, interval>>
    BY <1>11 DEF Reload
  <2>3. CASE UNCHANGED <<disabled, callback>>
    BY <2>2, <2>3 DEF Finished
  <2>4. CASE ~(UNCHANGED <<disabled, callback>>)
    <3>1. /\ interval[current] = 0
          /\ disabled' = [disabled EXCEPT ![current] = TRUE]
          /\ callback' = [callback EXCEPT ![current] = FALSE]
      BY <1>11, <2>1, <2>4 DEF Reload, TypeOK
    <3>2. Silence(current)
      BY <2>1, <2>2, <3>1 DEF Silence, TypeOK
    <3>3. QED
      BY <2>1, <2>2, <3>2, SilenceFinishes
  <2>5. QED
    BY <2>3, <2>4
<1>12. ASSUME FinishRead PROVE Finished'
  BY <1>12 DEF FinishRead, Finished
<1>13. ASSUME StartPending PROVE Finished'
  BY <1>13 DEF StartPending, Finished
<1>14. ASSUME RunFunctor PROVE Finished'
  <2> DEFINE t == Head(functors).timer
  <2>1. t \in Timers /\ t <= created
    <3>1. t \in Timers /\ Head(functors) = functors[1] /\ functors # <<>>
      BY <1>14, FunctorToRun DEF RunFunctor
    <3>2. 1 \in 1..Len(functors)
      BY <3>1 DEF TypeOK
    <3>3. QED
      BY <3>1, <3>2 DEF QueuedAreCreated
  <2>2. \/ UNCHANGED <<interval, disabled, callback>>
        \/ Silence(t)
        \/ /\ callback' = [callback EXCEPT ![t] = TRUE]
           /\ UNCHANGED <<interval, disabled>>
    BY <1>14 DEF RunFunctor, addTimerInLoop
  <2>3. UNCHANGED <<created, fired>>
    BY <1>14 DEF RunFunctor
  <2> HIDE DEF t
  <2>4. CASE UNCHANGED <<interval, disabled, callback>>
    BY <2>3, <2>4 DEF Finished
  <2>5. CASE callback' = [callback EXCEPT ![t] = TRUE]
             /\ UNCHANGED <<interval, disabled>>
    <3>1. \A x \in Timers : callback[x] => callback'[x]
      BY <2>5 DEF TypeOK
    <3>2. QED
      BY <2>3, <2>5, <3>1, FinishedKept
  <2>6. QED
    BY <2>1, <2>2, <2>3, <2>4, <2>5, SilenceFinishes
<1>15. ASSUME DestroyTimerQueue PROVE Finished'
  <2> DEFINE live == {t \in {heap[i] : i \in 1..Len(heap)} : ~disabled[t]}
  <2>1. /\ interval' = [t \in Timers |-> IF t \in live THEN 0 ELSE interval[t]]
        /\ disabled' = [t \in Timers |-> disabled[t] \/ t \in live]
        /\ callback' = [t \in Timers |-> callback[t] /\ t \notin live]
        /\ UNCHANGED <<created, fired>>
    BY <1>15 DEF DestroyTimerQueue
  <2>2. ASSUME NEW t \in live PROVE t \in Timers /\ t <= created
    <3>1. PICK i \in 1..Len(heap) : t = heap[i]
      OBVIOUS
    <3>2. heap[i] \in Timers
      BY DEF TypeOK
    <3>3. heap[i] <= created
      BY PlacedIsCreated
    <3>4. QED
      BY <3>1, <3>2, <3>3
  <2> HIDE DEF live
  <2>3. ASSUME NEW x \in Timers, interval'[x] # 0
        PROVE  /\ interval'[x] = interval[x]
               /\ disabled'[x] => disabled[x]
               /\ callback[x] => callback'[x]
    BY <2>1, <2>3
  <2>4. ASSUME NEW x \in Timers, x > created
        PROVE  disabled'[x] => disabled[x]
    <3>1. created \in Int /\ x \in Int
      BY DEF TypeOK, Timers
    <3>2. x \notin live
      BY <2>2, <2>4, <3>1
    <3>3. QED
      BY <2>1, <3>2
  <2>5. QED
    BY <2>1, <2>3, <2>4, FinishedKept
<1>16. ASSUME Tick PROVE Finished'
  BY <1>16 DEF Tick, Finished
<1>17. ASSUME SetClock PROVE Finished'
  BY <1>17 DEF SetClock, Finished
<1>18. ASSUME UNCHANGED vars PROVE Finished'
  BY <1>18 DEF vars, Finished
<1>19. QED
  BY <1>1, <1>2, <1>3, <1>4, <1>5, <1>6, <1>7, <1>8, <1>9,
     <1>10, <1>11, <1>12, <1>13, <1>14, <1>15, <1>16, <1>17, <1>18, ZenonT(60)
     DEF Next, Use, LoopStep, CanCall, AddTimer, disable, updateCallback, endLoop

-----------------------------------------------------------------------------
(* The places of a timer. *)

\* No place of any timer changes.
LEMMA SamePlaces ==
  ASSUME PlacesLegal, UNCHANGED <<heap, functors, current, created, phase>>,
         \A t \in Timers : disabled[t] => disabled'[t]
  PROVE  PlacesLegal'
<1>1. \A t : Places(t)' = Places(t)
  BY DEF Places
<1>2. QED
  BY <1>1 DEF PlacesLegal

\* What is appended to the queue of functors is queued once more.
LEMMA PlacesAppended ==
  ASSUME TypeOK, NEW op \in {"add", "disable", "update"}, NEW t \in Timers,
         NEW x \in Timers
  PROVE  Cardinality(At(Append(functors, F(op, t)), F("add", x))) =
           Cardinality(At(functors, F("add", x)))
             + (IF op = "add" /\ t = x THEN 1 ELSE 0)
<1>1. F(op, t) \in Functor /\ functors \in Seq(Functor)
  BY DEF F, Functor, TypeOK
<1>2. F(op, t) = F("add", x) <=> op = "add" /\ t = x
  BY DEF F
<1>3. QED
  BY <1>1, <1>2, CountAppend

\* A timer is in one place at a time.
LEMMA PlacesStep ==
  ASSUME TypeOK, InHands, PlacesLegal, Finished, [Next]_vars PROVE PlacesLegal'
<1> USE DEF clockVars, timerVars, loopVars, historyVars
<1>a. /\ created \in Int /\ Timers \subseteq Int
      /\ \A t \in Timers : /\ Cardinality(At(heap, t)) \in Nat
                           /\ Cardinality(At(functors, F("add", t))) \in Nat
  BY PlacedIsCreated DEF TypeOK, Timers
<1>1. ASSUME NEW u \in Users, NEW when \in Whens, NEW period \in Intervals,
             AddTimer(u, when, period)
      PROVE  PlacesLegal'
  <2>1. /\ created' = created + 1 /\ created' \in Timers
        /\ functors' = Append(functors, F("add", created'))
        /\ UNCHANGED <<heap, current, disabled, phase>>
    BY <1>1, TimerAssumption DEF AddTimer, Timers, TypeOK
  <2>2. ASSUME NEW x \in Timers
        PROVE  Places(x)' = Places(x) + (IF x = created' THEN 1 ELSE 0)
    BY <1>a, <2>1, PlacesAppended DEF Places
  <2>3. ASSUME NEW x \in Timers
        PROVE  /\ Places(x)' <= 1
               /\ x > created' => Places(x)' = 0
               /\ x <= created' /\ Places(x)' = 0 =>
                    disabled'[x] \/ phase' \in {"ended", "gone"}
    <3>1. Places(x) \in Nat /\ x \in Int
      BY <1>a, PlacedIsCreated
    <3>2. CASE x = created'
      BY <1>a, <2>1, <2>2, <3>1, <3>2 DEF PlacesLegal
    <3>3. CASE x # created'
      BY <1>a, <2>1, <2>2, <3>1, <3>3 DEF PlacesLegal
    <3>4. QED
      BY <3>2, <3>3
  <2>4. QED
    BY <2>3 DEF PlacesLegal
<1>2. ASSUME NEW u \in Users, NEW t \in Timers, disable(u, t) PROVE PlacesLegal'
  <2>1. UNCHANGED <<heap, current, created, phase>>
        /\ (functors' = functors \/ functors' = Append(functors, F("disable", t)))
    BY <1>2 DEF disable
  <2>2. disabled' = disabled \/ disabled' = [disabled EXCEPT ![t] = TRUE]
    BY <1>2 DEF disable, Silence
  <2>3. \A x \in Timers : disabled[x] => disabled'[x]
    BY <2>2 DEF TypeOK
  <2>4. ASSUME NEW x \in Timers PROVE Places(x)' = Places(x)
    <3>1. Cardinality(At(Append(functors, F("disable", t)), F("add", x))) =
            Cardinality(At(functors, F("add", x)))
      BY <1>a, PlacesAppended
    <3>2. Cardinality(At(functors, F("add", x)))' =
            Cardinality(At(functors, F("add", x)))
      BY <2>1, <3>1
    <3>3. QED
      BY <2>1, <3>2 DEF Places
  <2>5. QED
    BY <2>1, <2>3, <2>4 DEF PlacesLegal
<1>3. ASSUME NEW u \in Users, NEW t \in Timers, updateCallback(u, t) PROVE PlacesLegal'
  <2>1. UNCHANGED <<heap, current, created, phase, disabled>>
        /\ (functors' = functors \/ functors' = Append(functors, F("update", t)))
    BY <1>3 DEF updateCallback
  <2>2. ASSUME NEW x \in Timers PROVE Places(x)' = Places(x)
    <3>1. Cardinality(At(Append(functors, F("update", t)), F("add", x))) =
            Cardinality(At(functors, F("add", x)))
      BY <1>a, PlacesAppended
    <3>2. Cardinality(At(functors, F("add", x)))' =
            Cardinality(At(functors, F("add", x)))
      BY <2>1, <3>1
    <3>3. QED
      BY <2>1, <3>2 DEF Places
  <2>3. QED
    BY <2>1, <2>2 DEF PlacesLegal
<1>4. ASSUME NEW u \in Users, endLoop(u) PROVE PlacesLegal'
  BY <1>4, SamePlaces DEF endLoop
<1>5. ASSUME WhileNotQuit PROVE PlacesLegal'
  <2>1. UNCHANGED <<heap, current, created, disabled>>
    BY <1>5 DEF WhileNotQuit
  <2>2. CASE functors' = functors /\ phase' \notin {"ended", "gone"}
    <3>1. \A x : Places(x)' = Places(x)
      BY <2>1, <2>2 DEF Places
    <3>2. phase \notin {"ended", "gone"}
      BY <1>5 DEF WhileNotQuit
    <3>3. QED
      BY <2>1, <2>2, <3>1, <3>2 DEF PlacesLegal
  <2>3. CASE functors' = <<>> /\ phase' = "ended"
    <3>1. \A x : At(functors', x) = {}
      BY <2>3 DEF At
    <3>2. Cardinality({}) = 0
      BY FS_EmptySet
    <3>3. ASSUME NEW x \in Timers
          PROVE  Places(x)' <= Places(x) /\ Places(x)' \in Nat /\ Places(x) \in Nat
      <4>1. Cardinality(At(functors, F("add", x)))' = 0
        BY <3>1, <3>2
      <4>2. QED
        BY <1>a, <2>1, <4>1 DEF Places
    <3>4. QED
      BY <2>1, <2>3, <3>3 DEF PlacesLegal
  <2>4. QED
    BY <1>5, <2>2, <2>3 DEF WhileNotQuit
<1>6. ASSUME PollReturns PROVE PlacesLegal'
  <2>1. /\ UNCHANGED <<heap, functors, current, created, disabled>>
        /\ phase \notin {"ended", "gone"} /\ phase' \notin {"ended", "gone"}
    BY <1>6 DEF PollReturns
  <2>2. \A x : Places(x)' = Places(x)
    BY <2>1 DEF Places
  <2>3. QED
    BY <2>1, <2>2 DEF PlacesLegal
<1>7. ASSUME PollReturnsForUser PROVE PlacesLegal'
  <2>1. /\ UNCHANGED <<heap, functors, current, created, disabled>>
        /\ phase \notin {"ended", "gone"} /\ phase' \notin {"ended", "gone"}
    BY <1>7 DEF PollReturnsForUser
  <2>2. \A x : Places(x)' = Places(x)
    BY <2>1 DEF Places
  <2>3. QED
    BY <2>1, <2>2 DEF PlacesLegal
<1>8. ASSUME StartRead PROVE PlacesLegal'
  <2>1. /\ UNCHANGED <<heap, functors, current, created, disabled>>
        /\ phase \notin {"ended", "gone"} /\ phase' \notin {"ended", "gone"}
    BY <1>8 DEF StartRead
  <2>2. \A x : Places(x)' = Places(x)
    BY <2>1 DEF Places
  <2>3. QED
    BY <2>1, <2>2 DEF PlacesLegal
<1>9. ASSUME RunTimer PROVE PlacesLegal'
  <2> DEFINE t == top(heap)
  <2>1. heap # <<>> /\ heap' = popTop(heap) /\ current' = t
        /\ UNCHANGED <<functors, created, disabled>>
        /\ phase \notin {"ended", "gone"}
    BY <1>9 DEF RunTimer, Expired
  <2>2. t \in Timers /\ current = 0
    BY <1>9, <2>1, TimerPopped DEF RunTimer, InHands
  <2>3. ASSUME NEW x \in Timers PROVE Places(x)' = Places(x)
    <3>1. Cardinality(At(heap, x))' =
            Cardinality(At(heap, x)) - (IF t = x THEN 1 ELSE 0)
      BY <2>1, TimerPopped
    <3>2. x # 0
      BY DEF Timers
    <3> HIDE DEF t
    <3>3. QED
      BY <1>a, <2>1, <2>2, <3>1, <3>2 DEF Places
  <2>4. QED
    BY <2>1, <2>3 DEF PlacesLegal
<1>10. ASSUME CallbackReturns PROVE PlacesLegal'
  <2>1. /\ UNCHANGED <<heap, functors, current, created, disabled>>
        /\ phase \notin {"ended", "gone"} /\ phase' \notin {"ended", "gone"}
    BY <1>10 DEF CallbackReturns
  <2>2. \A x : Places(x)' = Places(x)
    BY <2>1 DEF Places
  <2>3. QED
    BY <2>1, <2>2 DEF PlacesLegal
<1>11. ASSUME Reload PROVE PlacesLegal'
  <2>1. current \in Timers /\ current' = 0 /\ current <= created
        /\ phase \notin {"ended", "gone"}
        /\ UNCHANGED <<heap, created>>
    BY <1>11, PlacedIsCreated DEF Reload, InHands, TypeOK, Timers
  <2>2. CASE interval[current] > 0
    <3>1. functors' = Append(functors, F("add", current)) /\ disabled' = disabled
      BY <1>11, <2>2 DEF Reload
    <3>2. ASSUME NEW x \in Timers PROVE Places(x)' = Places(x)
      <4>1. x # 0
        BY DEF Timers
      <4>2. Cardinality(At(functors, F("add", x)))' =
              Cardinality(At(functors, F("add", x)))
                + (IF current = x THEN 1 ELSE 0)
        BY <2>1, <3>1, PlacesAppended
      <4>3. QED
        BY <1>a, <2>1, <4>1, <4>2 DEF Places
    <3>3. QED
      BY <2>1, <3>1, <3>2 DEF PlacesLegal
  <2>3. CASE ~(interval[current] > 0)
    <3>1. functors' = functors /\ disabled' = [disabled EXCEPT ![current] = TRUE]
      BY <1>11, <2>3 DEF Reload
    <3>2. ASSUME NEW x \in Timers
          PROVE  Places(x)' = Places(x) - (IF current = x THEN 1 ELSE 0)
      <4>1. x # 0
        BY DEF Timers
      <4>2. QED
        BY <1>a, <2>1, <3>1, <4>1 DEF Places
    <3>3. ASSUME NEW x \in Timers
          PROVE  /\ Places(x)' <= 1
                 /\ x > created' => Places(x)' = 0
                 /\ x <= created' /\ Places(x)' = 0 =>
                      disabled'[x] \/ phase' \in {"ended", "gone"}
      <4>1. Places(x) \in Nat /\ x \in Int
        BY <1>a, PlacedIsCreated
      <4>2. CASE x = current
        BY <1>a, <2>1, <3>1, <3>2, <4>1, <4>2 DEF PlacesLegal, TypeOK
      <4>3. CASE x # current
        <5>1. Places(x)' = Places(x) /\ disabled'[x] = disabled[x]
          BY <3>1, <3>2, <4>1, <4>3 DEF TypeOK
        <5>2. QED
          BY <2>1, <5>1 DEF PlacesLegal
      <4>4. QED
        BY <4>2, <4>3
    <3>4. QED
      BY <3>3 DEF PlacesLegal
  <2>4. QED
    BY <2>2, <2>3
<1>12. ASSUME FinishRead PROVE PlacesLegal'
  <2>1. /\ UNCHANGED <<heap, functors, current, created, disabled>>
        /\ phase \notin {"ended", "gone"} /\ phase' \notin {"ended", "gone"}
    BY <1>12 DEF FinishRead
  <2>2. \A x : Places(x)' = Places(x)
    BY <2>1 DEF Places
  <2>3. QED
    BY <2>1, <2>2 DEF PlacesLegal
<1>13. ASSUME StartPending PROVE PlacesLegal'
  <2>1. /\ UNCHANGED <<heap, functors, current, created, disabled>>
        /\ phase \notin {"ended", "gone"} /\ phase' \notin {"ended", "gone"}
    BY <1>13 DEF StartPending
  <2>2. \A x : Places(x)' = Places(x)
    BY <2>1 DEF Places
  <2>3. QED
    BY <2>1, <2>2 DEF PlacesLegal
<1>14. ASSUME RunFunctor PROVE PlacesLegal'
  <2> DEFINE f == Head(functors)
             t == f.timer
  <2>1. /\ functors # <<>> /\ f = functors[1] /\ t \in Timers
        /\ functors \in Seq(Functor) /\ functors' = Tail(functors)
    BY <1>14, FunctorToRun DEF RunFunctor, TypeOK
  <2>2. UNCHANGED <<current, created, phase>> /\ phase = "pending"
    BY <1>14 DEF RunFunctor
  <2>3. \/ f.op = "add" /\ heap' = insert(heap, t) /\ UNCHANGED disabled
        \/ f.op = "disable" /\ disabled' = [disabled EXCEPT ![t] = TRUE]
           /\ UNCHANGED heap
        \/ f.op = "update" /\ UNCHANGED <<heap, disabled>>
    BY <1>14 DEF RunFunctor, addTimerInLoop, Silence
  <2>4. f \in Functor /\ \A x \in Timers : f = F("add", x) <=> f.op = "add" /\ t = x
    <3>1. f \in Functor
      BY <2>1
    <3>2. QED
      BY <3>1 DEF Functor, F
  <2> HIDE DEF f
  <2>5. ASSUME NEW x \in Timers PROVE Places(x)' = Places(x)
    <3>1. Cardinality(At(functors, F("add", x)))' =
            Cardinality(At(functors, F("add", x)))
              - (IF f = F("add", x) THEN 1 ELSE 0)
      BY <2>1, CountTail DEF f
    <3>2. Cardinality(At(heap, x))' =
            Cardinality(At(heap, x)) + (IF f.op = "add" /\ t = x THEN 1 ELSE 0)
      <4>1. CASE f.op = "add"
        <5>1. heap' = insert(heap, t)
          BY <2>3, <4>1
        <5>2. Cardinality(At(insert(heap, t), x)) =
                Cardinality(At(heap, x)) + (IF t = x THEN 1 ELSE 0)
          BY <2>1, TimerInserted
        <5>3. QED
          BY <4>1, <5>1, <5>2
      <4>2. CASE f.op # "add"
        BY <1>a, <2>3, <4>2
      <4>3. QED
        BY <4>1, <4>2
    <3>3. QED
      BY <1>a, <2>2, <2>4, <3>1, <3>2 DEF Places
  <2>6. \A x \in Timers : disabled[x] => disabled'[x]
    BY <2>1, <2>3 DEF TypeOK
  <2>7. QED
    BY <2>2, <2>5, <2>6 DEF PlacesLegal
<1>15. ASSUME DestroyTimerQueue PROVE PlacesLegal'
  <2>1. heap' = <<>> /\ phase' = "gone" /\ UNCHANGED <<functors, current, created>>
    BY <1>15 DEF DestroyTimerQueue
  <2>2. \A x : At(heap', x) = {}
    BY <2>1 DEF At
  <2>3. Cardinality({}) = 0
    BY FS_EmptySet
  <2>4. ASSUME NEW x \in Timers
        PROVE  Places(x)' <= Places(x) /\ Places(x)' \in Nat /\ Places(x) \in Nat
    <3>1. Cardinality(At(heap, x))' = 0
      BY <2>2, <2>3
    <3>2. QED
      BY <1>a, <2>1, <3>1 DEF Places
  <2>5. QED
    BY <2>1, <2>4 DEF PlacesLegal
<1>16. ASSUME Tick PROVE PlacesLegal'
  BY <1>16, SamePlaces DEF Tick
<1>17. ASSUME SetClock PROVE PlacesLegal'
  BY <1>17, SamePlaces DEF SetClock
<1>18. ASSUME UNCHANGED vars PROVE PlacesLegal'
  BY <1>18, SamePlaces DEF vars
<1>19. QED
  BY <1>1, <1>2, <1>3, <1>4, <1>5, <1>6, <1>7, <1>8, <1>9,
     <1>10, <1>11, <1>12, <1>13, <1>14, <1>15, <1>16, <1>17, <1>18, ZenonT(60)
     DEF Next, Use, LoopStep, CanCall, AddTimer, disable, updateCallback, endLoop

-----------------------------------------------------------------------------
(* The order of the heap, and the timerfd. *)

\* A vector in the order of a heap stays so while no timer in it is moved.
LEMMA OrderKept ==
  ASSUME NEW v \in Seq(Timers), IsHeap(v), heap' = v,
         \A i \in 1..Len(v) : expiration'[v[i]] = expiration[v[i]]
  PROVE  IsHeap(heap)'
<1> SUFFICES ASSUME NEW i \in 2..Len(v)
             PROVE  ~timerCmpLessThan(v[i], v[Parent(i)])'
  BY DEF IsHeap
<1>1. i \in 1..Len(v) /\ Parent(i) \in 1..Len(v)
  BY DEF Parent
<1>2. ~timerCmpLessThan(v[i], v[Parent(i)])
  BY DEF IsHeap
<1>3. /\ expiration'[v[i]] = expiration[v[i]]
      /\ expiration'[v[Parent(i)]] = expiration[v[Parent(i)]]
  BY <1>1
<1>4. QED
  BY <1>2, <1>3 DEF timerCmpLessThan

\* The heap stays a heap, for no timer in it is given another expiration.
LEMMA HeapStep ==
  ASSUME TypeOK, InHands, PlacesLegal, IsHeap(heap), [Next]_vars PROVE IsHeap(heap)'
<1> USE DEF clockVars, timerVars, loopVars, historyVars
<1>a. heap \in Seq(Timers) /\ expiration \in [Timers -> Nat] /\ created \in Int
  BY DEF TypeOK
<1>b. ASSUME UNCHANGED <<heap, expiration>> PROVE IsHeap(heap)'
  BY <1>a, <1>b, OrderKept
<1>1. ASSUME NEW u \in Users, NEW when \in Whens, NEW period \in Intervals,
             AddTimer(u, when, period)
      PROVE  IsHeap(heap)'
  <2>1. created' = created + 1 /\ heap' = heap
        /\ expiration' = [expiration EXCEPT ![created'] = when]
    BY <1>1 DEF AddTimer
  <2>2. ASSUME NEW i \in 1..Len(heap)
        PROVE  expiration'[heap[i]] = expiration[heap[i]]
    <3>1. heap[i] \in Timers /\ heap[i] <= created
      BY <1>a, PlacedIsCreated, SMTT(30)
    <3>2. heap[i] # created'
      BY <1>a, <2>1, <3>1 DEF Timers
    <3>3. QED
      BY <1>a, <2>1, <3>1, <3>2
  <2>3. QED
    BY <1>a, <2>1, <2>2, OrderKept
<1>2. ASSUME NEW u \in Users, NEW t \in Timers, disable(u, t) PROVE IsHeap(heap)'
  BY <1>b, <1>2 DEF disable
<1>3. ASSUME NEW u \in Users, NEW t \in Timers, updateCallback(u, t) PROVE IsHeap(heap)'
  BY <1>b, <1>3 DEF updateCallback
<1>4. ASSUME NEW u \in Users, endLoop(u) PROVE IsHeap(heap)'
  BY <1>b, <1>4 DEF endLoop
<1>5. ASSUME WhileNotQuit PROVE IsHeap(heap)'
  BY <1>b, <1>5 DEF WhileNotQuit
<1>6. ASSUME PollReturns PROVE IsHeap(heap)'
  BY <1>b, <1>6 DEF PollReturns
<1>7. ASSUME PollReturnsForUser PROVE IsHeap(heap)'
  BY <1>b, <1>7 DEF PollReturnsForUser
<1>8. ASSUME StartRead PROVE IsHeap(heap)'
  BY <1>b, <1>8 DEF StartRead
<1>9. ASSUME RunTimer PROVE IsHeap(heap)'
  <2>1. heap # <<>> /\ heap' = popTop(heap) /\ expiration' = expiration
    BY <1>9 DEF RunTimer, Expired
  <2>2. popTop(heap) \in Seq(Timers) /\ IsHeap(popTop(heap))
    BY <2>1, TimerPopped
  <2>3. QED
    BY <2>1, <2>2, OrderKept
<1>10. ASSUME CallbackReturns PROVE IsHeap(heap)'
  BY <1>b, <1>10 DEF CallbackReturns
<1>11. ASSUME Reload PROVE IsHeap(heap)'
  <2>1. current \in Timers /\ heap' = heap
        /\ (expiration' = expiration
            \/ expiration' = [expiration EXCEPT ![current] =
                                @ + interval[current]])
    BY <1>11 DEF Reload, InHands, TypeOK, Timers
  <2>2. ASSUME NEW i \in 1..Len(heap)
        PROVE  expiration'[heap[i]] = expiration[heap[i]]
    <3>1. heap[i] \in Timers
      BY <1>a
    <3>2. heap[i] # current
      <4>1. SUFFICES ASSUME heap[i] = current PROVE FALSE
        OBVIOUS
      <4>2. Cardinality(At(heap, heap[i])) >= 1
        BY <1>a, CountMember
      <4>3. /\ Cardinality(At(heap, current)) \in Nat
            /\ Cardinality(At(functors, F("add", current))) \in Nat
        BY <2>1, PlacedIsCreated
      <4>4. Places(current) >= 2
        BY <4>1, <4>2, <4>3 DEF Places
      <4>5. Places(current) <= 1 /\ Places(current) \in Nat
        BY <2>1, PlacedIsCreated DEF PlacesLegal
      <4>6. QED
        BY <4>4, <4>5
    <3>3. QED
      BY <1>a, <2>1, <3>1, <3>2
  <2>3. QED
    BY <1>a, <2>1, <2>2, OrderKept
<1>12. ASSUME FinishRead PROVE IsHeap(heap)'
  BY <1>b, <1>12 DEF FinishRead
<1>13. ASSUME StartPending PROVE IsHeap(heap)'
  BY <1>b, <1>13 DEF StartPending
<1>14. ASSUME RunFunctor PROVE IsHeap(heap)'
  <2> DEFINE t == Head(functors).timer
  <2>1. t \in Timers
    BY <1>14, FunctorToRun DEF RunFunctor
  <2>2. expiration' = expiration /\ (heap' = heap \/ heap' = insert(heap, t))
    BY <1>14 DEF RunFunctor, addTimerInLoop
  <2>3. insert(heap, t) \in Seq(Timers) /\ IsHeap(insert(heap, t))
    BY <2>1, TimerInserted
  <2> HIDE DEF t
  <2>4. CASE heap' = insert(heap, t)
    BY <2>2, <2>3, <2>4, OrderKept
  <2>5. QED
    BY <1>b, <2>2, <2>4
<1>15. ASSUME DestroyTimerQueue PROVE IsHeap(heap)'
  <2>1. heap' = <<>>
    BY <1>15 DEF DestroyTimerQueue
  <2>2. Len(<<>>) = 0
    OBVIOUS
  <2>3. QED
    BY <2>1, <2>2 DEF IsHeap
<1>16. ASSUME Tick PROVE IsHeap(heap)'
  BY <1>b, <1>16 DEF Tick
<1>17. ASSUME SetClock PROVE IsHeap(heap)'
  BY <1>b, <1>17 DEF SetClock
<1>18. ASSUME UNCHANGED vars PROVE IsHeap(heap)'
  BY <1>b, <1>18 DEF vars
<1>19. QED
  BY <1>1, <1>2, <1>3, <1>4, <1>5, <1>6, <1>7, <1>8, <1>9,
     <1>10, <1>11, <1>12, <1>13, <1>14, <1>15, <1>16, <1>17, <1>18, ZenonT(60)
     DEF Next, Use, LoopStep, CanCall, AddTimer, disable, updateCallback, endLoop

\* The timerfd is armed for no later than a timer that expires no earlier.
LEMMA CoveredLater ==
  ASSUME TypeOK, NEW s \in Timers, NEW t \in Timers,
         expiration[s] <= expiration[t], CoveredBy(s)
  PROVE  CoveredBy(t)
<1>1. expiration[s] \in Nat /\ expiration[t] \in Nat /\ now \in Nat
      /\ countdown \in Int
  BY DEF TypeOK, Off
<1>2. QED
  BY <1>1 DEF CoveredBy, AtLeast

\* Where nothing that matters to it changes the timerfd stays armed in time.
LEMMA CoveredKept ==
  ASSUME Covered, UNCHANGED <<countdown, steps, now, heap>>,
         \A i \in 1..Len(heap) : expiration'[heap[i]] = expiration[heap[i]],
         Reading \/ phase \in {"ended", "gone"} =>
           Reading' \/ phase' \in {"ended", "gone"}
  PROVE  Covered'
BY DEF Covered, CoveredBy

\* The timerfd stays armed for no later than any timer in the heap.
LEMMA CoveredStep ==
  ASSUME TypeOK, InHands, PlacesLegal, IsHeap(heap), Covered, [Next]_vars PROVE Covered'
<1> USE DEF clockVars, timerVars, loopVars, historyVars
<1>a. heap \in Seq(Timers) /\ expiration \in [Timers -> Nat] /\ created \in Int
  BY DEF TypeOK
<1>b. ASSUME UNCHANGED <<countdown, steps, now, heap, expiration>>,
             Reading \/ phase \in {"ended", "gone"} =>
               Reading' \/ phase' \in {"ended", "gone"}
      PROVE  Covered'
  BY <1>b, CoveredKept
<1>1. ASSUME NEW u \in Users, NEW when \in Whens, NEW period \in Intervals,
             AddTimer(u, when, period)
      PROVE  Covered'
  <2>1. created' = created + 1 /\ UNCHANGED <<heap, countdown, steps, now, phase>>
        /\ expiration' = [expiration EXCEPT ![created'] = when]
    BY <1>1 DEF AddTimer
  <2>2. ASSUME NEW i \in 1..Len(heap)
        PROVE  expiration'[heap[i]] = expiration[heap[i]]
    <3>1. heap[i] \in Timers /\ heap[i] <= created
      BY <1>a, PlacedIsCreated
    <3>2. heap[i] # created'
      BY <1>a, <2>1, <3>1 DEF Timers
    <3>3. QED
      BY <1>a, <2>1, <3>1, <3>2
  <2>3. QED
    BY <2>1, <2>2, CoveredKept DEF Reading
<1>2. ASSUME NEW u \in Users, NEW t \in Timers, disable(u, t) PROVE Covered'
  BY <1>b, <1>2 DEF disable, Reading
<1>3. ASSUME NEW u \in Users, NEW t \in Timers, updateCallback(u, t) PROVE Covered'
  BY <1>b, <1>3 DEF updateCallback, Reading
<1>4. ASSUME NEW u \in Users, endLoop(u) PROVE Covered'
  BY <1>b, <1>4 DEF endLoop, Reading
<1>5. ASSUME WhileNotQuit PROVE Covered'
  <2>1. UNCHANGED <<heap, expiration, steps, now>>
        /\ phase \in {"ready", "pending"}
        /\ (phase' = "ended" \/ countdown' = countdown)
    BY <1>5 DEF WhileNotQuit
  <2>2. CASE phase' = "ended"
    BY <2>2 DEF Covered
  <2>3. CASE countdown' = countdown
    BY <1>b, <2>1, <2>3 DEF Reading
  <2>4. QED
    BY <2>1, <2>2, <2>3
<1>6. ASSUME PollReturns PROVE Covered'
  BY <1>b, <1>6 DEF PollReturns, Reading
<1>7. ASSUME PollReturnsForUser PROVE Covered'
  BY <1>b, <1>7 DEF PollReturnsForUser, Reading
<1>8. ASSUME StartRead PROVE Covered'
  BY <1>8 DEF StartRead, Covered, Reading
<1>9. ASSUME RunTimer PROVE Covered'
  BY <1>9 DEF RunTimer, Covered, Reading
<1>10. ASSUME CallbackReturns PROVE Covered'
  BY <1>10 DEF CallbackReturns, Covered, Reading
<1>11. ASSUME Reload PROVE Covered'
  BY <1>11 DEF Reload, Covered, Reading
<1>12. ASSUME FinishRead PROVE Covered'
  <2>1. UNCHANGED <<heap, expiration, steps, now>>
        /\ (heap # <<>> => countdown' = AtLeast(expiration[top(heap)] - now, 1))
    BY <1>12 DEF FinishRead, resetTimerfd, howMuchTimeFromNow
  <2>2. ASSUME NEW i \in 1..Len(heap) PROVE CoveredBy(heap[i])'
    <3>1. heap # <<>> /\ heap[i] \in Timers
      BY <1>a
    <3>a. expiration[top(heap)] <= expiration[heap[i]]
      BY <1>a, TopExpiresFirst
    <3>b. top(heap) \in Timers
      BY <3>1, TimerPopped
    <3>2. top(heap) \in Timers /\ expiration[top(heap)] <= expiration[heap[i]]
      BY <3>a, <3>b
    <3>3. expiration[top(heap)] \in Nat /\ expiration[heap[i]] \in Nat /\ now \in Nat
      BY <3>1, <3>2 DEF TypeOK
    <3>4. countdown' = AtLeast(expiration[top(heap)] - now, 1)
      BY <2>1, <3>1
    <3>5. countdown' # Off
          /\ countdown' <= AtLeast(expiration[heap[i]] - now, 1)
      BY <3>2, <3>3, <3>4 DEF AtLeast, Off
    <3>6. QED
      BY <2>1, <3>5 DEF CoveredBy
  <2>3. QED
    BY <2>1, <2>2 DEF Covered
<1>13. ASSUME StartPending PROVE Covered'
  BY <1>b, <1>13 DEF StartPending, Reading
<1>14. ASSUME RunFunctor PROVE Covered'
  <2> DEFINE t == Head(functors).timer
  <2>1. t \in Timers
    BY <1>14, FunctorToRun DEF RunFunctor
  <2>2. UNCHANGED <<expiration, steps, now, phase>> /\ phase = "pending"
    BY <1>14 DEF RunFunctor
  <2>3. \/ UNCHANGED <<heap, countdown>>
        \/ addTimerInLoop(t)
    BY <1>14 DEF RunFunctor
  <2>4. CASE UNCHANGED <<heap, countdown>>
    BY <1>b, <2>2, <2>4 DEF Reading
  <2>5. CASE addTimerInLoop(t)
    <3> DEFINE w == insert(heap, t)
    <3>1. heap' = w /\ (IF top(w) = t
                          THEN countdown' = AtLeast(expiration[t] - now, 1)
                          ELSE countdown' = countdown)
      BY <2>5 DEF addTimerInLoop, resetTimerfd, howMuchTimeFromNow
    <3>2. w \in Seq(Timers)
          /\ {w[i] : i \in 1..Len(w)} = {heap[i] : i \in 1..Len(heap)} \cup {t}
          /\ IsHeap(w)
      BY <2>1, TimerInserted
    <3> HIDE DEF w, t
    <3>3. \A i \in 1..Len(heap) : CoveredBy(heap[i])
      BY <2>2 DEF Covered, Reading
    <3>4. \A i \in 1..Len(w) : expiration[top(w)] <= expiration[w[i]]
      BY <3>2, TopExpiresFirst
    <3>c. w # <<>> /\ 1 \in 1..Len(w) /\ top(w) = w[1]
      <4>1. t \in {w[i] : i \in 1..Len(w)}
        BY <3>2
      <4>2. PICK i \in 1..Len(w) : t = w[i]
        BY <4>1
      <4>3. QED
        BY <3>2, <4>2 DEF top
    <3>d. now \in Nat /\ top(w) \in Timers
      BY <3>2, <3>c DEF TypeOK
    <3>5. ASSUME NEW i \in 1..Len(w)
          PROVE  /\ countdown' # Off
                 /\ steps = 0 => countdown' <= AtLeast(expiration[w[i]] - now, 1)
      <4>1. w[i] \in Timers /\ expiration[top(w)] <= expiration[w[i]]
        BY <3>2, <3>4
      <4>2. CASE top(w) = t
        <5>1. expiration[t] \in Nat /\ expiration[w[i]] \in Nat
          BY <2>1, <4>1 DEF TypeOK
        <5>2. countdown' = AtLeast(expiration[t] - now, 1)
          BY <3>1, <4>2
        <5>3. expiration[t] <= expiration[w[i]]
          BY <4>1, <4>2
        <5>4. QED
          BY <3>d, <5>1, <5>2, <5>3 DEF AtLeast, Off
      <4>3. CASE top(w) # t
        <5>1. countdown' = countdown
          BY <3>1, <4>3
        <5>2. top(w) \in {heap[j] : j \in 1..Len(heap)}
          BY <3>2, <3>c, <4>3
        <5>3. CoveredBy(top(w))
          BY <3>3, <5>2
        <5>4. CoveredBy(w[i])
          BY <3>d, <4>1, <5>3, CoveredLater
        <5>5. QED
          BY <5>1, <5>4 DEF CoveredBy
      <4>4. QED
        BY <4>2, <4>3
    <3>6. \A i \in 1..Len(heap') : CoveredBy(heap[i])'
      BY <2>2, <3>1, <3>5 DEF CoveredBy
    <3>7. QED
      BY <3>6 DEF Covered
  <2>6. QED
    BY <2>3, <2>4, <2>5
<1>15. ASSUME DestroyTimerQueue PROVE Covered'
  BY <1>15 DEF DestroyTimerQueue, Covered
<1>16. ASSUME Tick PROVE Covered'
  <2>1. UNCHANGED <<heap, expiration, steps, phase>>
        /\ now' = (IF now < MaxTime THEN now + 1 ELSE now)
        /\ countdown' = (IF countdown > 0 THEN countdown - 1 ELSE countdown)
    BY <1>16 DEF Tick
  <2>2. ASSUME NEW i \in 1..Len(heap), CoveredBy(heap[i])
        PROVE  CoveredBy(heap[i])'
    <3>1. expiration[heap[i]] \in Nat /\ now \in Nat /\ countdown \in Int
          /\ countdown >= -1 /\ MaxTime \in Int
      BY <1>a, TimerAssumption DEF TypeOK, Off
    <3>2. countdown' # Off
      BY <2>1, <2>2, <3>1 DEF CoveredBy, Off
    <3>3. ASSUME steps = 0
          PROVE  countdown' <= AtLeast(expiration[heap[i]] - now', 1)
      <4>1. countdown <= AtLeast(expiration[heap[i]] - now, 1)
        BY <2>2, <3>3 DEF CoveredBy
      <4>2. QED
        BY <2>1, <3>1, <4>1 DEF AtLeast
    <3>4. QED
      BY <2>1, <3>2, <3>3 DEF CoveredBy
  <2>3. QED
    BY <2>1, <2>2 DEF Covered, Reading
<1>17. ASSUME SetClock PROVE Covered'
  <2>1. UNCHANGED <<heap, expiration, countdown, phase>> /\ steps' = steps + 1
        /\ steps \in Nat
    BY <1>17 DEF SetClock, TypeOK
  <2>2. steps' # 0
    BY <2>1
  <2>3. QED
    BY <2>1, <2>2 DEF Covered, CoveredBy, Reading
<1>18. ASSUME UNCHANGED vars PROVE Covered'
  BY <1>b, <1>18 DEF vars, Reading
<1>19. QED
  BY <1>1, <1>2, <1>3, <1>4, <1>5, <1>6, <1>7, <1>8, <1>9,
     <1>10, <1>11, <1>12, <1>13, <1>14, <1>15, <1>16, <1>17, <1>18, ZenonT(60)
     DEF Next, Use, LoopStep, CanCall, AddTimer, disable, updateCallback, endLoop

-----------------------------------------------------------------------------
(* The expirations of a repeating timer. *)

\* No timer drifts where only intervals change, to none.
LEMMA DriftKept ==
  ASSUME NoDrift, UNCHANGED <<created, expiration, first, fired, current>>,
         \A t \in 1..created : interval'[t] > 0 => interval'[t] = interval[t]
  PROVE  NoDrift'
BY DEF NoDrift

\* One period more.
LEMMA OnePeriodMore ==
  ASSUME NEW n \in Nat, NEW d \in Nat PROVE (n - 1) * d + d = n * d
OBVIOUS

\* A repeating timer does not drift.
LEMMA DriftStep ==
  ASSUME TypeOK, InHands, PlacesLegal, Finished, NoDrift, [Next]_vars PROVE NoDrift'
<1> USE DEF clockVars, timerVars, loopVars, historyVars
<1>a. /\ created \in Nat /\ 1..created \subseteq Timers
      /\ interval \in [Timers -> Nat] /\ expiration \in [Timers -> Nat]
      /\ first \in [Timers -> Nat] /\ fired \in [Timers -> Nat]
  <2>1. created \in 0..MaxTimers /\ MaxTimers \in Nat
    BY TimerAssumption DEF TypeOK
  <2>2. created \in Nat /\ 1..created \subseteq Timers
    BY <2>1 DEF Timers
  <2>3. /\ interval \in [Timers -> Nat] /\ expiration \in [Timers -> Nat]
        /\ first \in [Timers -> Nat] /\ fired \in [Timers -> Nat]
    BY DEF TypeOK
  <2>4. QED
    BY <2>2, <2>3
<1>b. ASSUME UNCHANGED <<created, expiration, first, fired, current, interval>>
      PROVE  NoDrift'
  BY <1>b, DriftKept
<1>1. ASSUME NEW u \in Users, NEW when \in Whens, NEW period \in Intervals,
             AddTimer(u, when, period)
      PROVE  NoDrift'
  <2>1. created' = created + 1 /\ created' \in Timers
    BY <1>1, TimerAssumption DEF AddTimer, Timers, TypeOK
  <2>2. /\ expiration' = [expiration EXCEPT ![created'] = when]
        /\ first' = [first EXCEPT ![created'] = when]
        /\ interval' = [interval EXCEPT ![created'] = period]
        /\ UNCHANGED <<current, fired>>
    BY <1>1 DEF AddTimer
  <2>3. fired[created'] = 0 /\ current # created'
    <3>1. current # created'
      BY <1>a, <2>1, PlacedIsCreated
    <3>2. QED
      BY <1>a, <2>1, <3>1 DEF Finished
  <2>4. when \in Nat /\ period \in Nat
    BY TimerAssumption
  <2>5. ASSUME NEW t \in 1..created', interval'[t] > 0
        PROVE  expiration'[t] = first'[t] +
                 (IF current' = t THEN fired'[t] - 1 ELSE fired'[t]) * interval'[t]
    <3>1. CASE t = created'
      <4>1. expiration'[t] = when /\ first'[t] = when /\ interval'[t] = period
            /\ fired'[t] = 0 /\ current' # t
        BY <1>a, <2>1, <2>2, <2>3, <3>1
      <4>2. QED
        BY <2>4, <4>1
    <3>2. CASE t # created'
      <4>1. t \in 1..created
        BY <1>a, <2>1, <3>2
      <4>2. /\ expiration'[t] = expiration[t] /\ first'[t] = first[t]
            /\ interval'[t] = interval[t] /\ fired'[t] = fired[t]
            /\ current' = current
        BY <1>a, <2>1, <2>2, <3>2, <4>1
      <4>3. expiration[t] = first[t] +
              (IF current = t THEN fired[t] - 1 ELSE fired[t]) * interval[t]
        BY <2>5, <4>1, <4>2 DEF NoDrift
      <4>4. QED
        BY <4>2, <4>3
    <3>3. QED
      BY <3>1, <3>2
  <2>6. QED
    BY <2>5 DEF NoDrift
<1>2. ASSUME NEW u \in Users, NEW t \in Timers, disable(u, t) PROVE NoDrift'
  <2>1. UNCHANGED <<created, expiration, first, fired, current>>
        /\ (interval' = interval \/ interval' = [interval EXCEPT ![t] = 0])
    BY <1>2 DEF disable, Silence
  <2>2. \A x \in 1..created : interval'[x] > 0 => interval'[x] = interval[x]
    BY <1>a, <2>1
  <2>3. QED
    BY <2>1, <2>2, DriftKept
<1>3. ASSUME NEW u \in Users, NEW t \in Timers, updateCallback(u, t) PROVE NoDrift'
  BY <1>b, <1>3 DEF updateCallback
<1>4. ASSUME NEW u \in Users, endLoop(u) PROVE NoDrift'
  BY <1>b, <1>4 DEF endLoop
<1>5. ASSUME WhileNotQuit PROVE NoDrift'
  BY <1>b, <1>5 DEF WhileNotQuit
<1>6. ASSUME PollReturns PROVE NoDrift'
  BY <1>b, <1>6 DEF PollReturns
<1>7. ASSUME PollReturnsForUser PROVE NoDrift'
  BY <1>b, <1>7 DEF PollReturnsForUser
<1>8. ASSUME StartRead PROVE NoDrift'
  BY <1>b, <1>8 DEF StartRead
<1>9. ASSUME RunTimer PROVE NoDrift'
  <2> DEFINE t == top(heap)
  <2>1. heap # <<>>
    BY <1>9 DEF RunTimer, Expired
  <2>2. t \in Timers /\ t <= created /\ t # 0
    BY <2>1, TimerPopped, PlacedIsCreated DEF Timers
  <2>3. UNCHANGED <<created, expiration, first, interval>>
        /\ current = 0 /\ current' = t
    BY <1>9 DEF RunTimer, InHands
  <2>4. \/ fired' = [fired EXCEPT ![t] = @ + 1]
        \/ fired' = fired /\ (disabled[t] \/ ~callback[t])
    BY <1>9 DEF RunTimer
  <2> HIDE DEF t
  <2>5. ASSUME NEW x \in 1..created, interval[x] > 0
        PROVE  expiration[x] = first[x] +
                 (IF t = x THEN fired'[x] - 1 ELSE fired'[x]) * interval[x]
    <3>1. x \in Timers /\ x # 0 /\ fired[x] \in Nat /\ x <= created
      BY <1>a
    <3>2. expiration[x] = first[x] + fired[x] * interval[x]
      BY <2>3, <2>5, <3>1 DEF NoDrift
    <3>3. CASE x = t
      <4>1. ~(disabled[t] \/ ~callback[t])
        BY <2>5, <3>1, <3>3 DEF Finished
      <4>2. fired'[x] = fired[x] + 1
        BY <1>a, <2>2, <2>4, <3>3, <4>1
      <4>3. fired'[x] - 1 = fired[x]
        BY <3>1, <4>2
      <4>4. QED
        BY <3>2, <3>3, <4>3
    <3>4. CASE x # t
      <4>1. fired'[x] = fired[x]
        BY <1>a, <2>2, <2>4, <3>1, <3>4
      <4>2. QED
        BY <3>2, <3>4, <4>1
    <3>5. QED
      BY <3>3, <3>4
  <2>6. QED
    BY <2>3, <2>5 DEF NoDrift
<1>10. ASSUME CallbackReturns PROVE NoDrift'
  BY <1>b, <1>10 DEF CallbackReturns
<1>11. ASSUME Reload PROVE NoDrift'
  <2>1. current \in Timers /\ current' = 0
        /\ UNCHANGED <<created, first, fired, interval>>
    BY <1>11 DEF Reload, InHands, TypeOK, Timers
  <2>2. ASSUME NEW x \in 1..created, interval[x] > 0
        PROVE  expiration'[x] = first[x] + fired[x] * interval[x]
    <3>1. x \in Timers /\ fired[x] \in Nat /\ interval[x] \in Nat
          /\ first[x] \in Nat /\ expiration[x] \in Nat
      BY <1>a
    <3>2. expiration[x] = first[x] +
            (IF current = x THEN fired[x] - 1 ELSE fired[x]) * interval[x]
      BY <2>2 DEF NoDrift
    <3>3. CASE x = current
      <4>1. expiration' = [expiration EXCEPT ![current] = @ + interval[current]]
        BY <1>11, <2>2, <3>3 DEF Reload
      <4>2. expiration'[x] = expiration[x] + interval[x]
        BY <1>a, <3>1, <3>3, <4>1
      <4>3. (fired[x] - 1) * interval[x] + interval[x] = fired[x] * interval[x]
        BY <3>1, OnePeriodMore
      <4>4. (fired[x] - 1) * interval[x] \in Int /\ fired[x] * interval[x] \in Int
        BY <3>1
      <4>5. expiration[x] = first[x] + (fired[x] - 1) * interval[x]
        BY <3>2, <3>3
      <4> DEFINE a == (fired[x] - 1) * interval[x]
                 b == fired[x] * interval[x]
      <4> HIDE DEF a, b
      <4>6. a \in Int /\ b \in Int /\ a + interval[x] = b
            /\ expiration[x] = first[x] + a
        BY <4>3, <4>4, <4>5 DEF a, b
      <4>7. expiration'[x] = first[x] + b
        BY <3>1, <4>2, <4>6
      <4>8. QED
        BY <4>7 DEF b
    <3>4. CASE x # current
      <4>1. expiration'[x] = expiration[x]
        BY <1>11, <1>a, <2>1, <3>1, <3>4 DEF Reload
      <4>2. QED
        BY <3>2, <3>4, <4>1
    <3>5. QED
      BY <3>3, <3>4
  <2>3. \A x \in 1..created : x # 0
    OBVIOUS
  <2>4. QED
    BY <2>1, <2>2, <2>3 DEF NoDrift
<1>12. ASSUME FinishRead PROVE NoDrift'
  BY <1>b, <1>12 DEF FinishRead
<1>13. ASSUME StartPending PROVE NoDrift'
  BY <1>b, <1>13 DEF StartPending
<1>14. ASSUME RunFunctor PROVE NoDrift'
  <2> DEFINE t == Head(functors).timer
  <2>1. UNCHANGED <<created, expiration, first, fired, current>>
        /\ (interval' = interval \/ interval' = [interval EXCEPT ![t] = 0])
    BY <1>14 DEF RunFunctor, addTimerInLoop, Silence
  <2> HIDE DEF t
  <2>2. \A x \in 1..created : interval'[x] > 0 => interval'[x] = interval[x]
    BY <1>a, <2>1
  <2>3. QED
    BY <2>1, <2>2, DriftKept
<1>15. ASSUME DestroyTimerQueue PROVE NoDrift'
  <2> DEFINE live == {t \in {heap[i] : i \in 1..Len(heap)} : ~disabled[t]}
  <2>1. UNCHANGED <<created, expiration, first, fired, current>>
        /\ interval' = [t \in Timers |-> IF t \in live THEN 0 ELSE interval[t]]
    BY <1>15 DEF DestroyTimerQueue
  <2> HIDE DEF live
  <2>2. \A x \in 1..created : interval'[x] > 0 => interval'[x] = interval[x]
    BY <1>a, <2>1
  <2>3. QED
    BY <2>1, <2>2, DriftKept
<1>16. ASSUME Tick PROVE NoDrift'
  BY <1>b, <1>16 DEF Tick
<1>17. ASSUME SetClock PROVE NoDrift'
  BY <1>b, <1>17 DEF SetClock
<1>18. ASSUME UNCHANGED vars PROVE NoDrift'
  BY <1>b, <1>18 DEF vars
<1>19. QED
  BY <1>1, <1>2, <1>3, <1>4, <1>5, <1>6, <1>7, <1>8, <1>9,
     <1>10, <1>11, <1>12, <1>13, <1>14, <1>15, <1>16, <1>17, <1>18, ZenonT(60)
     DEF Next, Use, LoopStep, CanCall, AddTimer, disable, updateCallback, endLoop

-----------------------------------------------------------------------------
(* The theorems. *)

\* Every step preserves the invariant.
LEMMA TimerInvStep == TimerInv /\ [Next]_vars => TimerInv'
BY TypeStep, HandsStep, PlacesStep, FinishedStep, QueuedStep, SilencedStep,
   HeapStep, CoveredStep, DriftStep DEF TimerInv

\* The invariant holds in every reachable state.
THEOREM TimerInvHolds == Spec => []TimerInv
BY TimerInvInit, TimerInvStep, PTL DEF Spec

\* A timer is never in two places, nor lost before it is finished.
THEOREM TimersAreLegal == Spec => []TimerLegal
<1>1. TimerInv => TimerLegal
  <2> SUFFICES ASSUME TimerInv PROVE OnePlace
    BY DEF TimerInv, TimerLegal
  <2>1. Cardinality({}) = 0 /\ Cardinality({0}) = 1
    BY FS_EmptySet, FS_Singleton
  <2>2. ASSUME NEW t \in 1..created
        PROVE  /\ t \in Timers
               /\ Cardinality(InHeap(t)) + Cardinality(Queued(t))
                    + Cardinality(Popped(t)) = Places(t)
    <3>1. t \in Timers /\ t <= created
      BY TimerAssumption DEF TimerInv, TypeOK, Timers
    <3>2. InHeap(t) = At(heap, t) /\ Queued(t) = At(functors, F("add", t))
      BY DEF InHeap, Queued, At
    <3>3. Cardinality(Popped(t)) = IF current = t THEN 1 ELSE 0
      BY <2>1 DEF Popped
    <3>4. QED
      BY <3>1, <3>2, <3>3 DEF Places
  <2>3. \A t \in 1..created : t <= created
    OBVIOUS
  <2>4. QED
    BY <2>2, <2>3 DEF TimerInv, PlacesLegal, OnePlace
<1>2. QED
  BY <1>1, TimerInvHolds, PTL

\* Outside handleRead() the timerfd is armed for no later than any timer in the
\* heap.
THEOREM TimerfdIsArmed == Spec => []TimerfdCoversHeap
<1>1. TimerInv => TimerfdCoversHeap
  BY DEF TimerInv, Covered, CoveredBy, TimerfdCoversHeap
<1>2. QED
  BY <1>1, TimerInvHolds, PTL

\* The n-th call of a repeating timer is due n periods after the first.
THEOREM TimersDoNotDrift == Spec => []NoDrift
<1>1. TimerInv => NoDrift
  BY DEF TimerInv
<1>2. QED
  BY <1>1, TimerInvHolds, PTL

\* A timer that was disabled on the loop thread is never called again.
THEOREM DisabledTimersAreSilent == Spec => DisabledIsSilent
<1>1. TimerInv /\ [Next]_vars =>
        [\A t \in Timers : t \in silenced => fired'[t] = fired[t]]_vars
  <2> SUFFICES ASSUME TimerInv, [Next]_vars,
                      NEW t \in Timers, t \in silenced
               PROVE  fired'[t] = fired[t]
    OBVIOUS
  <2>1. disabled[t] /\ fired \in [Timers -> Nat]
    BY DEF TimerInv, SilencedAreDisabled, TypeOK
  <2>2. CASE fired' = fired
    BY <2>2
  <2>3. CASE RunTimer
    <3>1. \/ fired' = fired
          \/ ~disabled[top(heap)] /\ fired' = [fired EXCEPT ![top(heap)] = @ + 1]
      BY <2>3 DEF RunTimer
    <3>2. QED
      BY <2>1, <3>1
  <2>4. RunTimer \/ fired' = fired
    BY DEF Next, Use, LoopStep, vars, historyVars, AddTimer, disable,
       updateCallback, endLoop, WhileNotQuit, PollReturns, StartRead,
       CallbackReturns, Reload, FinishRead, StartPending, RunFunctor,
       PollReturnsForUser, DestroyTimerQueue, Tick, SetClock
  <2>5. QED
    BY <2>2, <2>3, <2>4
<1>2. QED
  BY <1>1, TimerInvHolds, PTL DEF Spec, DisabledIsSilent

=============================================================================
