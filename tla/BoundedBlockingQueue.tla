------------------------ MODULE BoundedBlockingQueue ------------------------
(***************************************************************************)
(* BoundedBlockingQueue<T>                                                 *)
(* (src/include/hohnor/thread/BoundedBlockingQueue.h): a CircularBuffer,   *)
(* a mutex and two condition variables.                                    *)
(*                                                                         *)
(* What a thread does from the moment it has the mutex to the moment it    *)
(* waits or returns is one step.  A condition variable is the set of the   *)
(* threads that wait on it; one that leaves the set, because it is         *)
(* notified or for no reason, contends for the mutex again.                *)
(***************************************************************************)
EXTENDS CircularBuffer, FiniteSets

CONSTANT Threads    \* the threads that use the queue

ASSUME ThreadAssumption == IsFiniteSet(Threads)

VARIABLES
  end,        \* end_
  notEmpty,   \* the threads waiting on notEmpty_
  notFull,    \* the threads waiting on notFull_
  call,       \* the method each thread is in: "none", "put" or "take"
  value       \* its argument x, or what take() returned last

waits == <<notEmpty, notFull>>
calls == <<call, value>>
queueVars == <<ring, end, waits, calls>>

TypeOK ==
  /\ RingOK
  /\ end \in BOOLEAN
  /\ notEmpty \subseteq Threads
  /\ notFull \subseteq Threads
  /\ call \in [Threads -> {"none", "put", "take"}]
  /\ value \in [Threads -> Items \cup {empty_item}]

Init ==
  /\ RingInit
  /\ end = FALSE
  /\ notEmpty = {}
  /\ notFull = {}
  /\ call = [t \in Threads |-> "none"]
  /\ value = [t \in Threads |-> empty_item]

Enter(t, method, x) ==
  /\ call[t] = "none"
  /\ call' = [call EXCEPT ![t] = method]
  /\ value' = [value EXCEPT ![t] = x]
  /\ UNCHANGED <<ring, end, waits>>

CallPut(t, x) == Enter(t, "put", x)
CallTake(t) == Enter(t, "take", empty_item)

Leave(t, x) ==
  /\ call' = [call EXCEPT ![t] = "none"]
  /\ value' = [value EXCEPT ![t] = x]

\* notify() wakes one thread, if one waits.
Notified(waiting, rest) ==
  IF waiting = {} THEN rest = {} ELSE \E t \in waiting : rest = waiting \ {t}

\* The thread is on its way to the mutex, at the call or after a wait.
InPut(t) == call[t] = "put" /\ t \notin notFull
InTake(t) == call[t] = "take" /\ t \notin notEmpty

WaitNotFull(t) ==
  /\ InPut(t) /\ full /\ ~end
  /\ notFull' = notFull \cup {t}
  /\ UNCHANGED <<ring, end, notEmpty, calls>>

\* Mutant: put() does not notify.
PutSilently(t) ==
  /\ InPut(t) /\ ~end
  /\ enqueue(value[t])
  /\ Leave(t, empty_item)
  /\ UNCHANGED <<end, waits>>

Put(t) ==
  /\ InPut(t) /\ ~end
  /\ enqueue(value[t])
  /\ Notified(notEmpty, notEmpty')
  /\ Leave(t, empty_item)
  /\ UNCHANGED <<end, notFull>>

PutAtEnd(t) ==
  /\ InPut(t) /\ end
  /\ Leave(t, empty_item)
  /\ UNCHANGED <<ring, end, waits>>

WaitNotEmpty(t) ==
  /\ InTake(t) /\ empty /\ ~end
  /\ notEmpty' = notEmpty \cup {t}
  /\ UNCHANGED <<ring, end, notFull, calls>>

Take(t) ==
  /\ InTake(t) /\ ~end
  /\ dequeue
  /\ Notified(notFull, notFull')
  /\ Leave(t, front)
  /\ UNCHANGED <<end, notEmpty>>

TakeAtEnd(t) ==
  /\ InTake(t) /\ end
  /\ Leave(t, empty_item)
  /\ UNCHANGED <<ring, end, waits>>

\* Mutant: giveUp() wakes one thread of each condition.
GiveUpWakesOne ==
  /\ end' = TRUE
  /\ Notified(notEmpty, notEmpty') /\ Notified(notFull, notFull')
  /\ UNCHANGED <<ring, calls>>

giveUp ==
  /\ end' = TRUE
  /\ notEmpty' = {} /\ notFull' = {}
  /\ UNCHANGED <<ring, calls>>

\* pthread_cond_wait() may return without a notification.
WakeUp(t) ==
  /\ t \in notEmpty \cup notFull
  /\ notEmpty' = notEmpty \ {t} /\ notFull' = notFull \ {t}
  /\ UNCHANGED <<ring, end, calls>>

Step(t) ==
  \/ WaitNotFull(t) \/ Put(t) \/ PutAtEnd(t)
  \/ WaitNotEmpty(t) \/ Take(t) \/ TakeAtEnd(t)

-----------------------------------------------------------------------------
(* Properties *)

\* No notification is lost: if a thread still waits for an element, as many
\* take() calls as there are elements are on their way to the mutex; likewise
\* for free slots and put() calls; and nobody waits after giveUp().
NoLostNotification ==
  /\ notEmpty # {} => size <= Cardinality({t \in Threads : InTake(t)})
  /\ notFull # {} => maxSize - size <= Cardinality({t \in Threads : InPut(t)})
  /\ end => notEmpty = {} /\ notFull = {}

FIFO == INSTANCE BoundedFIFO WITH
          Nothing <- empty_item, Capacity <- maxSize,
          queue <- Contents, closed <- end

\* Every put() and take() takes effect at once and in order, the ring never
\* overflows and wraps without losing or repeating an element, and no call waits
\* for ever while it could go on.
IsLiveFIFO == FIFO!FairSpec
=============================================================================
