---------------------------- MODULE FunctorQueue ----------------------------
(***************************************************************************)
(* What EventLoop promises to those who submit functors: a FIFO queue with *)
(* one consumer.  Every functor is run at most once, queued ones in the    *)
(* order they were queued; once the queue is closed nothing queued is run. *)
(***************************************************************************)
EXTENDS Sequences, FiniteSets

CONSTANT Functors

VARIABLES
  fresh,    \* functors nobody submitted yet
  queue,    \* functors accepted and not run
  ran,      \* functors run so far, in order
  open      \* has the queue not been closed?

vars == <<fresh, queue, ran, open>>

Init ==
  /\ fresh = Functors
  /\ queue = <<>>
  /\ ran = <<>>
  /\ open = TRUE

\* The loop thread runs a functor at once.
RunInline(f) ==
  /\ fresh' = fresh \ {f}
  /\ ran' = Append(ran, f)
  /\ UNCHANGED <<queue, open>>

\* A caller hands a functor over; until it is accepted it is in nobody's queue.
Offer(f) ==
  /\ fresh' = fresh \ {f}
  /\ UNCHANGED <<queue, ran, open>>

Accept(f) ==
  /\ f \notin fresh
  /\ \A i \in DOMAIN queue : queue[i] # f
  /\ \A i \in DOMAIN ran : ran[i] # f
  /\ queue' = Append(queue, f)
  /\ UNCHANGED <<fresh, ran, open>>

RunFirst ==
  /\ queue # <<>>
  /\ ran' = Append(ran, Head(queue))
  /\ queue' = Tail(queue)
  /\ UNCHANGED <<fresh, open>>

Close ==
  /\ open' = FALSE
  /\ UNCHANGED <<fresh, queue, ran>>

\* Nothing is run any more: what is left may be dropped.
Drop ==
  /\ queue' = <<>>
  /\ UNCHANGED <<fresh, ran, open>>

Next == 
  \/ \E f \in fresh : RunInline(f) \/ Offer(f)
  \/ \E f \in Functors : Accept(f)
  \/ open /\ (RunFirst \/ Close)
  \/ ~open /\ Drop

Spec == Init /\ [][Next]_vars

\* While the queue is open its first functor is run some time.
FairSpec == Spec /\ WF_vars(open /\ RunFirst)
=============================================================================
