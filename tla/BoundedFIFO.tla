----------------------------- MODULE BoundedFIFO -----------------------------
(***************************************************************************)
(* What a bounded blocking queue promises: a call of put() or take() takes *)
(* effect at one moment between its invocation and its return, in order of *)
(* a queue of bounded length; when the queue is closed every call returns, *)
(* takes with Nothing.                                                     *)
(***************************************************************************)
EXTENDS Integers, Sequences

CONSTANTS Threads, Items, Nothing, Capacity

VARIABLES queue,    \* the items in the queue
          closed,   \* has the queue been given up?
          call,     \* the call each thread is in: "none", "put" or "take"
          value     \* the argument of a put in progress, the result of a take

vars == <<queue, closed, call, value>>

Init ==
  /\ queue = <<>>
  /\ closed = FALSE
  /\ call = [t \in Threads |-> "none"]
  /\ value = [t \in Threads |-> Nothing]

Invoke(t, op, x) ==
  /\ call[t] = "none"
  /\ call' = [call EXCEPT ![t] = op]
  /\ value' = [value EXCEPT ![t] = x]
  /\ UNCHANGED <<queue, closed>>

Return(t, x) ==
  /\ call' = [call EXCEPT ![t] = "none"]
  /\ value' = [value EXCEPT ![t] = x]

Put(t) ==
  /\ call[t] = "put" /\ ~closed
  /\ Len(queue) < Capacity
  /\ queue' = Append(queue, value[t])
  /\ Return(t, Nothing)
  /\ UNCHANGED closed

Take(t) ==
  /\ call[t] = "take" /\ ~closed
  /\ queue # <<>>
  /\ queue' = Tail(queue)
  /\ Return(t, Head(queue))
  /\ UNCHANGED closed

Leave(t) ==
  /\ call[t] # "none" /\ closed
  /\ Return(t, Nothing)
  /\ UNCHANGED <<queue, closed>>

Close == closed' = TRUE /\ UNCHANGED <<queue, call, value>>

Next ==
  \/ \E t \in Threads :
       \/ \E x \in Items : Invoke(t, "put", x)
       \/ Invoke(t, "take", Nothing)
       \/ Put(t) \/ Take(t) \/ Leave(t)
  \/ Close

Spec == Init /\ [][Next]_vars

\* Some call goes on whenever one can, and every call returns after Close.
Progress ==
  /\ WF_vars(\E t \in Threads : Put(t))
  /\ WF_vars(\E t \in Threads : Take(t))
  /\ \A t \in Threads : WF_vars(Leave(t))

FairSpec == Spec /\ Progress
=============================================================================
