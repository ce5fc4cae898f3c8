-------------------------- MODULE EventLoop_proofs --------------------------
(***************************************************************************)
(* Proofs about EventLoop, for any number of threads and functors.         *)
(*                                                                         *)
(* SafeUse is the discipline under which the reactor wakes up reliably:    *)
(* the thread that created the loop runs it (otherwise queueInLoop() reads *)
(* threadId_ while loop() changes it), and no other thread calls endLoop() *)
(* before it does (quit_ may then be set when loop() has tested it already *)
(* and nobody wakes the loop).  Under it EventLoop also implements         *)
(* FunctorQueue, but for the fairness of that.                             *)
(***************************************************************************)
EXTENDS EventLoop, TLAPS

\* The loop is created where it runs, and nobody ends it before it starts.
SafeUse == Creator = Runner /\ EndBeforeLoop = FALSE

-----------------------------------------------------------------------------
(* Type correctness needs no discipline. *)

\* A thread about to push a functor holds one.
HoldsFunctor ==
  \A t \in Threads : cp[t] \in {"queue", "push"} => arg[t] \in Functors

\* The inductive part about types.
TypeInv == TypeOK /\ HoldsFunctor

\* The new loop is well typed.
LEMMA TypeInvInit == Init => TypeInv
<1> SUFFICES ASSUME Init PROVE TypeInv
  OBVIOUS
<1>1. <<>> \in Seq(Functors)
  OBVIOUS
<1>2. pending \in Seq(Functors) /\ ran \in Seq(Functors)
  BY <1>1 DEF Init
<1>3. /\ funcs \in [Threads -> Seq(Functors)]
      /\ batch \in [Threads -> SUBSET Event]
  BY <1>1 DEF Init
<1>4. /\ lp \in [Threads -> LoopPoint] /\ cp \in [Threads -> CallPoint]
      /\ inCb \in [Threads -> BOOLEAN]
  BY DEF Init, LoopPoint, CallPoint
<1>5. TypeOK
  BY ThreadAssumption, <1>2, <1>3, <1>4 DEF Init, TypeOK, LoopState
<1>6. HoldsFunctor
  BY DEF Init, HoldsFunctor
<1>7. QED
  BY <1>5, <1>6 DEF TypeInv

\* Every step keeps the types.
LEMMA TypeInvStep == TypeInv /\ [Next]_vars => TypeInv'
<1> SUFFICES ASSUME TypeInv, [Next]_vars PROVE TypeInv'
  OBVIOUS
<1> USE ThreadAssumption, EnderAssumption, FunctorAssumption
        DEF TypeInv, TypeOK, HoldsFunctor, Goto, Crash,
            LoopState, LoopPoint, CallPoint, Event,
            loopVars, callVars, historyVars
<1>1. ASSUME NEW t \in Threads, NEW f \in Functors, RunInline(t, f)
      PROVE TypeInv'
  BY <1>1 DEF RunInline
<1>2. ASSUME NEW t \in Threads, NEW f \in Functors, Submit(t, f)
      PROVE TypeInv'
  BY <1>2 DEF Submit
<1>3. ASSUME NEW t \in Threads, EndLoop(t) PROVE TypeInv'
  BY <1>3 DEF EndLoop
<1>4. ASSUME NEW t \in Threads, QueueUnlessEnd(t) PROVE TypeInv'
  BY <1>4, ZenonT(60) DEF QueueUnlessEnd
<1>5. ASSUME NEW t \in Threads, Push(t) PROVE TypeInv'
  BY <1>5 DEF Push
<1>6. ASSUME NEW t \in Threads, WakeIfOtherThread(t) PROVE TypeInv'
  BY <1>6 DEF WakeIfOtherThread
<1>7. ASSUME NEW t \in Threads, WakeIfPendingHandling(t) PROVE TypeInv'
  BY <1>7 DEF WakeIfPendingHandling
<1>8. ASSUME NEW t \in Threads, WakeIfReady(t) PROVE TypeInv'
  BY <1>8 DEF WakeIfReady
<1>9. ASSUME NEW t \in Threads, WakeUnlessEnd(t) PROVE TypeInv'
  <2>1. ret[t] \in {"idle", "endReady"}
    OBVIOUS
  <2>2. CASE state = "End"
    <3>1. cp' = [cp EXCEPT ![t] = ret[t]] /\ ret' = [ret EXCEPT ![t] = "idle"]
      BY <1>9, <2>2 DEF WakeUnlessEnd
    <3>2. /\ cp' \in [Threads -> CallPoint]
          /\ ret' \in [Threads -> {"idle", "endReady"}]
      BY <2>1, <3>1
    <3>3. QED
      BY <1>9, <2>1, <3>1, <3>2 DEF WakeUnlessEnd
  <2>3. CASE state # "End"
    BY <1>9, <2>3 DEF WakeUnlessEnd
  <2>4. QED
    BY <2>2, <2>3
<1>10. ASSUME NEW t \in Threads, WriteWakeFd(t) PROVE TypeInv'
  <2>1. ret[t] \in {"idle", "endReady"}
    OBVIOUS
  <2>2. CASE wakeHandler
    BY <1>10, <2>1, <2>2, ZenonT(60) DEF WriteWakeFd
  <2>3. CASE ~wakeHandler
    BY <1>10, <2>3 DEF WriteWakeFd
  <2>4. QED
    BY <2>2, <2>3
<1>11. ASSUME NEW t \in Threads, SetQuit(t) PROVE TypeInv'
  BY <1>11 DEF SetQuit
<1>12. ASSUME NEW t \in Threads, EndWakes(t) PROVE TypeInv'
  BY <1>12, ZenonT(60) DEF EndWakes
<1>13. ASSUME NEW t \in Threads, EndRunsLoop(t) PROVE TypeInv'
  BY <1>13 DEF EndRunsLoop
<1>14. ASSUME NEW t \in Threads, CallLoop(t) PROVE TypeInv'
  BY <1>14 DEF CallLoop
<1>15. ASSUME NEW t \in Threads, UpdateThreadId(t) PROVE TypeInv'
  BY <1>15 DEF UpdateThreadId
<1>16. ASSUME NEW t \in Threads, WhileNotQuit(t) PROVE TypeInv'
  BY <1>16 DEF WhileNotQuit
<1>17. ASSUME NEW t \in Threads, StartPolling(t) PROVE TypeInv'
  BY <1>17 DEF StartPolling
<1>18. ASSUME NEW t \in Threads, PollReturns(t) PROVE TypeInv'
  BY <1>18 DEF PollReturns
<1>19. ASSUME NEW t \in Threads, handleWakeUp(t) PROVE TypeInv'
  BY <1>19, ZenonT(60) DEF handleWakeUp, InLoopBody
<1>20. ASSUME NEW t \in Threads, HandleUserIO(t) PROVE TypeInv'
  BY <1>20 DEF HandleUserIO, InLoopBody
<1>21. ASSUME NEW t \in Threads, CallbackReturns(t) PROVE TypeInv'
  BY <1>21 DEF CallbackReturns
<1>22. ASSUME NEW t \in Threads, StartPendingHandling(t) PROVE TypeInv'
  BY <1>22 DEF StartPendingHandling, InLoopBody
<1>23. ASSUME NEW t \in Threads, SwapPending(t) PROVE TypeInv'
  BY <1>23 DEF SwapPending
<1>24. ASSUME NEW t \in Threads, RunFunctor(t) PROVE TypeInv'
  BY <1>24 DEF RunFunctor, InLoopBody
<1>25. ASSUME NEW t \in Threads, FunctorsDone(t) PROVE TypeInv'
  BY <1>25 DEF FunctorsDone, InLoopBody
<1>26. ASSUME NEW t \in Threads, ResetHandlers(t) PROVE TypeInv'
  BY <1>26 DEF ResetHandlers
<1>27. ASSUME NEW t \in Threads, ClearPending(t) PROVE TypeInv'
  BY <1>27 DEF ClearPending
<1>28. CASE UserIO
  BY <1>28 DEF UserIO
<1>29. CASE UNCHANGED vars
  BY <1>29 DEF vars
<1>30. QED
  BY <1>1, <1>2, <1>3, <1>4, <1>5, <1>6, <1>7, <1>8, <1>9, <1>10, <1>11,
     <1>12, <1>13, <1>14, <1>15, <1>16, <1>17, <1>18, <1>19, <1>20, <1>21,
     <1>22, <1>23, <1>24, <1>25, <1>26, <1>27, <1>28, <1>29
     DEF Next, Call, Continue, LoopStep

\* Every variable keeps its type, and pendingFunctors_ never holds a null
\* functor (the HCHECK_NE of EventLoop.cpp:122).
THEOREM TypeCorrect == Spec => []TypeOK
<1>1. Init => TypeInv
  BY TypeInvInit
<1>2. TypeInv /\ [Next]_vars => TypeInv'
  BY TypeInvStep
<1>3. TypeInv => TypeOK
  BY DEF TypeInv
<1>4. QED
  BY <1>1, <1>2, <1>3, PTL DEF Spec

-----------------------------------------------------------------------------
(* The inductive invariant behind NoLostWakeUp and SingleLoopThread. *)

\* Only Runner is ever in loop() or in a callback, and so only Runner passes the
\* first operand of the condition of queueInLoop.
OnlyRunnerLoops ==
  /\ threadId = Runner
  /\ \A t \in Threads \ {Runner} : /\ lp[t] \in {"out", "dead"}
                                   /\ ~inCb[t]
                                   /\ cp[t] \notin {"ifPending", "ifReady"}

\* The calls Runner makes are made outside loop() or in a callback.
RunnerCalls ==
  cp[Runner] \notin {"idle", "dead"} =>
    \/ lp[Runner] = "out"
    \/ lp[Runner] \in {"io", "run"} /\ inCb[Runner]

\* state_ follows Runner's position in loop().
StateFollowsLoop ==
  /\ lp[Runner] = "out" => state \in {"Ready", "End"}
  /\ lp[Runner] = "enter" => state = "Ready"
  /\ lp[Runner] \in {"while", "poll"} => state \in {"Ready", "PendingHandling"}
  /\ lp[Runner] = "wait" => state = "Polling"
  /\ lp[Runner] = "io" => state = "IOHandling"
  /\ lp[Runner] \in {"swap", "run"} => state = "PendingHandling"
  /\ lp[Runner] \in {"cleanup", "clear"} => state = "End"

\* A thread other than Runner that is in endLoop() will not find Ready.
EndersStartedLate ==
  \A t \in Threads \ {Runner} :
    cp[t] \in {"setQuit", "endWake", "endReady"} \/ ret[t] = "endReady"
      => state # "Ready"

\* u will write the eventfd because of a functor it has pushed.
WillWake(u) ==
  \/ cp[u] \in {"wake", "write"}
  \/ cp[u] = "whoami"
  \/ cp[u] = "ifPending"
  \/ cp[u] = "ifReady" /\ state = "Ready"

\* Where Runner no longer empties pendingFunctors_ before it polls.
BeforePolling == {"out", "enter", "while", "poll", "wait", "run"}

\* Queued functors have a wake-up that is still to be seen.
PendingWakes ==
  lp[Runner] \in BeforePolling /\ state # "End" /\ pending # <<>> =>
    wakeFd \/ \E u \in Threads : WillWake(u)

\* Where Runner has passed the test of quit_ and goes to epoll_wait().
QuitWakes ==
  lp[Runner] \in {"poll", "wait"} /\ quit =>
    wakeFd \/ \E u \in Threads : cp[u] \in {"wake", "write", "endWake"}

\* Where the loop's thread and its state can be together.
Control == /\ OnlyRunnerLoops
           /\ RunnerCalls
           /\ StateFollowsLoop
           /\ EndersStartedLate

\* Both reasons to wake the loop are seen.
Wakes == PendingWakes /\ QuitWakes

\* The inductive invariant.
IInv == TypeInv /\ Control /\ Wakes

\* Every step keeps the control part.
LEMMA ControlStep ==
  ASSUME SafeUse, TypeInv, Control, [Next]_vars
  PROVE  Control'
<1> USE ThreadAssumption
    DEF SafeUse, TypeInv, TypeOK, HoldsFunctor, Control, OnlyRunnerLoops,
        RunnerCalls, StateFollowsLoop, EndersStartedLate, isLoopThread,
        Goto, Crash, loopVars, callVars, historyVars
<1>1. ASSUME NEW t \in Threads, NEW f \in Functors, RunInline(t, f)
      PROVE Control'
  BY <1>1 DEF RunInline, CanCall
<1>2. ASSUME NEW t \in Threads, NEW f \in Functors, Submit(t, f)
      PROVE Control'
  BY <1>2 DEF Submit, CanCall
<1>3. ASSUME NEW t \in Threads, EndLoop(t) PROVE Control'
  BY <1>3 DEF EndLoop, CanCall
<1>4. ASSUME NEW t \in Threads, QueueUnlessEnd(t) PROVE Control'
  BY <1>4 DEF QueueUnlessEnd
<1>5. ASSUME NEW t \in Threads, Push(t) PROVE Control'
  BY <1>5 DEF Push
<1>6. ASSUME NEW t \in Threads, WakeIfOtherThread(t) PROVE Control'
  BY <1>6 DEF WakeIfOtherThread
<1>7. ASSUME NEW t \in Threads, WakeIfPendingHandling(t) PROVE Control'
  BY <1>7 DEF WakeIfPendingHandling
<1>8. ASSUME NEW t \in Threads, WakeIfReady(t) PROVE Control'
  BY <1>8 DEF WakeIfReady
<1>9. ASSUME NEW t \in Threads, WakeUnlessEnd(t) PROVE Control'
  BY <1>9 DEF WakeUnlessEnd
<1>10. ASSUME NEW t \in Threads, WriteWakeFd(t) PROVE Control'
  BY <1>10 DEF WriteWakeFd
<1>11. ASSUME NEW t \in Threads, SetQuit(t) PROVE Control'
  BY <1>11 DEF SetQuit
<1>12. ASSUME NEW t \in Threads, EndWakes(t) PROVE Control'
  BY <1>12 DEF EndWakes
<1>13. ASSUME NEW t \in Threads, EndRunsLoop(t) PROVE Control'
  BY <1>13 DEF EndRunsLoop
<1>14. ASSUME NEW t \in Threads, CallLoop(t) PROVE Control'
  BY <1>14 DEF CallLoop, CanCall
<1>15. ASSUME NEW t \in Threads, UpdateThreadId(t) PROVE Control'
  BY <1>15 DEF UpdateThreadId
<1>16. ASSUME NEW t \in Threads, WhileNotQuit(t) PROVE Control'
  BY <1>16, ZenonT(60) DEF WhileNotQuit
<1>17. ASSUME NEW t \in Threads, StartPolling(t) PROVE Control'
  BY <1>17 DEF StartPolling
<1>18. ASSUME NEW t \in Threads, PollReturns(t) PROVE Control'
  BY <1>18 DEF PollReturns
<1>19. ASSUME NEW t \in Threads, handleWakeUp(t) PROVE Control'
  BY <1>19 DEF handleWakeUp, InLoopBody
<1>20. ASSUME NEW t \in Threads, HandleUserIO(t) PROVE Control'
  BY <1>20 DEF HandleUserIO, InLoopBody
<1>21. ASSUME NEW t \in Threads, CallbackReturns(t) PROVE Control'
  BY <1>21 DEF CallbackReturns, CanCall
<1>22. ASSUME NEW t \in Threads, StartPendingHandling(t) PROVE Control'
  BY <1>22 DEF StartPendingHandling, InLoopBody
<1>23. ASSUME NEW t \in Threads, SwapPending(t) PROVE Control'
  BY <1>23 DEF SwapPending
<1>24. ASSUME NEW t \in Threads, RunFunctor(t) PROVE Control'
  BY <1>24 DEF RunFunctor, InLoopBody
<1>25. ASSUME NEW t \in Threads, FunctorsDone(t) PROVE Control'
  BY <1>25 DEF FunctorsDone, InLoopBody
<1>26. ASSUME NEW t \in Threads, ResetHandlers(t) PROVE Control'
  BY <1>26, ZenonT(60) DEF ResetHandlers
<1>27. ASSUME NEW t \in Threads, ClearPending(t) PROVE Control'
  BY <1>27 DEF ClearPending
<1>28. CASE UserIO
  BY <1>28 DEF UserIO
<1>29. CASE UNCHANGED vars
  BY <1>29 DEF vars
<1>30. QED
  BY <1>1, <1>2, <1>3, <1>4, <1>5, <1>6, <1>7, <1>8, <1>9, <1>10, <1>11,
     <1>12, <1>13, <1>14, <1>15, <1>16, <1>17, <1>18, <1>19, <1>20, <1>21,
     <1>22, <1>23, <1>24, <1>25, <1>26, <1>27, <1>28, <1>29
     DEF Next, Call, Continue, LoopStep

\* Every step keeps the wake-ups.
LEMMA WakeStep ==
  ASSUME SafeUse, IInv, [Next]_vars
  PROVE  Wakes'
<1> USE ThreadAssumption
    DEF SafeUse, IInv, TypeInv, TypeOK, HoldsFunctor, Control,
        OnlyRunnerLoops, RunnerCalls, StateFollowsLoop, EndersStartedLate,
        Wakes, PendingWakes, QuitWakes, WillWake, BeforePolling, isLoopThread,
        Goto, Crash, loopVars, callVars, historyVars
<1>1. ASSUME NEW t \in Threads, NEW f \in Functors, RunInline(t, f)
      PROVE Wakes'
  BY <1>1 DEF RunInline, CanCall
<1>2. ASSUME NEW t \in Threads, NEW f \in Functors, Submit(t, f)
      PROVE Wakes'
  BY <1>2 DEF Submit, CanCall
<1>3. ASSUME NEW t \in Threads, EndLoop(t) PROVE Wakes'
  BY <1>3 DEF EndLoop, CanCall
<1>4. ASSUME NEW t \in Threads, QueueUnlessEnd(t) PROVE Wakes'
  BY <1>4 DEF QueueUnlessEnd
<1>5. ASSUME NEW t \in Threads, Push(t) PROVE Wakes'
  BY <1>5 DEF Push
<1>6. ASSUME NEW t \in Threads, WakeIfOtherThread(t) PROVE Wakes'
  BY <1>6 DEF WakeIfOtherThread
<1>7. ASSUME NEW t \in Threads, WakeIfPendingHandling(t) PROVE Wakes'
  BY <1>7 DEF WakeIfPendingHandling
<1>8. ASSUME NEW t \in Threads, WakeIfReady(t) PROVE Wakes'
  BY <1>8 DEF WakeIfReady
<1>9. ASSUME NEW t \in Threads, WakeUnlessEnd(t) PROVE Wakes'
  BY <1>9 DEF WakeUnlessEnd
<1>10. ASSUME NEW t \in Threads, WriteWakeFd(t) PROVE Wakes'
  BY <1>10 DEF WriteWakeFd
<1>11. ASSUME NEW t \in Threads, SetQuit(t) PROVE Wakes'
  BY <1>11 DEF SetQuit
<1>12. ASSUME NEW t \in Threads, EndWakes(t) PROVE Wakes'
  BY <1>12 DEF EndWakes
<1>13. ASSUME NEW t \in Threads, EndRunsLoop(t) PROVE Wakes'
  <2>1. \A u \in Threads : cp[u] # "endReady" => cp'[u] = cp[u]
    BY <1>13 DEF EndRunsLoop
  <2>2. lp'[Runner] \in BeforePolling => lp[Runner] \in BeforePolling
    BY <1>13 DEF EndRunsLoop
  <2>3. PendingWakes'
    BY <1>13, <2>1, <2>2 DEF EndRunsLoop
  <2>4. lp'[Runner] \in {"poll", "wait"} => lp[Runner] \in {"poll", "wait"}
    BY <1>13 DEF EndRunsLoop
  <2>5. QuitWakes'
    BY <1>13, <2>1, <2>4 DEF EndRunsLoop
  <2>6. QED
    BY <2>3, <2>5
<1>14. ASSUME NEW t \in Threads, CallLoop(t) PROVE Wakes'
  BY <1>14 DEF CallLoop, CanCall
<1>15. ASSUME NEW t \in Threads, UpdateThreadId(t) PROVE Wakes'
  BY <1>15 DEF UpdateThreadId
<1>16. ASSUME NEW t \in Threads, WhileNotQuit(t) PROVE Wakes'
  BY <1>16 DEF WhileNotQuit
<1>17. ASSUME NEW t \in Threads, StartPolling(t) PROVE Wakes'
  BY <1>17 DEF StartPolling
<1>18. ASSUME NEW t \in Threads, PollReturns(t) PROVE Wakes'
  BY <1>18 DEF PollReturns
<1>19. ASSUME NEW t \in Threads, handleWakeUp(t) PROVE Wakes'
  BY <1>19 DEF handleWakeUp, InLoopBody
<1>20. ASSUME NEW t \in Threads, HandleUserIO(t) PROVE Wakes'
  BY <1>20 DEF HandleUserIO, InLoopBody
<1>21. ASSUME NEW t \in Threads, CallbackReturns(t) PROVE Wakes'
  BY <1>21 DEF CallbackReturns, CanCall
<1>22. ASSUME NEW t \in Threads, StartPendingHandling(t) PROVE Wakes'
  BY <1>22 DEF StartPendingHandling, InLoopBody
<1>23. ASSUME NEW t \in Threads, SwapPending(t) PROVE Wakes'
  BY <1>23 DEF SwapPending
<1>24. ASSUME NEW t \in Threads, RunFunctor(t) PROVE Wakes'
  BY <1>24 DEF RunFunctor, InLoopBody
<1>25. ASSUME NEW t \in Threads, FunctorsDone(t) PROVE Wakes'
  BY <1>25 DEF FunctorsDone, InLoopBody
<1>26. ASSUME NEW t \in Threads, ResetHandlers(t) PROVE Wakes'
  BY <1>26 DEF ResetHandlers
<1>27. ASSUME NEW t \in Threads, ClearPending(t) PROVE Wakes'
  BY <1>27 DEF ClearPending
<1>28. CASE UserIO
  BY <1>28 DEF UserIO
<1>29. CASE UNCHANGED vars
  BY <1>29 DEF vars
<1>30. QED
  BY <1>1, <1>2, <1>3, <1>4, <1>5, <1>6, <1>7, <1>8, <1>9, <1>10, <1>11,
     <1>12, <1>13, <1>14, <1>15, <1>16, <1>17, <1>18, <1>19, <1>20, <1>21,
     <1>22, <1>23, <1>24, <1>25, <1>26, <1>27, <1>28, <1>29
     DEF Next, Call, Continue, LoopStep

\* The new loop satisfies the invariant.
LEMMA IInvInit == SafeUse /\ Init => IInv
  BY ThreadAssumption, TypeInvInit
  DEF SafeUse, Init, IInv, Control, OnlyRunnerLoops, RunnerCalls,
      StateFollowsLoop, EndersStartedLate, Wakes, PendingWakes, QuitWakes

\* Every step preserves the invariant.
LEMMA IInvStep == SafeUse /\ IInv /\ [Next]_vars => IInv'
  BY TypeInvStep, ControlStep, WakeStep DEF IInv

\* The reactor never blocks in epoll_wait() while a functor is queued or quit_
\* is set, unless the eventfd is readable or somebody is about to write it.
THEOREM WakeUpIsNotLost ==
  ASSUME SafeUse PROVE Spec => []NoLostWakeUp
<1>1. Init => IInv
  BY IInvInit
<1>2. IInv /\ [Next]_vars => IInv'
  BY IInvStep
<1>3. IInv => NoLostWakeUp
  BY ThreadAssumption
  DEF IInv, TypeInv, TypeOK, Control, OnlyRunnerLoops, RunnerCalls,
      StateFollowsLoop, Wakes, PendingWakes, QuitWakes, BeforePolling, WillWake,
      NoLostWakeUp, Waking, isLoopThread
<1>4. QED
  BY <1>1, <1>2, <1>3, PTL DEF Spec

\* One thread at a time runs loop() and the callbacks.
THEOREM LoopIsSingleThreaded ==
  ASSUME SafeUse PROVE Spec => []SingleLoopThread
<1>1. Init => IInv
  BY IInvInit
<1>2. IInv /\ [Next]_vars => IInv'
  BY IInvStep
<1>3. IInv => SingleLoopThread
  BY DEF IInv, Control, OnlyRunnerLoops, SingleLoopThread, InLoop
<1>4. QED
  BY <1>1, <1>2, <1>3, PTL DEF Spec

-----------------------------------------------------------------------------
(* EventLoop implements FunctorQueue: its steps are steps of the queue, or   *)
(* steps the queue does not see.                                             *)

\* The members of a sequence, and whether each is there once.
Members(q) == {q[i] : i \in 1..Len(q)}
Once(q) == \A i, j \in 1..Len(q) : q[i] = q[j] => i = j

\* The empty sequence has no members.
LEMMA EmptyHasNone ==
  Members(<<>>) = {} /\ Once(<<>>) /\ \A q \in Seq(Functors) : q \o <<>> = q /\ <<>> \o q = q
BY DEF Members, Once

\* A functor is added to a sequence.
LEMMA AppendMembers ==
  ASSUME NEW q \in Seq(Functors), NEW f \in Functors
  PROVE  /\ Append(q, f) \in Seq(Functors) /\ Members(Append(q, f)) = Members(q) \cup {f}
         /\ Once(q) /\ f \notin Members(q) => Once(Append(q, f))
<1> DEFINE p == Append(q, f)
           n == Len(q)
<1>1. /\ p \in Seq(Functors) /\ n \in Nat /\ Len(p) = n + 1
      /\ p[n + 1] = f /\ \A i \in 1..n : p[i] = q[i]
  OBVIOUS
<1> HIDE DEF p, n
<1>2. \A i \in 1..(n + 1) : i \in 1..n \/ i = n + 1
  BY <1>1
<1>3. \A i \in 1..n : i \in 1..(n + 1)
  BY <1>1
<1>4. n + 1 \in 1..(n + 1)
  BY <1>1
<1>5. Members(p) = Members(q) \cup {f}
  <2>1. Members(p) = {p[i] : i \in 1..(n + 1)} /\ Members(q) = {q[i] : i \in 1..n}
    BY <1>1 DEF Members, n
  <2>2. QED
    BY <1>1, <1>2, <1>3, <1>4, <2>1
<1>6. ASSUME Once(q), f \notin Members(q) PROVE Once(p)
  <2>1. \A i, j \in 1..n : q[i] = q[j] => i = j
    BY <1>6 DEF Once, n
  <2>2. \A i \in 1..n : q[i] # f
    BY <1>6 DEF Members, n
  <2>3. \A i, j \in 1..(n + 1) : p[i] = p[j] => i = j
    BY <1>1, <1>2, <2>1, <2>2
  <2>4. QED
    BY <1>1, <2>3 DEF Once
<1>7. QED
  BY <1>1, <1>5, <1>6 DEF p

\* The first functor is taken from a sequence.
LEMMA TailMembers ==
  ASSUME NEW q \in Seq(Functors), q # <<>>
  PROVE  /\ Head(q) \in Functors /\ Tail(q) \in Seq(Functors)
         /\ Members(q) = Members(Tail(q)) \cup {Head(q)}
         /\ Once(q) => Once(Tail(q)) /\ Head(q) \notin Members(Tail(q))
<1> DEFINE p == Tail(q)
           n == Len(q)
<1>1. /\ p \in Seq(Functors) /\ n \in Nat /\ n >= 1 /\ Len(p) = n - 1 /\ Head(q) = q[1]
      /\ Head(q) \in Functors /\ \A i \in 1..(n - 1) : p[i] = q[i + 1]
  OBVIOUS
<1> HIDE DEF p, n
<1>2. \A i \in 1..n : i = 1 \/ (i - 1 \in 1..(n - 1) /\ (i - 1) + 1 = i)
  BY <1>1
<1>3. \A i \in 1..(n - 1) : i + 1 \in 1..n /\ i + 1 # 1
  BY <1>1
<1>4. 1 \in 1..n
  BY <1>1
<1>5. Members(p) = {p[i] : i \in 1..(n - 1)} /\ Members(q) = {q[i] : i \in 1..n}
  BY <1>1 DEF Members, n
<1>6. Members(q) = Members(p) \cup {Head(q)}
  <2>1. ASSUME NEW i \in 1..n PROVE q[i] \in Members(p) \cup {Head(q)}
    BY <1>1, <1>2, <1>5
  <2>2. ASSUME NEW i \in 1..(n - 1) PROVE p[i] \in Members(q)
    BY <1>1, <1>3, <1>5
  <2>3. QED
    BY <1>1, <1>4, <1>5, <2>1, <2>2
<1>7. ASSUME Once(q) PROVE Once(p) /\ Head(q) \notin Members(p)
  <2>1. \A i, j \in 1..n : q[i] = q[j] => i = j
    BY <1>7 DEF Once, n
  <2>2. ASSUME NEW i \in 1..(n - 1), NEW j \in 1..(n - 1), p[i] = p[j] PROVE i = j
    <3>1. i + 1 = j + 1
      BY <1>1, <1>3, <2>1, <2>2
    <3>2. QED
      BY <3>1
  <2>3. \A i \in 1..(n - 1) : p[i] # Head(q)
    BY <1>1, <1>3, <1>4, <2>1
  <2>4. QED
    BY <1>1, <1>5, <2>2, <2>3 DEF Once
<1>8. QED
  BY <1>1, <1>6, <1>7 DEF p

\* Two sequences, one behind the other: what is added goes to the second, what is
\* taken comes from the first.
LEMMA JoinMembers ==
  ASSUME NEW p \in Seq(Functors), NEW q \in Seq(Functors)
  PROVE  /\ p \o q \in Seq(Functors)
         /\ \A f : f \notin Members(p) /\ f \notin Members(q) =>
              \A i \in DOMAIN (p \o q) : (p \o q)[i] # f
         /\ \A f \in Functors : Append(p \o q, f) = p \o Append(q, f)
         /\ p # <<>> => /\ p \o q # <<>> /\ Head(p \o q) = Head(p)
                        /\ Tail(p \o q) = Tail(p) \o q
<1>1. p \o q \in Seq(Functors)
  OBVIOUS
<1>2. ASSUME NEW f, f \notin Members(p), f \notin Members(q), NEW i \in DOMAIN (p \o q)
      PROVE  (p \o q)[i] # f
  <2>1. i \in 1..Len(p) \/ i - Len(p) \in 1..Len(q)
    OBVIOUS
  <2>2. (p \o q)[i] = IF i <= Len(p) THEN p[i] ELSE q[i - Len(p)]
    OBVIOUS
  <2>3. (p \o q)[i] \in Members(p) \cup Members(q)
    BY <2>1, <2>2 DEF Members
  <2>4. QED
    BY <1>2, <2>3
<1>3. ASSUME NEW f \in Functors PROVE Append(p \o q, f) = p \o Append(q, f)
  OBVIOUS
<1>4. ASSUME p # <<>> PROVE /\ p \o q # <<>> /\ Head(p \o q) = Head(p)
                            /\ Tail(p \o q) = Tail(p) \o q
  BY <1>4
<1>5. QED
  BY <1>1, <1>2, <1>3, <1>4

\* A thread that holds a functor nobody has queued yet.
Holds(t) == cp[t] \in {"queue", "push"}

\* Every functor is in one place: not submitted, held by one thread, queued, to be
\* run in this round, or run.
InOnePlace ==
  /\ Members(pending) \cap Members(funcs[Runner]) = {}
  /\ Members(pending) \cap Members(ran) = {}
  /\ Members(funcs[Runner]) \cap Members(ran) = {}
  /\ Members(pending) \cap fresh = {} /\ Members(funcs[Runner]) \cap fresh = {}
  /\ Members(ran) \cap fresh = {}
  /\ Once(pending) /\ Once(funcs[Runner]) /\ Once(ran)
  /\ \A t \in Threads : Holds(t) =>
       arg[t] \notin fresh \cup Members(pending) \cup Members(funcs[Runner]) \cup Members(ran)
  /\ \A t, u \in Threads : t # u /\ Holds(t) /\ Holds(u) => arg[t] # arg[u]

\* The functors of a round are run before the next is swapped in, and none is run
\* after the clean-up.
RoundsAreWhole ==
  /\ lp[Runner] \notin {"run", "dead"} => funcs[Runner] = <<>>
  /\ ~wakeHandler => state = "End" /\ lp[Runner] \in {"clear", "out", "dead"}
  /\ lp[Runner] = "clear" => ~wakeHandler

\* The inductive invariant of the refinement.
QueueInv == IInv /\ InOnePlace /\ RoundsAreWhole

\* A new loop has no functor anywhere but with its users.
LEMMA QueueInvInit == SafeUse /\ Init => InOnePlace /\ RoundsAreWhole
BY ThreadAssumption, EmptyHasNone DEF Init, InOnePlace, RoundsAreWhole, Holds

\* Every step keeps the rounds whole.
LEMMA RoundStep ==
  ASSUME SafeUse, IInv, RoundsAreWhole, [Next]_vars
  PROVE  RoundsAreWhole'
<1> USE ThreadAssumption
    DEF SafeUse, IInv, TypeInv, TypeOK, Control, OnlyRunnerLoops,
        RunnerCalls, StateFollowsLoop, RoundsAreWhole,
        Goto, Crash, loopVars, callVars, historyVars
<1>1. ASSUME NEW t \in Threads, NEW f \in Functors, RunInline(t, f)
      PROVE RoundsAreWhole'
  BY <1>1 DEF RunInline, CanCall
<1>2. ASSUME NEW t \in Threads, NEW f \in Functors, Submit(t, f)
      PROVE RoundsAreWhole'
  BY <1>2 DEF Submit, CanCall
<1>3. ASSUME NEW t \in Threads, EndLoop(t) PROVE RoundsAreWhole'
  BY <1>3 DEF EndLoop, CanCall
<1>4. ASSUME NEW t \in Threads, QueueUnlessEnd(t) PROVE RoundsAreWhole'
  BY <1>4 DEF QueueUnlessEnd
<1>5. ASSUME NEW t \in Threads, Push(t) PROVE RoundsAreWhole'
  BY <1>5 DEF Push
<1>6. ASSUME NEW t \in Threads, WakeIfOtherThread(t) PROVE RoundsAreWhole'
  BY <1>6 DEF WakeIfOtherThread
<1>7. ASSUME NEW t \in Threads, WakeIfPendingHandling(t) PROVE RoundsAreWhole'
  BY <1>7 DEF WakeIfPendingHandling
<1>8. ASSUME NEW t \in Threads, WakeIfReady(t) PROVE RoundsAreWhole'
  BY <1>8 DEF WakeIfReady
<1>9. ASSUME NEW t \in Threads, WakeUnlessEnd(t) PROVE RoundsAreWhole'
  BY <1>9 DEF WakeUnlessEnd
<1>10. ASSUME NEW t \in Threads, WriteWakeFd(t) PROVE RoundsAreWhole'
  BY <1>10 DEF WriteWakeFd
<1>11. ASSUME NEW t \in Threads, SetQuit(t) PROVE RoundsAreWhole'
  BY <1>11 DEF SetQuit
<1>12. ASSUME NEW t \in Threads, EndWakes(t) PROVE RoundsAreWhole'
  BY <1>12 DEF EndWakes
<1>13. ASSUME NEW t \in Threads, EndRunsLoop(t) PROVE RoundsAreWhole'
  BY <1>13 DEF EndRunsLoop
<1>14. ASSUME NEW t \in Threads, CallLoop(t) PROVE RoundsAreWhole'
  BY <1>14 DEF CallLoop, CanCall
<1>15. ASSUME NEW t \in Threads, UpdateThreadId(t) PROVE RoundsAreWhole'
  BY <1>15 DEF UpdateThreadId
<1>16. ASSUME NEW t \in Threads, WhileNotQuit(t) PROVE RoundsAreWhole'
  BY <1>16 DEF WhileNotQuit
<1>17. ASSUME NEW t \in Threads, StartPolling(t) PROVE RoundsAreWhole'
  BY <1>17 DEF StartPolling
<1>18. ASSUME NEW t \in Threads, PollReturns(t) PROVE RoundsAreWhole'
  BY <1>18 DEF PollReturns
<1>19. ASSUME NEW t \in Threads, handleWakeUp(t) PROVE RoundsAreWhole'
  BY <1>19 DEF handleWakeUp, InLoopBody
<1>20. ASSUME NEW t \in Threads, HandleUserIO(t) PROVE RoundsAreWhole'
  BY <1>20 DEF HandleUserIO, InLoopBody
<1>21. ASSUME NEW t \in Threads, CallbackReturns(t) PROVE RoundsAreWhole'
  BY <1>21 DEF CallbackReturns, CanCall
<1>22. ASSUME NEW t \in Threads, StartPendingHandling(t) PROVE RoundsAreWhole'
  BY <1>22 DEF StartPendingHandling, InLoopBody
<1>23. ASSUME NEW t \in Threads, SwapPending(t) PROVE RoundsAreWhole'
  BY <1>23 DEF SwapPending
<1>24. ASSUME NEW t \in Threads, RunFunctor(t) PROVE RoundsAreWhole'
  BY <1>24 DEF RunFunctor, InLoopBody
<1>25. ASSUME NEW t \in Threads, FunctorsDone(t) PROVE RoundsAreWhole'
  BY <1>25 DEF FunctorsDone, InLoopBody
<1>26. ASSUME NEW t \in Threads, ResetHandlers(t) PROVE RoundsAreWhole'
  BY <1>26 DEF ResetHandlers
<1>27. ASSUME NEW t \in Threads, ClearPending(t) PROVE RoundsAreWhole'
  BY <1>27 DEF ClearPending
<1>28. CASE UserIO
  BY <1>28 DEF UserIO
<1>29. CASE UNCHANGED vars
  BY <1>29 DEF vars
<1>30. QED
  BY <1>1, <1>2, <1>3, <1>4, <1>5, <1>6, <1>7, <1>8, <1>9, <1>10, <1>11,
     <1>12, <1>13, <1>14, <1>15, <1>16, <1>17, <1>18, <1>19, <1>20, <1>21,
     <1>22, <1>23, <1>24, <1>25, <1>26, <1>27, <1>28, <1>29
     DEF Next, Call, Continue, LoopStep

\* What the queue does not see: no functor changes its place.
Unseen ==
  /\ fresh' = fresh /\ ran' = ran /\ pending' = pending /\ funcs' = funcs
  /\ wakeHandler' = wakeHandler
  /\ \A t \in Threads : Holds(t)' => Holds(t) /\ arg'[t] = arg[t]

\* A step of the queue, or one it does not see, that leaves functors in one place.
IsQueueStep == InOnePlace' /\ [Queue!Next]_(Queue!vars)

\* Such a step is one the queue stutters in.
LEMMA UnseenStep == ASSUME InOnePlace, Unseen PROVE IsQueueStep
<1>1. InOnePlace'
  BY DEF InOnePlace, Unseen
<1>2. UNCHANGED Queue!vars
  BY DEF Unseen, Queue!vars
<1>3. QED
  BY <1>1, <1>2 DEF IsQueueStep

\* Most steps are of that kind.
LEMMA UnseenSteps ==
  ASSUME TypeInv, NEW t \in Threads,
         EndLoop(t) \/ QueueUnlessEnd(t) \/ WakeIfOtherThread(t)
           \/ WakeIfPendingHandling(t) \/ WakeIfReady(t) \/ WakeUnlessEnd(t)
           \/ WriteWakeFd(t) \/ SetQuit(t) \/ EndWakes(t) \/ EndRunsLoop(t)
           \/ CallLoop(t) \/ UpdateThreadId(t) \/ WhileNotQuit(t) \/ StartPolling(t)
           \/ PollReturns(t) \/ handleWakeUp(t) \/ HandleUserIO(t)
           \/ CallbackReturns(t) \/ StartPendingHandling(t) \/ FunctorsDone(t)
  PROVE  Unseen
<1> USE DEF TypeInv, TypeOK, Unseen, Holds, Goto, Crash, loopVars, callVars, historyVars
<1>1. CASE EndLoop(t)
  BY <1>1 DEF EndLoop, CanCall
<1>2. CASE QueueUnlessEnd(t)
  BY <1>2 DEF QueueUnlessEnd
<1>3. CASE WakeIfOtherThread(t)
  BY <1>3 DEF WakeIfOtherThread
<1>4. CASE WakeIfPendingHandling(t)
  BY <1>4 DEF WakeIfPendingHandling
<1>5. CASE WakeIfReady(t)
  BY <1>5 DEF WakeIfReady
<1>6. CASE WakeUnlessEnd(t)
  BY <1>6 DEF WakeUnlessEnd
<1>7. CASE WriteWakeFd(t)
  BY <1>7 DEF WriteWakeFd
<1>8. CASE SetQuit(t)
  BY <1>8 DEF SetQuit
<1>9. CASE EndWakes(t)
  BY <1>9 DEF EndWakes
<1>10. CASE EndRunsLoop(t)
  BY <1>10 DEF EndRunsLoop
<1>11. CASE CallLoop(t)
  BY <1>11 DEF CallLoop, CanCall
<1>12. CASE UpdateThreadId(t)
  BY <1>12 DEF UpdateThreadId
<1>13. CASE WhileNotQuit(t)
  BY <1>13 DEF WhileNotQuit
<1>14. CASE StartPolling(t)
  BY <1>14 DEF StartPolling
<1>15. CASE PollReturns(t)
  BY <1>15 DEF PollReturns
<1>16. CASE handleWakeUp(t)
  BY <1>16 DEF handleWakeUp, InLoopBody
<1>17. CASE HandleUserIO(t)
  BY <1>17 DEF HandleUserIO, InLoopBody
<1>18. CASE CallbackReturns(t)
  BY <1>18 DEF CallbackReturns, CanCall
<1>19. CASE StartPendingHandling(t)
  BY <1>19 DEF StartPendingHandling, InLoopBody
<1>20. CASE FunctorsDone(t)
  BY <1>20 DEF FunctorsDone, InLoopBody
<1>21. QED
  BY <1>1, <1>2, <1>3, <1>4, <1>5, <1>6, <1>7, <1>8, <1>9, <1>10, <1>11,
     <1>12, <1>13, <1>14, <1>15, <1>16, <1>17, <1>18, <1>19, <1>20

\* The places of the functors, by their types.
LEMMA PlacesAre ==
  ASSUME QueueInv
  PROVE  /\ pending \in Seq(Functors) /\ funcs[Runner] \in Seq(Functors)
         /\ ran \in Seq(Functors) /\ funcs[Runner] \o pending \in Seq(Functors)
         /\ fresh \subseteq Functors
         /\ InOnePlace /\ RoundsAreWhole /\ TypeInv
<1>1. /\ pending \in Seq(Functors) /\ funcs[Runner] \in Seq(Functors)
      /\ ran \in Seq(Functors) /\ fresh \subseteq Functors
  BY ThreadAssumption DEF QueueInv, IInv, TypeInv, TypeOK
<1>2. QED
  BY <1>1, JoinMembers DEF QueueInv, IInv

\* A functor that is run at once was with its user.
LEMMA RunInlineStep ==
  ASSUME QueueInv, NEW t \in Threads, NEW f \in Functors, RunInline(t, f)
  PROVE  IsQueueStep
<1>1. /\ f \in fresh /\ fresh' = fresh \ {f} /\ ran' = Append(ran, f)
      /\ pending' = pending /\ funcs' = funcs /\ wakeHandler' = wakeHandler
      /\ cp' = cp /\ arg' = arg
  BY DEF RunInline, callVars
<1>2. /\ Members(ran') = Members(ran) \cup {f}
      /\ Once(ran) /\ f \notin Members(ran) => Once(ran')
  BY <1>1, PlacesAre, AppendMembers
<1>3. InOnePlace'
  BY <1>1, <1>2, PlacesAre DEF InOnePlace, Holds
<1>4. Queue!RunInline(f)
  BY <1>1 DEF Queue!RunInline
<1>5. QED
  BY <1>1, <1>3, <1>4 DEF IsQueueStep, Queue!Next

\* The thread takes a functor that was with its user.
LEMMA SubmitStep ==
  ASSUME QueueInv, NEW t \in Threads, NEW f \in Functors, Submit(t, f)
  PROVE  IsQueueStep
<1>1. /\ f \in fresh /\ fresh' = fresh \ {f} /\ ran' = ran
      /\ pending' = pending /\ funcs' = funcs /\ wakeHandler' = wakeHandler
      /\ cp' = [cp EXCEPT ![t] = "queue"] /\ arg' = [arg EXCEPT ![t] = f]
      /\ cp[t] = "idle"
  BY DEF Submit, loopVars, Goto, CanCall
<1>2. InOnePlace'
  <2>1. /\ arg'[t] = f /\ \A u \in Threads \ {t} : arg'[u] = arg[u] /\ cp'[u] = cp[u]
    BY <1>1, PlacesAre DEF TypeInv, TypeOK
  <2>2. QED
    BY <1>1, <2>1, PlacesAre DEF InOnePlace, Holds
<1>3. Queue!Offer(f)
  BY <1>1 DEF Queue!Offer
<1>4. QED
  BY <1>1, <1>2, <1>3 DEF IsQueueStep, Queue!Next

\* What a thread pushes is in no other place.
LEMMA PushStep ==
  ASSUME QueueInv, NEW t \in Threads, Push(t) PROVE IsQueueStep
<1> DEFINE f == arg[t]
<1>1. /\ fresh' = fresh /\ ran' = ran /\ pending' = Append(pending, f)
      /\ funcs' = funcs /\ wakeHandler' = wakeHandler
      /\ cp' = [cp EXCEPT ![t] = "whoami"] /\ cp[t] = "push"
      /\ arg' = [arg EXCEPT ![t] = NoFunctor]
  BY DEF Push, loopVars, Goto, historyVars
<1>2. f \in Functors
  BY <1>1, PlacesAre DEF TypeInv, HoldsFunctor
<1>3. f \notin fresh \cup Members(pending) \cup Members(funcs[Runner]) \cup Members(ran)
      /\ \A u \in Threads \ {t} : Holds(u) => arg[u] # f
  BY <1>1, PlacesAre DEF InOnePlace, Holds
<1> HIDE DEF f
<1>4. /\ Members(pending') = Members(pending) \cup {f}
      /\ Once(pending) /\ f \notin Members(pending) => Once(pending')
  BY <1>1, <1>2, PlacesAre, AppendMembers
<1>5. /\ cp'[t] = "whoami" /\ \A u \in Threads \ {t} : arg'[u] = arg[u] /\ cp'[u] = cp[u]
  BY <1>1, PlacesAre DEF TypeInv, TypeOK
<1>6. InOnePlace'
  BY <1>1, <1>3, <1>4, <1>5, PlacesAre DEF InOnePlace, Holds
<1>7. Queue!Accept(f)
  <2>0. funcs[Runner] \in Seq(Functors) /\ pending \in Seq(Functors)
    BY PlacesAre
  <2>1. \A i \in DOMAIN (funcs[Runner] \o pending) : (funcs[Runner] \o pending)[i] # f
    BY ONLY <1>3, <2>0, JoinMembers
  <2>2. \A i \in DOMAIN ran : ran[i] # f
    <3>1. DOMAIN ran = 1..Len(ran)
      BY PlacesAre
    <3>2. QED
      BY <1>3, <3>1 DEF Members
  <2>3. funcs'[Runner] \o pending' = Append(funcs[Runner] \o pending, f)
    <3>1. Append(funcs[Runner] \o pending, f) = funcs[Runner] \o Append(pending, f)
      <4>1. \A g \in Functors :
              Append(funcs[Runner] \o pending, g) = funcs[Runner] \o Append(pending, g)
        BY ONLY <2>0, JoinMembers, Zenon
      <4>2. QED
        BY <1>2, <4>1, Zenon
    <3>2. QED
      BY <1>1, <3>1
  <2>4. QED
    BY <1>1, <1>3, <2>1, <2>2, <2>3 DEF Queue!Accept
<1>8. QED
  BY <1>2, <1>6, <1>7 DEF IsQueueStep, Queue!Next

\* The swap moves the functors of the queue, and there were none of an older round.
LEMMA SwapPendingStep ==
  ASSUME SafeUse, QueueInv, NEW t \in Threads, SwapPending(t) PROVE IsQueueStep
<1>1. t = Runner /\ funcs[Runner] = <<>>
  BY ThreadAssumption DEF SwapPending, QueueInv, IInv, Control, OnlyRunnerLoops,
     RoundsAreWhole
<1>2. /\ fresh' = fresh /\ ran' = ran /\ pending' = <<>> /\ funcs'[Runner] = pending
      /\ wakeHandler' = wakeHandler /\ cp' = cp /\ arg' = arg
  BY <1>1, PlacesAre DEF SwapPending, callVars, historyVars, TypeInv, TypeOK
<1>3. InOnePlace'
  BY <1>1, <1>2, PlacesAre, EmptyHasNone DEF InOnePlace, Holds
<1>4. funcs'[Runner] \o pending' = funcs[Runner] \o pending
  BY <1>1, <1>2, PlacesAre, EmptyHasNone
<1>5. UNCHANGED Queue!vars
  BY <1>2, <1>4 DEF Queue!vars
<1>6. QED
  BY <1>3, <1>5 DEF IsQueueStep

\* The functor that is run is the first of the queue, and the queue is open.
LEMMA RunFunctorStep ==
  ASSUME SafeUse, QueueInv, NEW t \in Threads, RunFunctor(t) PROVE IsQueueStep
<1>1. t = Runner /\ wakeHandler
  BY ThreadAssumption DEF RunFunctor, InLoopBody, QueueInv, IInv, Control,
     OnlyRunnerLoops, RoundsAreWhole
<1> DEFINE q == funcs[Runner]
<1>2. /\ q # <<>> /\ fresh' = fresh /\ ran' = Append(ran, Head(q)) /\ pending' = pending
      /\ funcs'[Runner] = Tail(q) /\ wakeHandler' = wakeHandler /\ cp' = cp /\ arg' = arg
  BY <1>1, PlacesAre DEF RunFunctor, callVars, TypeInv, TypeOK
<1>3. q \in Seq(Functors) /\ pending \in Seq(Functors) /\ ran \in Seq(Functors)
      /\ q \o pending \in Seq(Functors)
  BY PlacesAre
<1>4. InOnePlace
  BY PlacesAre
<1>5. /\ Head(q) \in Functors /\ Members(q) = Members(Tail(q)) \cup {Head(q)}
      /\ Once(q) => Once(Tail(q)) /\ Head(q) \notin Members(Tail(q))
  BY <1>2, <1>3, TailMembers
<1>6. /\ Members(ran') = Members(ran) \cup {Head(q)}
      /\ Once(ran) /\ Head(q) \notin Members(ran) => Once(ran')
  BY <1>2, <1>3, <1>5, AppendMembers
<1>7. /\ q \o pending # <<>> /\ Head(q \o pending) = Head(q)
      /\ Tail(q \o pending) = Tail(q) \o pending
  BY <1>2, <1>3, JoinMembers
<1>8. InOnePlace'
  <2> DEFINE h == Head(q)
             m == Members(q)
             n == Members(Tail(q))
  <2>1. m = n \cup {h} /\ h \notin n /\ Once(Tail(q)) /\ Members(ran') = Members(ran) \cup {h}
        /\ h \notin Members(ran) /\ Once(ran')
    BY <1>4, <1>5, <1>6 DEF InOnePlace
  <2>2. Members(funcs'[Runner]) = n /\ Once(funcs'[Runner])
    BY <1>2, <2>1
  <2> HIDE DEF h, n
  <2>3. QED
    BY <1>2, <1>4, <2>1, <2>2 DEF InOnePlace, Holds
<1>9. Queue!RunFirst
  BY <1>2, <1>7 DEF Queue!RunFirst
<1>10. QED
  BY <1>1, <1>8, <1>9 DEF IsQueueStep, Queue!Next

\* The clean-up closes the queue.
LEMMA ResetHandlersStep ==
  ASSUME SafeUse, QueueInv, NEW t \in Threads, ResetHandlers(t) PROVE IsQueueStep
<1>1. t = Runner /\ wakeHandler
  BY ThreadAssumption DEF ResetHandlers, QueueInv, IInv, Control, OnlyRunnerLoops,
     RoundsAreWhole
<1>2. /\ fresh' = fresh /\ ran' = ran /\ pending' = pending /\ funcs' = funcs
      /\ wakeHandler' = FALSE /\ cp' = cp /\ arg' = arg
  BY <1>1 DEF ResetHandlers, historyVars
<1>3. InOnePlace'
  BY <1>2, PlacesAre DEF InOnePlace, Holds
<1>4. Queue!Close
  BY <1>2 DEF Queue!Close
<1>5. QED
  BY <1>1, <1>3, <1>4 DEF IsQueueStep, Queue!Next

\* What is cleared is dropped after that.
LEMMA ClearPendingStep ==
  ASSUME SafeUse, QueueInv, NEW t \in Threads, ClearPending(t) PROVE IsQueueStep
<1>1. t = Runner /\ ~wakeHandler /\ funcs[Runner] = <<>>
  BY ThreadAssumption DEF ClearPending, QueueInv, IInv, Control, OnlyRunnerLoops,
     RoundsAreWhole
<1>2. /\ fresh' = fresh /\ ran' = ran /\ pending' = <<>> /\ funcs' = funcs
      /\ wakeHandler' = wakeHandler /\ cp' = cp /\ arg' = arg
  BY DEF ClearPending, callVars, historyVars
<1>3. InOnePlace'
  BY <1>2, PlacesAre, EmptyHasNone DEF InOnePlace, Holds
<1>4. <<>> \in Seq(Functors)
  OBVIOUS
<1>5. funcs'[Runner] \o pending' = <<>>
  BY <1>1, <1>2, <1>4, EmptyHasNone
<1>6. Queue!Drop
  BY <1>2, <1>5 DEF Queue!Drop
<1>7. QED
  BY <1>1, <1>3, <1>6 DEF IsQueueStep, Queue!Next

\* So every step is one of the queue or unseen, and keeps the invariant.
LEMMA QueueStep == ASSUME SafeUse, QueueInv, [Next]_vars PROVE IsQueueStep /\ QueueInv'
<1>1. InOnePlace /\ TypeInv /\ IInv /\ RoundsAreWhole
  BY PlacesAre DEF QueueInv
<1>2. ASSUME NEW t \in Threads, Call(t) \/ Continue(t) \/ CallLoop(t) \/ LoopStep(t)
      PROVE  IsQueueStep
  BY <1>1, <1>2, UnseenStep, UnseenSteps, RunInlineStep, SubmitStep, PushStep,
     SwapPendingStep, RunFunctorStep, ResetHandlersStep, ClearPendingStep
     DEF Call, Continue, LoopStep
<1>3. ASSUME UserIO \/ UNCHANGED vars PROVE IsQueueStep
  <2>1. Unseen
    BY <1>3 DEF UserIO, vars, Unseen, Holds, loopVars, callVars, historyVars
  <2>2. QED
    BY <1>1, <2>1, UnseenStep
<1>5. IsQueueStep
  BY <1>2, <1>3 DEF Next
<1>6. IInv' /\ RoundsAreWhole'
  BY <1>1, IInvStep, RoundStep
<1>7. QED
  BY <1>5, <1>6 DEF IsQueueStep, QueueInv

\* Under the discipline the invariant holds at all times.
LEMMA QueueInvHolds == ASSUME SafeUse PROVE Spec => []QueueInv
<1>1. Init => QueueInv
  BY IInvInit, QueueInvInit DEF QueueInv
<1>2. QueueInv /\ [Next]_vars => QueueInv'
  BY QueueStep
<1>3. QED
  BY <1>1, <1>2, PTL DEF Spec

\* Those who submit functors see a FIFO queue with one consumer: each functor is
\* queued once, and run in the order they were queued, none is lost before the loop
\* is ended and none that is queued is run after it.
THEOREM LoopImplementsQueue == ASSUME SafeUse PROVE Spec => Queue!Spec
<1>1. Init => Queue!Init
  BY ThreadAssumption, EmptyHasNone DEF Init, Queue!Init
<1>2. QueueInv /\ [Next]_vars => [Queue!Next]_(Queue!vars)
  BY QueueStep DEF IsQueueStep
<1>3. QED
  BY <1>1, <1>2, QueueInvHolds, PTL DEF Spec, Queue!Spec

\* No functor is run twice, by whichever of the ways it was submitted.
THEOREM FunctorsRunOnce ==
  ASSUME SafeUse PROVE Spec => [](\A i, j \in 1..Len(ran) : ran[i] = ran[j] => i = j)
<1>1. QueueInv => \A i, j \in 1..Len(ran) : ran[i] = ran[j] => i = j
  BY DEF QueueInv, InOnePlace, Once
<1>2. QED
  BY <1>1, QueueInvHolds, PTL

-----------------------------------------------------------------------------
(* When the eventfd's handler is used after loop() has reset it. *)

\* loop() resets the handler while no other thread is in wakeUp() between its
\* test of state_ and the write.
NobodyWritesAtReset ==
  \A t \in Threads : ResetHandlers(t) => \A u \in Threads \ {Runner} : cp[u] # "write"

\* The handler is gone only in End, when loop() has passed, and then nobody writes
\* through it; no thread has done so.
HandlerInv ==
  /\ ~wakeHandler => /\ state = "End" /\ lp[Runner] \in {"out", "clear"}
                     /\ \A u \in Threads : cp[u] # "write"
  /\ WakeUpHandlerAlive

\* A step that takes nobody to the write or into a crash, and neither resets the
\* handler nor leaves the end.
LEMMA HandlerKept ==
  ASSUME HandlerInv,
         wakeHandler' = wakeHandler,
         wakeHandler \/ (state' = state /\ lp'[Runner] \in {"out", "clear"}),
         \A u \in Threads : cp'[u] # "dead" /\ (wakeHandler \/ cp'[u] # "write")
  PROVE  HandlerInv'
BY DEF HandlerInv, WakeUpHandlerAlive

\* Every step that is no such reset keeps the handler alive.
LEMMA HandlerStep ==
  ASSUME SafeUse, QueueInv, HandlerInv, [Next]_vars, [NobodyWritesAtReset]_vars
  PROVE  HandlerInv'
<1>0. /\ IInv /\ TypeInv /\ Runner \in Threads
      /\ threadId = Runner
      /\ \A u \in Threads \ {Runner} : lp[u] \in {"out", "dead"} /\ ~inCb[u]
      /\ cp \in [Threads -> CallPoint] /\ lp \in [Threads -> LoopPoint]
      /\ ret \in [Threads -> {"idle", "endReady"}]
      /\ WakeUpHandlerAlive
  BY ThreadAssumption DEF QueueInv, IInv, TypeInv, TypeOK, Control, OnlyRunnerLoops, HandlerInv
<1> USE <1>0 DEF Goto, loopVars, callVars, historyVars
<1>1. ASSUME NEW t \in Threads, Call(t) PROVE HandlerInv'
  <2>1. /\ wakeHandler' = wakeHandler /\ state' = state /\ lp' = lp
        /\ \A u \in Threads : cp'[u] \notin {"dead", "write"} \/ cp'[u] = cp[u]
    BY <1>1 DEF Call, RunInline, Submit, EndLoop
  <2>2. QED
    BY <2>1, HandlerKept DEF HandlerInv, WakeUpHandlerAlive
<1>2. ASSUME NEW t \in Threads, Continue(t), cp[t] \notin {"write", "wake", "endReady"}
      PROVE  HandlerInv'
  <2>1. /\ wakeHandler' = wakeHandler /\ state' = state /\ lp' = lp
        /\ \A u \in Threads : cp'[u] \notin {"dead", "write"} \/ cp'[u] = cp[u]
    BY <1>2, ZenonT(60)
       DEF Continue, QueueUnlessEnd, Push, WakeIfOtherThread, WakeIfPendingHandling,
           WakeIfReady, WakeUnlessEnd, WriteWakeFd, SetQuit, EndWakes, EndRunsLoop
  <2>2. QED
    BY <2>1, HandlerKept DEF HandlerInv, WakeUpHandlerAlive
<1>3. ASSUME NEW t \in Threads, WakeUnlessEnd(t) PROVE HandlerInv'
  <2>1. /\ wakeHandler' = wakeHandler /\ state' = state /\ lp' = lp
        /\ \A u \in Threads : \/ cp'[u] = cp[u]
                              \/ cp'[u] \in {"idle", "endReady"}
                              \/ cp'[u] = "write" /\ state # "End"
    BY <1>3 DEF WakeUnlessEnd
  <2>2. QED
    BY <2>1, HandlerKept DEF HandlerInv, WakeUpHandlerAlive
<1>4. ASSUME NEW t \in Threads, WriteWakeFd(t) PROVE HandlerInv'
  <2>1. wakeHandler
    BY <1>4 DEF WriteWakeFd, HandlerInv
  <2>2. /\ wakeHandler' = wakeHandler
        /\ \A u \in Threads : cp'[u] = cp[u] \/ cp'[u] \in {"idle", "endReady"}
    BY <1>4, <2>1 DEF WriteWakeFd
  <2>3. QED
    BY <2>1, <2>2, HandlerKept DEF WakeUpHandlerAlive
<1>5. ASSUME NEW t \in Threads, EndRunsLoop(t) PROVE HandlerInv'
  <2>1. /\ wakeHandler' = wakeHandler /\ state' = state
        /\ lp' = lp \/ state = "Ready"
        /\ \A u \in Threads : cp'[u] = cp[u] \/ cp'[u] = "idle"
    BY <1>5 DEF EndRunsLoop
  <2>2. QED
    BY <2>1, HandlerKept DEF HandlerInv, WakeUpHandlerAlive
<1>6. ASSUME NEW t \in Threads, CallLoop(t) PROVE HandlerInv'
  <2>1. wakeHandler' = wakeHandler /\ cp' = cp /\ state # "End"
    BY <1>6 DEF CallLoop
  <2>2. QED
    BY <2>1, HandlerKept DEF HandlerInv, WakeUpHandlerAlive
<1>7. ASSUME NEW t \in Threads, LoopStep(t), ~ResetHandlers(t), ~ClearPending(t),
             ~CallbackReturns(t)
      PROVE  HandlerInv'
  <2>1. t = Runner /\ lp[Runner] \notin {"out", "clear"}
    BY <1>7 DEF LoopStep, UpdateThreadId, WhileNotQuit, StartPolling, PollReturns,
       handleWakeUp, HandleUserIO, StartPendingHandling, SwapPending,
       RunFunctor, FunctorsDone, InLoopBody
  <2>2. wakeHandler
    BY <2>1 DEF HandlerInv
  <2>3. wakeHandler' = wakeHandler /\ cp' = cp
    BY <1>7, <2>2 DEF LoopStep, UpdateThreadId, WhileNotQuit, StartPolling, PollReturns,
       handleWakeUp, HandleUserIO, StartPendingHandling, SwapPending,
       RunFunctor, FunctorsDone, InLoopBody
  <2>4. QED
    BY <2>2, <2>3, HandlerKept DEF WakeUpHandlerAlive
<1>8. ASSUME NEW t \in Threads, ResetHandlers(t) PROVE HandlerInv'
  <2>1. t = Runner /\ lp[Runner] = "cleanup" /\ wakeHandler
    BY <1>8 DEF ResetHandlers, HandlerInv
  <2>2. state = "End" /\ cp[Runner] \in {"idle", "dead"}
    BY <2>1 DEF IInv, Control, StateFollowsLoop, RunnerCalls
  <2>3. /\ cp' = cp /\ state' = state /\ lp' = [lp EXCEPT ![Runner] = "clear"]
        /\ wakeHandler' = FALSE
    BY <1>8, <2>1 DEF ResetHandlers
  <2>4. \A u \in Threads \ {Runner} : cp[u] # "write"
    <3>1. ~UNCHANGED vars
      BY <2>1, <2>3 DEF vars
    <3>2. QED
      BY <1>8, <3>1 DEF NobodyWritesAtReset
  <2>5. QED
    BY <2>2, <2>3, <2>4 DEF HandlerInv, WakeUpHandlerAlive
<1>9. ASSUME NEW t \in Threads, ClearPending(t) \/ CallbackReturns(t) PROVE HandlerInv'
  <2>1. /\ wakeHandler' = wakeHandler /\ state' = state /\ cp' = cp
        /\ lp' = lp \/ lp' = [lp EXCEPT ![t] = "out"]
    BY <1>9 DEF ClearPending, CallbackReturns
  <2>2. QED
    BY <2>1, HandlerKept DEF HandlerInv, WakeUpHandlerAlive
<1>10. ASSUME UserIO \/ UNCHANGED vars PROVE HandlerInv'
  <2>1. wakeHandler' = wakeHandler /\ state' = state /\ cp' = cp /\ lp' = lp
    BY <1>10 DEF UserIO, vars
  <2>2. QED
    BY <2>1, HandlerKept DEF HandlerInv, WakeUpHandlerAlive
<1>11. ASSUME NEW t \in Threads, Continue(t), cp[t] \in {"write", "wake", "endReady"}
       PROVE  WakeUnlessEnd(t) \/ WriteWakeFd(t) \/ EndRunsLoop(t)
  BY <1>11 DEF Continue, QueueUnlessEnd, Push, WakeIfOtherThread, WakeIfPendingHandling,
     WakeIfReady, SetQuit, EndWakes
<1>12. QED
  BY <1>1, <1>2, <1>3, <1>4, <1>5, <1>6, <1>7, <1>8, <1>9, <1>10, <1>11 DEF Next

\* The eventfd's handler is dereferenced after loop() has reset it only if a thread
\* is between the test of state_ in wakeUp() and the write as the loop resets it
\* (EventLoop.cpp:221-229, 133-134): where users exclude that one window, by whatever
\* means, submitting to a loop that ends, or has ended, is safe.
THEOREM HandlerOutlivesWriters ==
  ASSUME SafeUse
  PROVE  Spec /\ [][NobodyWritesAtReset]_vars => []WakeUpHandlerAlive
<1>1. Init => HandlerInv
  BY DEF Init, HandlerInv, WakeUpHandlerAlive
<1>2. QueueInv /\ HandlerInv /\ [Next]_vars /\ [NobodyWritesAtReset]_vars => HandlerInv'
  BY HandlerStep
<1>3. HandlerInv => WakeUpHandlerAlive
  BY DEF HandlerInv
<1>4. QED
  BY <1>1, <1>2, <1>3, QueueInvHolds, PTL DEF Spec
=============================================================================
