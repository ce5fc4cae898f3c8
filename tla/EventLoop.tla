----------------------------- MODULE EventLoop -----------------------------
(***************************************************************************)
(* The reactor of src/src/core/EventLoop.cpp: loop(), the cross-thread     *)
(* submission of functors (runInLoop, queueInLoop), the eventfd that wakes *)
(* epoll (wakeUp, handleWakeUp) and the shutdown (endLoop and the clean-up *)
(* at the end of loop()).                                                  *)
(*                                                                         *)
(* One step is one access to state that another thread can see: state_,    *)
(* quit_, threadId_, the eventfd, wakeUpHandler_, or one critical section  *)
(* of pendingFunctorsLock_.  A thread is described by two control points:  *)
(* lp[t], where it stands in loop(), and cp[t], where it stands in the     *)
(* public method it is calling.  A thread inside loop() can only call      *)
(* a method from a callback (inCb).                                        *)
(*                                                                         *)
(* The eventfd is abstracted to "readable or not": write() adds one and    *)
(* handleWakeUp() reads the whole counter.  The file descriptors of users  *)
(* are abstracted to one descriptor that the environment may make ready.   *)
(***************************************************************************)
EXTENDS Sequences, FiniteSets, Naturals

CONSTANTS
  Threads,        \* threads that hold a pointer to the loop
  Creator,        \* the thread that calls EventLoop::create()
  Runner,         \* the thread whose main function calls loop()
  Functors,       \* the callbacks that are submitted, each one once
  Enders,         \* threads that may call endLoop()
  EndBeforeLoop,  \* may a thread other than Runner call endLoop() in Ready?
  NoFunctor       \* the absence of a functor

ASSUME ThreadAssumption == Creator \in Threads /\ Runner \in Threads
ASSUME EnderAssumption == Enders \subseteq Threads /\ EndBeforeLoop \in BOOLEAN
ASSUME FunctorAssumption == NoFunctor \notin Functors

VARIABLES
  state,        \* state_
  quit,         \* quit_
  threadId,     \* threadId_
  pending,      \* pendingFunctors_
  wakeFd,       \* is the counter of the eventfd non-zero?
  wakeHandler,  \* is wakeUpHandler_ not null?
  ioReady,      \* is a descriptor of the user ready?
  lp,           \* where each thread is in loop()
  batch,        \* the events of res that each looping thread has left
  funcs,        \* the local vector funcs of each looping thread
  inCb,         \* is the thread in the body of a callback?
  cp,           \* where each thread is in runInLoop, queueInLoop, endLoop...
  ret,          \* where the thread goes on when wakeUp() returns
  arg,          \* the functor the thread is submitting
  fresh,        \* functors not submitted yet
  ran           \* functors run so far, in order

loopVars == <<lp, batch, funcs, inCb>>
callVars == <<cp, ret, arg>>
historyVars == <<fresh, ran>>
vars == <<state, quit, threadId, pending, wakeFd, wakeHandler, ioReady,
          loopVars, callVars, historyVars>>

LoopState == {"Ready", "Polling", "IOHandling", "PendingHandling", "End"}

LoopPoint == {"out", "enter", "while", "poll", "wait", "io", "swap", "run",
              "cleanup", "clear", "dead"}

CallPoint == {"idle", "queue", "push", "whoami", "ifPending", "ifReady",
              "wake", "write", "setQuit", "endWake", "endReady", "dead"}

Event == {"wakeUp", "io"}

TypeOK ==
  /\ state \in LoopState
  /\ quit \in BOOLEAN
  /\ threadId \in Threads
  /\ pending \in Seq(Functors)
  /\ wakeFd \in BOOLEAN
  /\ wakeHandler \in BOOLEAN
  /\ ioReady \in BOOLEAN
  /\ lp \in [Threads -> LoopPoint]
  /\ batch \in [Threads -> SUBSET Event]
  /\ funcs \in [Threads -> Seq(Functors)]
  /\ inCb \in [Threads -> BOOLEAN]
  /\ cp \in [Threads -> CallPoint]
  /\ ret \in [Threads -> {"idle", "endReady"}]
  /\ arg \in [Threads -> Functors \cup {NoFunctor}]
  /\ fresh \subseteq Functors
  /\ ran \in Seq(Functors)

\* EventLoop::create(): the wake-up handler is enabled before create() returns.
Init ==
  /\ state = "Ready"
  /\ quit = FALSE
  /\ threadId = Creator
  /\ pending = <<>>
  /\ wakeFd = FALSE
  /\ wakeHandler = TRUE
  /\ ioReady = FALSE
  /\ lp = [t \in Threads |-> "out"]
  /\ batch = [t \in Threads |-> {}]
  /\ funcs = [t \in Threads |-> <<>>]
  /\ inCb = [t \in Threads |-> FALSE]
  /\ cp = [t \in Threads |-> "idle"]
  /\ ret = [t \in Threads |-> "idle"]
  /\ arg = [t \in Threads |-> NoFunctor]
  /\ fresh = Functors
  /\ ran = <<>>

-----------------------------------------------------------------------------
(* The public methods, one access to shared state per step. *)

isLoopThread(t) == t = threadId

\* The code of the user is in control: outside loop(), or in a callback that
\* loop() has called.  (loop() may itself be called from a callback: runInLoop
\* before loop() runs its argument at once, and that may call endLoop.)
CanCall(t) == /\ cp[t] = "idle"
              /\ \/ lp[t] = "out"
                 \/ lp[t] \in {"io", "run"} /\ inCb[t]

Goto(t, point) == cp' = [cp EXCEPT ![t] = point]

\* A null wakeUpHandler_ is dereferenced: the process dies with all its threads.
Crash == /\ cp' = [u \in Threads |-> "dead"]
         /\ lp' = [u \in Threads |-> "dead"]

\* runInLoop() on the loop thread runs the callback at once, in any state.
RunInline(t, f) ==
  /\ CanCall(t) /\ f \in fresh
  /\ isLoopThread(t)
  /\ fresh' = fresh \ {f}
  /\ ran' = Append(ran, f)
  /\ inCb' = [inCb EXCEPT ![t] = TRUE]
  /\ UNCHANGED <<state, quit, threadId, pending, wakeFd, wakeHandler, ioReady,
                 lp, batch, funcs, callVars>>

\* Mutant: the callback is moved from before it is stored.
SubmitMovedFrom(t, f) ==
  /\ CanCall(t) /\ f \in fresh
  /\ fresh' = fresh \ {f}
  /\ Goto(t, "queue")
  /\ UNCHANGED <<state, quit, threadId, pending, wakeFd, wakeHandler, ioReady,
                 loopVars, arg, ret, ran>>

\* queueInLoop(), or runInLoop() on another thread, which goes on there: its
\* own test of End drops the callback exactly when the one of queueInLoop does.
Submit(t, f) ==
  /\ CanCall(t) /\ f \in fresh
  /\ fresh' = fresh \ {f}
  /\ arg' = [arg EXCEPT ![t] = f]
  /\ Goto(t, "queue")
  /\ UNCHANGED <<state, quit, threadId, pending, wakeFd, wakeHandler, ioReady,
                 loopVars, ret, ran>>

QueueUnlessEnd(t) ==
  /\ cp[t] = "queue"
  /\ IF state = "End"
       THEN arg' = [arg EXCEPT ![t] = NoFunctor] /\ Goto(t, "idle")
       ELSE Goto(t, "push") /\ UNCHANGED arg
  /\ UNCHANGED <<state, quit, threadId, pending, wakeFd, wakeHandler, ioReady,
                 loopVars, ret, historyVars>>

Push(t) ==
  /\ cp[t] = "push"
  /\ pending' = Append(pending, arg[t])
  /\ arg' = [arg EXCEPT ![t] = NoFunctor]
  /\ Goto(t, "whoami")
  /\ UNCHANGED <<state, quit, threadId, wakeFd, wakeHandler, ioReady,
                 loopVars, ret, historyVars>>

\* The three operands of the condition on line 183, read one after the other.
WakeIfOtherThread(t) ==
  /\ cp[t] = "whoami"
  /\ Goto(t, IF isLoopThread(t) THEN "ifPending" ELSE "wake")
  /\ UNCHANGED <<state, quit, threadId, pending, wakeFd, wakeHandler, ioReady,
                 loopVars, ret, arg, historyVars>>

\* Mutant: a functor queued by a functor does not wake the loop.
NoWakeInPendingHandling(t) ==
  /\ cp[t] = "ifPending"
  /\ Goto(t, "ifReady")
  /\ UNCHANGED <<state, quit, threadId, pending, wakeFd, wakeHandler, ioReady,
                 loopVars, ret, arg, historyVars>>

WakeIfPendingHandling(t) ==
  /\ cp[t] = "ifPending"
  /\ Goto(t, IF state = "PendingHandling" THEN "wake" ELSE "ifReady")
  /\ UNCHANGED <<state, quit, threadId, pending, wakeFd, wakeHandler, ioReady,
                 loopVars, ret, arg, historyVars>>

\* Mutant: a functor queued before loop() does not wake the loop.
NoWakeInReady(t) ==
  /\ cp[t] = "ifReady"
  /\ Goto(t, "idle")
  /\ UNCHANGED <<state, quit, threadId, pending, wakeFd, wakeHandler, ioReady,
                 loopVars, ret, arg, historyVars>>

WakeIfReady(t) ==
  /\ cp[t] = "ifReady"
  /\ Goto(t, IF state = "Ready" THEN "wake" ELSE "idle")
  /\ UNCHANGED <<state, quit, threadId, pending, wakeFd, wakeHandler, ioReady,
                 loopVars, ret, arg, historyVars>>

\* Mutant: the eventfd is only written while the loop is in epoll_wait().
WakeIfPolling(t) ==
  /\ cp[t] = "wake"
  /\ IF state # "Polling"
       THEN Goto(t, ret[t]) /\ ret' = [ret EXCEPT ![t] = "idle"]
       ELSE Goto(t, "write") /\ UNCHANGED ret
  /\ UNCHANGED <<state, quit, threadId, pending, wakeFd, wakeHandler, ioReady,
                 loopVars, arg, historyVars>>

WakeUnlessEnd(t) ==
  /\ cp[t] = "wake"
  /\ IF state = "End"
       THEN Goto(t, ret[t]) /\ ret' = [ret EXCEPT ![t] = "idle"]
       ELSE Goto(t, "write") /\ UNCHANGED ret
  /\ UNCHANGED <<state, quit, threadId, pending, wakeFd, wakeHandler, ioReady,
                 loopVars, arg, historyVars>>

\* write(wakeUpHandler_->fd()): undefined once loop() has reset the pointer.
WriteWakeFd(t) ==
  /\ cp[t] = "write"
  /\ IF wakeHandler
       THEN wakeFd' = TRUE /\ Goto(t, ret[t]) /\ UNCHANGED lp
       ELSE Crash /\ UNCHANGED wakeFd
  /\ ret' = [ret EXCEPT ![t] = "idle"]
  /\ UNCHANGED <<state, quit, threadId, pending, wakeHandler, ioReady,
                 batch, funcs, inCb, arg, historyVars>>

\* endLoop().  EndBeforeLoop says whether a thread other than Runner may call
\* it while loop() has not started.
EndLoop(t) ==
  /\ CanCall(t) /\ t \in Enders
  /\ t = Runner \/ EndBeforeLoop \/ state # "Ready"
  /\ Goto(t, "setQuit")
  /\ UNCHANGED <<state, quit, threadId, pending, wakeFd, wakeHandler, ioReady,
                 loopVars, ret, arg, historyVars>>

SetQuit(t) ==
  /\ cp[t] = "setQuit"
  /\ quit' = TRUE
  /\ Goto(t, "endWake")
  /\ UNCHANGED <<state, threadId, pending, wakeFd, wakeHandler, ioReady,
                 loopVars, ret, arg, historyVars>>

\* Mutant: endLoop() only sets quit_.
EndDoesNotWake(t) ==
  /\ cp[t] = "endWake"
  /\ Goto(t, "endReady")
  /\ UNCHANGED <<state, quit, threadId, pending, wakeFd, wakeHandler, ioReady,
                 loopVars, ret, arg, historyVars>>

EndWakes(t) ==
  /\ cp[t] = "endWake"
  /\ IF state \notin {"Ready", "End"}
       THEN Goto(t, "wake") /\ ret' = [ret EXCEPT ![t] = "endReady"]
       ELSE Goto(t, "endReady") /\ UNCHANGED ret
  /\ UNCHANGED <<state, quit, threadId, pending, wakeFd, wakeHandler, ioReady,
                 loopVars, arg, historyVars>>

\* Mutant: the caller of endLoop() helps to finish a loop that is running.
EndJoinsLoop(t) ==
  /\ cp[t] = "endReady"
  /\ Goto(t, "idle")
  /\ lp' = IF state # "End" THEN [lp EXCEPT ![t] = "enter"] ELSE lp
  /\ UNCHANGED <<state, quit, threadId, pending, wakeFd, wakeHandler, ioReady,
                 batch, funcs, inCb, ret, arg, historyVars>>

\* In Ready the caller of endLoop() runs loop() itself, whichever thread it is.
EndRunsLoop(t) ==
  /\ cp[t] = "endReady"
  /\ Goto(t, "idle")
  /\ lp' = IF state = "Ready" THEN [lp EXCEPT ![t] = "enter"] ELSE lp
  /\ UNCHANGED <<state, quit, threadId, pending, wakeFd, wakeHandler, ioReady,
                 batch, funcs, inCb, ret, arg, historyVars>>

-----------------------------------------------------------------------------
(* loop() *)

\* loop() returns at once after End, so only a call before End is a step.
CallLoop(t) ==
  /\ t = Runner /\ CanCall(t) /\ ~inCb[t]
  /\ state # "End"
  /\ lp' = [lp EXCEPT ![t] = "enter"]
  /\ UNCHANGED <<state, quit, threadId, pending, wakeFd, wakeHandler, ioReady,
                 batch, funcs, inCb, callVars, historyVars>>

UpdateThreadId(t) ==
  /\ lp[t] = "enter"
  /\ threadId' = t
  /\ lp' = [lp EXCEPT ![t] = "while"]
  /\ UNCHANGED <<state, quit, pending, wakeFd, wakeHandler, ioReady,
                 batch, funcs, inCb, callVars, historyVars>>

WhileNotQuit(t) ==
  /\ lp[t] = "while"
  /\ IF quit
       THEN state' = "End" /\ lp' = [lp EXCEPT ![t] = "cleanup"]
       ELSE lp' = [lp EXCEPT ![t] = "poll"] /\ UNCHANGED state
  /\ UNCHANGED <<quit, threadId, pending, wakeFd, wakeHandler, ioReady,
                 batch, funcs, inCb, callVars, historyVars>>

StartPolling(t) ==
  /\ lp[t] = "poll"
  /\ state' = "Polling"
  /\ lp' = [lp EXCEPT ![t] = "wait"]
  /\ UNCHANGED <<quit, threadId, pending, wakeFd, wakeHandler, ioReady,
                 batch, funcs, inCb, callVars, historyVars>>

\* epoll_wait() has no timeout: it blocks until some descriptor is ready.
PollReturns(t) ==
  /\ lp[t] = "wait"
  /\ wakeFd \/ ioReady
  /\ state' = "IOHandling"
  /\ batch' = [batch EXCEPT ![t] = {e \in Event : \/ e = "wakeUp" /\ wakeFd
                                                  \/ e = "io" /\ ioReady}]
  /\ lp' = [lp EXCEPT ![t] = "io"]
  /\ UNCHANGED <<quit, threadId, pending, wakeFd, wakeHandler, ioReady,
                 funcs, inCb, callVars, historyVars>>

InLoopBody(t, point) == lp[t] = point /\ ~inCb[t]

handleWakeUp(t) ==
  /\ InLoopBody(t, "io") /\ "wakeUp" \in batch[t]
  /\ batch' = [batch EXCEPT ![t] = @ \ {"wakeUp"}]
  /\ IF wakeHandler
       THEN wakeFd' = FALSE /\ UNCHANGED <<lp, cp>>
       ELSE Crash /\ UNCHANGED wakeFd
  /\ UNCHANGED <<state, quit, threadId, pending, wakeHandler, ioReady,
                 funcs, inCb, ret, arg, historyVars>>

HandleUserIO(t) ==
  /\ InLoopBody(t, "io") /\ "io" \in batch[t]
  /\ batch' = [batch EXCEPT ![t] = @ \ {"io"}]
  /\ ioReady' = FALSE
  /\ inCb' = [inCb EXCEPT ![t] = TRUE]
  /\ UNCHANGED <<state, quit, threadId, pending, wakeFd, wakeHandler,
                 lp, funcs, callVars, historyVars>>

CallbackReturns(t) ==
  /\ inCb[t] /\ CanCall(t)
  /\ inCb' = [inCb EXCEPT ![t] = FALSE]
  /\ UNCHANGED <<state, quit, threadId, pending, wakeFd, wakeHandler, ioReady,
                 lp, batch, funcs, callVars, historyVars>>

StartPendingHandling(t) ==
  /\ InLoopBody(t, "io") /\ batch[t] = {}
  /\ state' = "PendingHandling"
  /\ lp' = [lp EXCEPT ![t] = "swap"]
  /\ UNCHANGED <<quit, threadId, pending, wakeFd, wakeHandler, ioReady,
                 batch, funcs, inCb, callVars, historyVars>>

\* Mutant: the vector is copied under the lock and not emptied.
CopyPending(t) ==
  /\ lp[t] = "swap"
  /\ funcs' = [funcs EXCEPT ![t] = pending]
  /\ lp' = [lp EXCEPT ![t] = "run"]
  /\ UNCHANGED <<state, quit, threadId, pending, wakeFd, wakeHandler, ioReady,
                 batch, inCb, callVars, historyVars>>

SwapPending(t) ==
  /\ lp[t] = "swap"
  /\ funcs' = [funcs EXCEPT ![t] = pending]
  /\ pending' = <<>>
  /\ lp' = [lp EXCEPT ![t] = "run"]
  /\ UNCHANGED <<state, quit, threadId, wakeFd, wakeHandler, ioReady,
                 batch, inCb, callVars, historyVars>>

RunFunctor(t) ==
  /\ InLoopBody(t, "run") /\ funcs[t] # <<>>
  /\ ran' = Append(ran, Head(funcs[t]))
  /\ funcs' = [funcs EXCEPT ![t] = Tail(@)]
  /\ inCb' = [inCb EXCEPT ![t] = TRUE]
  /\ UNCHANGED <<state, quit, threadId, pending, wakeFd, wakeHandler, ioReady,
                 lp, batch, callVars, fresh>>

FunctorsDone(t) ==
  /\ InLoopBody(t, "run") /\ funcs[t] = <<>>
  /\ lp' = [lp EXCEPT ![t] = "while"]
  /\ UNCHANGED <<state, quit, threadId, pending, wakeFd, wakeHandler, ioReady,
                 batch, funcs, inCb, callVars, historyVars>>

\* timers_->timerFdIOHandle_ and wakeUpHandler_ are disabled and reset; a second
\* clean-up dereferences the null pointers.
ResetHandlers(t) ==
  /\ lp[t] = "cleanup"
  /\ IF wakeHandler
       THEN lp' = [lp EXCEPT ![t] = "clear"] /\ UNCHANGED cp
       ELSE Crash
  /\ wakeHandler' = FALSE
  /\ wakeFd' = FALSE
  /\ UNCHANGED <<state, quit, threadId, pending, ioReady,
                 batch, funcs, inCb, ret, arg, historyVars>>

ClearPending(t) ==
  /\ lp[t] = "clear"
  /\ pending' = <<>>
  /\ lp' = [lp EXCEPT ![t] = "out"]
  /\ UNCHANGED <<state, quit, threadId, wakeFd, wakeHandler, ioReady,
                 batch, funcs, inCb, callVars, historyVars>>

-----------------------------------------------------------------------------
\* The environment makes a descriptor of the user ready.
UserIO ==
  /\ ~ioReady
  /\ ioReady' = TRUE
  /\ UNCHANGED <<state, quit, threadId, pending, wakeFd, wakeHandler,
                 loopVars, callVars, historyVars>>

\* The code decides when to call; it owes a thread nothing but its next step.
Call(t) == \/ \E f \in Functors : RunInline(t, f) \/ Submit(t, f)
           \/ EndLoop(t)

Continue(t) ==
  \/ QueueUnlessEnd(t) \/ Push(t) \/ WakeIfOtherThread(t)
  \/ WakeIfPendingHandling(t) \/ WakeIfReady(t)
  \/ WakeUnlessEnd(t) \/ WriteWakeFd(t)
  \/ SetQuit(t) \/ EndWakes(t) \/ EndRunsLoop(t)

LoopStep(t) ==
  \/ UpdateThreadId(t) \/ WhileNotQuit(t) \/ StartPolling(t) \/ PollReturns(t)
  \/ handleWakeUp(t) \/ HandleUserIO(t) \/ CallbackReturns(t)
  \/ StartPendingHandling(t) \/ SwapPending(t) \/ RunFunctor(t)
  \/ FunctorsDone(t) \/ ResetHandlers(t) \/ ClearPending(t)

Next ==
  \/ \E t \in Threads : Call(t) \/ Continue(t) \/ CallLoop(t) \/ LoopStep(t)
  \/ UserIO

Spec == Init /\ [][Next]_vars

(* The scheduler runs every thread that can take a step, Runner's main     *)
(* function does call loop(), and a callback returns some time instead of  *)
(* calling endLoop() for ever.  Nothing is assumed of the environment or   *)
(* of which methods the threads call.                                      *)
Fairness ==
  /\ \A t \in Threads : /\ WF_vars(Continue(t) \/ LoopStep(t))
                        /\ SF_vars(CallbackReturns(t))
  /\ WF_vars(CallLoop(Runner))

FairSpec == Spec /\ Fairness

-----------------------------------------------------------------------------
(* Properties *)

\* A thread that has made work for the loop and is on its way to write the
\* eventfd.  Only a thread other than the loop's is sure to get there from the
\* first operand of the condition.
Waking(t) == \/ cp[t] \in {"wake", "write", "endWake"}
             \/ cp[t] = "whoami" /\ ~isLoopThread(t)

\* The loop never blocks in epoll_wait() on work that is already there: if a
\* functor is queued or quit_ is set, the eventfd is readable or some thread
\* is about to write it (queueInLoop, endLoop: lines 172-187 and 255-268).
NoLostWakeUp ==
  \A t \in Threads :
    lp[t] = "wait" /\ (pending # <<>> \/ quit) =>
      wakeFd \/ \E u \in Threads : Waking(u)

InLoop(t) == lp[t] \notin {"out", "dead"}

\* Callbacks and functors of one loop are never executed by two threads at a
\* time, and at most one thread is in the body of loop() ("let the loop thread
\* to actually run these changes", EventLoop.h:119-122).
SingleLoopThread ==
  \A t, u \in Threads : 
    t # u => /\ ~(inCb[t] /\ inCb[u])
             /\ ~(InLoop(t) /\ InLoop(u))

\* wakeUpHandler_ is never dereferenced after loop() has reset it.
WakeUpHandlerAlive == \A t \in Threads : cp[t] # "dead"

\* The queue of functors the submitters see: what the loop thread has swapped
\* out comes before what is still in pendingFunctors_.
Queue == INSTANCE FunctorQueue
           WITH queue <- funcs[Runner] \o pending,
                open <- wakeHandler

\* Functors are run at most once, by the loop, in the order of their pushes
\* (queueInLoop and the swap of loop()), none is lost before the loop is ended,
\* and as long as it is not ended every queued functor is run some time.
RunsEveryFunctor == Queue!FairSpec

\* Once quit_ is set the loop reaches End.
EndLoopEnds == quit ~> state = "End"

=============================================================================
