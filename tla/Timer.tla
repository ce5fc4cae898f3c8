------------------------------- MODULE Timer -------------------------------
(***************************************************************************)
(* TimerHandler and TimerQueue of src/src/core/Timer.cpp: timers are kept  *)
(* in a binary heap, one timerfd is armed for the earliest, and the loop   *)
(* thread runs what has expired when the timerfd is readable.              *)
(*                                                                         *)
(* Two clocks are at work.  Timer expirations are points of the wall clock *)
(* (Timestamp::now()), which the system may set; the timerfd counts down   *)
(* on CLOCK_MONOTONIC.  A Tick moves both; one tick stands for any time of *)
(* at least the 100 microseconds that howMuchTimeFromNow() allows at the   *)
(* least.  The wall clock stops at the bound MaxTime, the countdown does   *)
(* not.                                                                    *)
(*                                                                         *)
(* A timer is its sequence_.  runInLoop() and queueInLoop() are one step   *)
(* each (the module EventLoop has the steps in between): runInLoop() acts  *)
(* at once on the loop thread and appends a functor on the other thread.   *)
(* Disabling acts at once on every thread when quit_ is set.               *)
(***************************************************************************)
EXTENDS Integers, Sequences, FiniteSets

CONSTANTS
  MaxTimers,   \* bound: timers created
  MaxTime,     \* bound: the last time of the wall clock
  Whens,       \* the expirations asked for
  Intervals,   \* the intervals asked for; 0 for a timer that does not repeat
  Users,       \* the threads whose code uses timers
  MaxSteps,    \* bound: times the wall clock is set
  MaxQueue     \* bound: functors queued since the last swap when a user calls

ASSUME TimerAssumption ==
  /\ MaxTimers \in Nat \ {0} /\ MaxTime \in Nat
  /\ Whens \subseteq Nat /\ Intervals \subseteq Nat
  /\ Users \subseteq {"loop", "other"}
  /\ MaxSteps \in Nat /\ MaxQueue \in Nat

Timers == 1..MaxTimers

Off == -1      \* the timerfd is not armed

VARIABLES
  now,         \* the wall clock
  countdown,   \* ticks until the timerfd is readable, or Off
  steps,       \* how often the wall clock was set
  created,     \* s_numCreated_
  expiration,  \* expiration_
  interval,    \* interval_
  disabled,    \* disabled_
  callback,    \* is callback_ not null?
  heap,        \* vec_ of heap_
  functors,    \* pendingFunctors_, after what loop() has swapped out
  swapped,     \* how many functors at the front loop() has swapped out
  phase,       \* where the loop thread is
  ready,       \* did epoll_wait() report the timerfd?
  readTime,    \* the local variable now of handleRead(); 0 outside
  current,     \* the timer handleRead() has popped; 0 for none
  quit,        \* quit_
  first,       \* history: the first expiration of each timer
  fired,       \* history: how often the callback of each timer was called
  silenced     \* history: timers whose disable() on the loop thread returned

clockVars == <<now, countdown, steps>>
timerVars == <<created, expiration, interval, disabled, callback, first>>
loopVars == <<phase, ready, readTime, current, swapped>>
historyVars == <<fired, silenced>>
vars == <<clockVars, timerVars, heap, functors, loopVars, quit, historyVars>>

Functor == [op : {"add", "disable", "update"}, timer : Timers]
F(op, t) == [op |-> op, timer |-> t]

Phase == {"ready", "poll", "io", "read", "callback", "return", "pending",
          "ended", "gone"}

TypeOK ==
  /\ now \in 0..MaxTime
  /\ countdown \in Nat \cup {Off}
  /\ steps \in 0..MaxSteps
  /\ created \in 0..MaxTimers
  /\ expiration \in [Timers -> Nat] /\ interval \in [Timers -> Nat]
  /\ disabled \in [Timers -> BOOLEAN] /\ callback \in [Timers -> BOOLEAN]
  /\ heap \in Seq(Timers)
  /\ functors \in Seq(Functor) /\ swapped \in 0..Len(functors)
  /\ phase \in Phase /\ ready \in BOOLEAN /\ readTime \in 0..MaxTime
  /\ current \in 0..MaxTimers /\ quit \in BOOLEAN
  /\ first \in [Timers -> Nat] /\ fired \in [Timers -> Nat]
  /\ silenced \subseteq Timers

Init ==
  /\ now = 0 /\ countdown = Off /\ steps = 0
  /\ created = 0
  /\ expiration = [t \in Timers |-> 0] /\ interval = [t \in Timers |-> 0]
  /\ disabled = [t \in Timers |-> FALSE]
  /\ callback = [t \in Timers |-> FALSE]
  /\ heap = <<>> /\ functors = <<>> /\ swapped = 0
  /\ phase = "ready" /\ ready = FALSE /\ readTime = 0 /\ current = 0
  /\ quit = FALSE
  /\ first = [t \in Timers |-> 0] /\ fired = [t \in Timers |-> 0]
  /\ silenced = {}

-----------------------------------------------------------------------------
(* The clocks. *)

AtLeast(n, least) == IF n < least THEN least ELSE n

\* Time passes, whatever the loop thread does.
Tick ==
  /\ now < MaxTime \/ countdown > 0
  /\ now' = IF now < MaxTime THEN now + 1 ELSE now
  /\ countdown' = IF countdown > 0 THEN countdown - 1 ELSE countdown
  /\ UNCHANGED <<steps, timerVars, heap, functors, loopVars, quit, historyVars>>

\* The wall clock is set forward or back.
SetClock ==
  /\ steps < MaxSteps
  /\ steps' = steps + 1
  /\ now' \in (0..MaxTime) \ {now}
  /\ UNCHANGED <<countdown, timerVars, heap, functors, loopVars, quit,
                 historyVars>>

\* Mutant: a timer that is due arms the timerfd for no time or less.
JustTheDifference(when) == when - now

howMuchTimeFromNow(when) == AtLeast(when - now, 1)

resetTimerfd(when) == countdown' = howMuchTimeFromNow(when)

-----------------------------------------------------------------------------
(* The public methods, called by thread u. *)

timerCmpLessThan(x, y) ==
  \/ expiration[x] < expiration[y]
  \/ expiration[x] = expiration[y] /\ x < y

INSTANCE BinaryHeap WITH Less <- timerCmpLessThan

\* The loop thread is in the code of the user: before loop(), in the callback of
\* a timer or of another descriptor, or in a functor.
CanCall(u) ==
  /\ u \in Users
  /\ u = "loop" => phase \in {"ready", "io", "callback", "pending", "ended"}
  /\ phase # "gone"
  /\ Len(functors) - swapped < MaxQueue

\* EventLoop::addTimer() is refused in End; otherwise the timer is created on
\* the calling thread and always added by a functor.
AddTimer(u, when, period) ==
  /\ CanCall(u) /\ phase # "ended"
  /\ created < MaxTimers
  /\ created' = created + 1
  /\ expiration' = [expiration EXCEPT ![created'] = when]
  /\ first' = [first EXCEPT ![created'] = when]
  /\ interval' = [interval EXCEPT ![created'] = period]
  /\ callback' = [callback EXCEPT ![created'] = TRUE]
  /\ functors' = Append(functors, F("add", created'))
  /\ UNCHANGED <<clockVars, disabled, heap, loopVars, quit, historyVars>>

Silence(t) ==
  /\ interval' = [interval EXCEPT ![t] = 0]
  /\ disabled' = [disabled EXCEPT ![t] = TRUE]
  /\ callback' = [callback EXCEPT ![t] = FALSE]

\* Mutant: disable() always queues a functor.
DisableLater(u, t) ==
  /\ CanCall(u) /\ t <= created /\ ~disabled[t]
  /\ functors' = Append(functors, F("disable", t))
  /\ silenced' = IF u = "loop" THEN silenced \cup {t} ELSE silenced
  /\ UNCHANGED <<clockVars, timerVars, heap, loopVars, quit, fired>>

disable(u, t) ==
  /\ CanCall(u) /\ t <= created /\ ~disabled[t]
  /\ IF quit \/ u = "loop"
       THEN Silence(t) /\ UNCHANGED functors
       ELSE /\ functors' = Append(functors, F("disable", t))
            /\ UNCHANGED <<interval, disabled, callback>>
  /\ silenced' = IF u = "loop" THEN silenced \cup {t} ELSE silenced
  /\ UNCHANGED <<clockVars, created, expiration, first, heap, loopVars, quit,
                 fired>>

\* In End the other thread's functor is refused and nothing changes.
updateCallback(u, t) ==
  /\ CanCall(u) /\ t <= created /\ ~disabled[t]
  /\ u = "loop" \/ phase # "ended"
  /\ IF u = "loop"
       THEN callback' = [callback EXCEPT ![t] = TRUE] /\ UNCHANGED functors
       ELSE functors' = Append(functors, F("update", t)) /\ UNCHANGED callback
  /\ UNCHANGED <<clockVars, created, expiration, interval, disabled, first,
                 heap, loopVars, quit, historyVars>>

endLoop(u) ==
  /\ CanCall(u) /\ phase # "ready" /\ ~quit
  /\ quit' = TRUE
  /\ UNCHANGED <<clockVars, timerVars, heap, functors, loopVars, historyVars>>

-----------------------------------------------------------------------------
(* The loop thread: TimerQueue::handleRead() and the functors. *)

\* loop() goes round: WhileNotQuit is also the end of the functors.
WhileNotQuit ==
  /\ phase \in {"ready", "pending"} /\ swapped = 0
  /\ IF quit
       THEN phase' = "ended" /\ functors' = <<>> /\ countdown' = Off
       ELSE phase' = "poll" /\ UNCHANGED <<functors, countdown>>
  /\ UNCHANGED <<now, steps, timerVars, heap, ready, readTime, current, swapped,
                 quit, historyVars>>

\* epoll_wait() returns for the timerfd or the eventfd ...
PollReturns ==
  /\ phase = "poll"
  /\ countdown = 0 \/ functors # <<>> \/ quit
  /\ phase' = "io"
  /\ ready' = (countdown = 0)
  /\ UNCHANGED <<clockVars, timerVars, heap, functors, readTime, current,
                 swapped, quit, historyVars>>

\* ... or for a descriptor of the user.
PollReturnsForUser ==
  /\ phase = "poll"
  /\ phase' = "io"
  /\ ready' = (countdown = 0)
  /\ UNCHANGED <<clockVars, timerVars, heap, functors, readTime, current,
                 swapped, quit, historyVars>>

\* handleRead() takes the time and reads the timerfd, which disarms it.
StartRead ==
  /\ phase = "io" /\ ready
  /\ phase' = "read"
  /\ ready' = FALSE
  /\ readTime' = now
  /\ countdown' = Off
  /\ UNCHANGED <<now, steps, timerVars, heap, functors, current, swapped, quit,
                 historyVars>>

Expired == heap # <<>> /\ expiration[top(heap)] <= readTime

\* The top is popped and run(): its callback is called unless it is disabled.
RunTimer ==
  /\ phase = "read" /\ Expired
  /\ LET t == top(heap) IN
       /\ current' = t
       /\ heap' = popTop(heap)
       /\ IF ~disabled[t] /\ callback[t]
            THEN /\ phase' = "callback"
                 /\ fired' = [fired EXCEPT ![t] = @ + 1]
            ELSE phase' = "return" /\ UNCHANGED fired
  /\ UNCHANGED <<clockVars, timerVars, functors, ready, readTime, swapped, quit,
                 silenced>>

CallbackReturns ==
  /\ phase = "callback"
  /\ phase' = "return"
  /\ UNCHANGED <<clockVars, timerVars, heap, functors, ready, readTime, current,
                 swapped, quit, historyVars>>

\* Mutant: the next period starts when the timer was run.
ReloadFromNow ==
  /\ phase = "return"
  /\ IF interval[current] > 0
       THEN /\ expiration' = [expiration EXCEPT ![current] =
                                readTime + interval[current]]
            /\ functors' = Append(functors, F("add", current))
            /\ UNCHANGED <<disabled, callback>>
       ELSE /\ disabled' = [disabled EXCEPT ![current] = TRUE]
            /\ callback' = [callback EXCEPT ![current] = FALSE]
            /\ UNCHANGED <<expiration, functors>>
  /\ phase' = "read" /\ current' = 0
  /\ UNCHANGED <<clockVars, created, interval, first, heap, ready, readTime,
                 swapped, quit, historyVars>>

\* Mutant: a timer that repeats goes back into the heap at once and is queued.
ReloadTwice ==
  /\ phase = "return"
  /\ IF interval[current] > 0
       THEN /\ expiration' = [expiration EXCEPT ![current] =
                                @ + interval[current]]
            /\ functors' = functors \o <<F("add", current), F("add", current)>>
            /\ UNCHANGED <<disabled, callback>>
       ELSE /\ disabled' = [disabled EXCEPT ![current] = TRUE]
            /\ callback' = [callback EXCEPT ![current] = FALSE]
            /\ UNCHANGED <<expiration, functors>>
  /\ phase' = "read" /\ current' = 0
  /\ UNCHANGED <<clockVars, created, interval, first, heap, ready, readTime,
                 swapped, quit, historyVars>>

\* A timer that repeats is queued to be added again, one period later; one that
\* does not, or was disabled by its callback, is finished.
Reload ==
  /\ phase = "return"
  /\ IF interval[current] > 0
       THEN /\ expiration' = [expiration EXCEPT ![current] =
                                @ + interval[current]]
            /\ functors' = Append(functors, F("add", current))
            /\ UNCHANGED <<disabled, callback>>
       ELSE /\ disabled' = [disabled EXCEPT ![current] = TRUE]
            /\ callback' = [callback EXCEPT ![current] = FALSE]
            /\ UNCHANGED <<expiration, functors>>
  /\ phase' = "read" /\ current' = 0
  /\ UNCHANGED <<clockVars, created, interval, first, heap, ready, readTime,
                 swapped, quit, historyVars>>

FinishRead ==
  /\ phase = "read" /\ ~Expired
  /\ IF heap # <<>> THEN resetTimerfd(expiration[top(heap)])
                    ELSE UNCHANGED countdown
  /\ phase' = "io" /\ readTime' = 0
  /\ UNCHANGED <<now, steps, timerVars, heap, functors, ready,
                 current, swapped, quit, historyVars>>

StartPending ==
  /\ phase = "io" /\ ~ready
  /\ phase' = "pending"
  /\ swapped' = Len(functors)
  /\ UNCHANGED <<clockVars, timerVars, heap, functors, ready, readTime, current,
                 quit, historyVars>>

\* Mutant: the timerfd is armed for the first timer only.
ArmIfAlone(t) ==
  /\ heap' = insert(heap, t)
  /\ IF heap = <<>> THEN resetTimerfd(expiration[t]) ELSE UNCHANGED countdown
  /\ UNCHANGED <<interval, disabled, callback>>

\* Mutant: arming the timerfd is left to handleRead().
InsertUnarmed(t) ==
  /\ heap' = insert(heap, t)
  /\ UNCHANGED <<countdown, interval, disabled, callback>>

addTimerInLoop(t) ==
  /\ heap' = insert(heap, t)
  /\ IF top(heap') = t THEN resetTimerfd(expiration[t]) ELSE UNCHANGED countdown
  /\ UNCHANGED <<interval, disabled, callback>>

RunFunctor ==
  /\ phase = "pending" /\ swapped > 0
  /\ LET t == Head(functors).timer
         op == Head(functors).op
     IN \/ op = "add" /\ addTimerInLoop(t)
        \/ op = "disable" /\ Silence(t) /\ UNCHANGED <<heap, countdown>>
        \/ /\ op = "update"
           /\ callback' = [callback EXCEPT ![t] = TRUE]
           /\ UNCHANGED <<heap, countdown, interval, disabled>>
  /\ functors' = Tail(functors)
  /\ swapped' = swapped - 1
  /\ UNCHANGED <<now, steps, created, expiration, first, phase, ready, readTime,
                 current, quit, historyVars>>

\* ~EventLoop(), after End: every timer left in the heap is disabled.
DestroyTimerQueue ==
  /\ phase = "ended"
  /\ phase' = "gone"
  /\ LET left == {heap[i] : i \in 1..Len(heap)}
         live == {t \in left : ~disabled[t]}
     IN /\ interval' = [t \in Timers |-> IF t \in live THEN 0 ELSE interval[t]]
        /\ disabled' = [t \in Timers |-> disabled[t] \/ t \in live]
        /\ callback' = [t \in Timers |-> callback[t] /\ t \notin live]
  /\ heap' = <<>>
  /\ UNCHANGED <<clockVars, created, expiration, first, functors, ready,
                 readTime, current, swapped, quit, historyVars>>

-----------------------------------------------------------------------------
Use(u) ==
  \/ \E when \in Whens, period \in Intervals : AddTimer(u, when, period)
  \/ \E t \in Timers : disable(u, t) \/ updateCallback(u, t)
  \/ endLoop(u)

LoopStep ==
  \/ WhileNotQuit \/ PollReturns \/ StartRead \/ RunTimer \/ CallbackReturns
  \/ Reload \/ FinishRead \/ StartPending \/ RunFunctor

Next == \/ \E u \in {"loop", "other"} : Use(u)
        \/ LoopStep \/ PollReturnsForUser \/ DestroyTimerQueue
        \/ Tick \/ SetClock

Spec == Init /\ [][Next]_vars

(* The loop thread is scheduled and callbacks return; time passes.  Nothing *)
(* is assumed of the users, and the clock is set only so often.             *)
FairSpec == Spec /\ WF_vars(LoopStep) /\ WF_vars(Tick)

-----------------------------------------------------------------------------
(* Properties *)

Reading == phase \in {"read", "callback", "return"}

InHeap(t) == {i \in 1..Len(heap) : heap[i] = t}
Queued(t) == {i \in 1..Len(functors) : functors[i] = F("add", t)}
Popped(t) == IF current = t THEN {0} ELSE {}

\* Outside handleRead() the timerfd is armed whenever the heap is not empty, and
\* (if the wall clock is never set) for no later than any timer in the heap,
\* but for the one tick it is armed for at the least (Timer.cpp:181-184,
\* 201-204).
TimerfdCoversHeap ==
  ~Reading /\ phase \notin {"ended", "gone"} /\ ~ready =>
    \A i \in 1..Len(heap) :
      /\ countdown # Off
      /\ steps = 0 =>
           countdown <= AtLeast(expiration[heap[i]] - now, 1)

\* A timer is in one place at a time, the heap, a queued functor or the hands of
\* handleRead(), and is nowhere only when it is finished: a repeating timer on
\* its way through the queue of functors is neither lost nor doubled.
OnePlace ==
  \A t \in 1..created :
    LET places == Cardinality(InHeap(t)) + Cardinality(Queued(t))
                    + Cardinality(Popped(t))
    IN /\ places <= 1
       /\ places = 0 => disabled[t] \/ phase \in {"ended", "gone"}

\* The state of the timers.
TimerLegal == TypeOK /\ OnePlace

\* The n-th call of a repeating timer is due n periods after the first, however
\* late the calls before it were and however the wall clock was set.
NoDrift ==
  \A t \in 1..created :
    interval[t] > 0 =>
      LET before == IF current = t THEN fired[t] - 1 ELSE fired[t]
      IN expiration[t] = first[t] + before * interval[t]

\* When disable() has returned on the loop thread, the callback is never called
\* again, wherever the timer is (heap, queue of functors) at that time.
DisabledIsSilent ==
  [][\A t \in Timers : t \in silenced => fired'[t] = fired[t]]_vars

\* Every timer due within the bound is run some time, unless it is disabled or
\* the loop ended first, even if the wall clock is set.
EveryTimerFires ==
  \A t \in Timers :
    (created >= t /\ first[t] <= MaxTime)
      ~> (fired[t] > 0 \/ disabled[t] \/ quit)

=============================================================================
