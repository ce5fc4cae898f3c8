----------------------------- MODULE IOHandler -----------------------------
(***************************************************************************)
(* The life of the IOHandlers of one loop (src/src/core/IOHandler.cpp) and *)
(* of their file descriptors: creation, enabling and disabling, changes of *)
(* the callbacks, dispatch of the events epoll reported, and destruction   *)
(* when the last shared_ptr goes.                                          *)
(*                                                                         *)
(* Two threads hold handlers, the loop thread and one other.  What a user  *)
(* does on the loop thread happens in a callback (phase "callback") or in  *)
(* a functor (phase "pending").  runInLoop() acts at once on the loop      *)
(* thread; on the other thread it tests state_ in one step and pushes the  *)
(* functor in a later one, whatever the loop has done meanwhile (the       *)
(* module EventLoop has the wake-up that follows).  A functor that         *)
(* captures a handler keeps it alive, so does a thread in held[h]; the     *)
(* data pointers epoll returns do not.                                     *)
(***************************************************************************)
EXTENDS Sequences, FiniteSets, Naturals, FiniteSetsExt

CONSTANTS
  Handlers,               \* identities of IOHandler objects
  Fds,                    \* file descriptor numbers; closed ones are reused
  Kinds,                  \* the callbacks in use
  Users,                  \* the threads whose code uses handlers
  MaxQueue,               \* bound: functors waiting at a time
  Risky                   \* the uses below that are allowed

\* What the code accepts from its users and does not protect them from.
RiskyUses == {
  "releaseInCallback",    \* a callback drops the last reference to a handler
  "releaseEnabled",       \* the other thread does, of an Enabled handler
  "releaseDispatched"}    \* the other thread does, of one epoll has reported

DispatchOrder == <<"close", "error", "read", "write">>

ASSUME HandlerAssumption ==
  /\ Handlers # {} /\ Fds # {} /\ Kinds # {}
  /\ Kinds \subseteq {DispatchOrder[i] : i \in 1..4}
  /\ Users \subseteq {"loop", "other"}
  /\ MaxQueue \in Nat
  /\ Risky \subseteq RiskyUses

VARIABLES
  object,    \* object[h]: "none", "alive" or "freed"
  fd,        \* fd[h]: the descriptor the handler guards
  status,    \* status_
  callbacks, \* the callbacks that are not null
  events,    \* events_, as the kinds asked for
  held,      \* the threads that hold a shared_ptr to the handler
  opened,    \* descriptors that are open
  epoll,     \* interest list: descriptor -> [ptr, events]
  functors,  \* pendingFunctors_: what queueInLoop() has pushed
  pushing,   \* the functor the other thread is going to push, if there is one
  late,      \* the part of pendingFunctors_ pushed after loop() had cleared it
  funcs,     \* the vector loop() has swapped out; destroyed as a whole
  done,      \* how many functors of funcs have been run
  phase,     \* where the loop thread is; "dead" if it used a freed handler
  batch,     \* events epoll_wait() returned and loop() has not dispatched
  running,   \* the handler in run(), the kinds still to test, the one called
  quit       \* quit_

objectVars == <<object, fd, held, opened>>
settingVars == <<status, callbacks, events, epoll>>
queueVars == <<functors, pushing, late>>
loopVars == <<funcs, done, phase, batch, running, quit>>
vars == <<objectVars, settingVars, queueVars, loopVars>>

Update(h, next) == [op |-> "update", h |-> h, next |-> next]
SetCallback(h, k, on) == [op |-> "set", h |-> h, kind |-> k, on |-> on]
RemoveFd(n) == [op |-> "removeFd", fd |-> n]

Functor == {Update(h, s) : h \in Handlers, s \in {"Enabled", "Disabled"}}
             \cup {SetCallback(h, k, on) :
                     h \in Handlers, k \in Kinds, on \in BOOLEAN}
             \cup {RemoveFd(n) : n \in Fds}

\* state_ is End from "clear" on: loop() has not cleared pendingFunctors_ yet.
Phase == {"ready", "poll", "io", "dispatch", "callback", "pending", "clear",
          "ended", "dead"}
End == phase \in {"clear", "ended"}

TypeOK ==
  /\ object \in [Handlers -> {"none", "alive", "freed"}]
  /\ fd \in [Handlers -> Fds]
  /\ status \in [Handlers -> {"Created", "Enabled", "Disabled"}]
  /\ callbacks \in [Handlers -> SUBSET Kinds]
  /\ events \in [Handlers -> SUBSET Kinds]
  /\ held \in [Handlers -> SUBSET Users]
  /\ opened \subseteq Fds
  /\ DOMAIN epoll \subseteq opened
  /\ \A n \in DOMAIN epoll :
       epoll[n] \in [ptr : Handlers, events : SUBSET Kinds]
  /\ functors \in Seq(Functor) /\ funcs \in Seq(Functor)
  /\ pushing \in Seq(Functor) /\ Len(pushing) <= 1
  /\ late \in Seq(Functor) /\ Len(late) <= 1
  /\ done \in 0..Len(funcs)
  /\ phase \in Phase
  /\ batch \subseteq [ptr : Handlers, kinds : SUBSET Kinds]
  /\ running \in [ptr : Handlers, kinds : SUBSET Kinds, now : Kinds]
  /\ quit \in BOOLEAN

Init ==
  /\ object = [h \in Handlers |-> "none"]
  /\ fd = [h \in Handlers |-> CHOOSE n \in Fds : TRUE]
  /\ status = [h \in Handlers |-> "Created"]
  /\ callbacks = [h \in Handlers |-> {}]
  /\ events = [h \in Handlers |-> {}]
  /\ held = [h \in Handlers |-> {}]
  /\ opened = {}
  /\ epoll = <<>>
  /\ functors = <<>> /\ pushing = <<>> /\ late = <<>>
  /\ funcs = <<>> /\ done = 0
  /\ phase = "ready"
  /\ batch = {}
  /\ running = [ptr |-> CHOOSE h \in Handlers : TRUE, kinds |-> {},
                now |-> CHOOSE k \in Kinds : TRUE]
  /\ quit = FALSE

-----------------------------------------------------------------------------
(* The interest list: a call of epoll_ctl() that fails is only logged. *)

Without(f, S) == [n \in DOMAIN f \ S |-> f[n]]
With(f, n, entry) == [m \in DOMAIN f \cup {n} |-> IF m = n THEN entry ELSE f[m]]

Added(n, entry) == IF n \in DOMAIN epoll THEN epoll ELSE With(epoll, n, entry)
Modified(n, entry) == IF n \in DOMAIN epoll THEN With(epoll, n, entry)
                                            ELSE epoll

Entry(h) == [ptr |-> h, events |-> events[h]]

(* What the functors do on the loop thread. *)

Enable(h) ==
  /\ status' = [status EXCEPT ![h] = "Enabled"]
  /\ epoll' = IF status[h] = "Enabled" THEN Modified(fd[h], Entry(h))
                                       ELSE Added(fd[h], Entry(h))
  /\ UNCHANGED <<callbacks, events>>

\* A handler that was not enabled keeps the callbacks it has been given since
\* disable() cleared them on the calling thread.
Disable(h) ==
  /\ status' = [status EXCEPT ![h] = "Disabled"]
  /\ callbacks' = [callbacks EXCEPT ![h] =
                    IF status[h] = "Enabled" THEN {} ELSE @]
  /\ epoll' = IF status[h] = "Enabled" THEN Without(epoll, {fd[h]}) ELSE epoll
  /\ UNCHANGED events

\* Mutant: events_ changes and epoll is not told.
InstallWithoutModify(h, k, on) ==
  /\ callbacks' = [callbacks EXCEPT ![h] = IF on THEN @ \cup {k} ELSE @ \ {k}]
  /\ events' = [events EXCEPT ![h] = IF on THEN @ \cup {k} ELSE @ \ {k}]
  /\ UNCHANGED <<status, epoll>>

Install(h, k, on) ==
  LET Changed(S) == IF on THEN S \cup {k} ELSE S \ {k}
      asked == Changed(events[h])
  IN /\ callbacks' = [callbacks EXCEPT ![h] = Changed(@)]
     /\ events' = [events EXCEPT ![h] = asked]
     /\ epoll' = IF status[h] = "Enabled"
                   THEN Modified(fd[h], [ptr |-> h, events |-> asked])
                   ELSE epoll
     /\ UNCHANGED status

removeFd(n) ==
  /\ epoll' = Without(epoll, {n})
  /\ UNCHANGED <<status, callbacks, events>>

Run(f) == \/ f.op = "update" /\ f.next = "Enabled" /\ Enable(f.h)
          \/ f.op = "update" /\ f.next = "Disabled" /\ Disable(f.h)
          \/ f.op = "set" /\ Install(f.h, f.kind, f.on)
          \/ f.op = "removeFd" /\ removeFd(f.fd)

-----------------------------------------------------------------------------
(* The code of the users *)

\* Thread t runs code of a user: the loop thread in a callback, in a functor,
\* before it calls loop() or after loop() has returned; the other thread when it
\* is not in queueInLoop().
Acts(t) == /\ t \in Users /\ phase # "dead"
           /\ t = "loop" => phase \in {"ready", "callback", "pending", "ended"}
           /\ t = "other" => pushing = <<>>

CanUse(t, h) == Acts(t) /\ t \in held[h]

\* The tests of state_ by the other thread have let it through.
WillPush(f) ==
  /\ Len(functors) < MaxQueue
  /\ pushing' = <<f>>
  /\ UNCHANGED <<functors, late>>

\* runInLoop(f) by thread t, up to the push; from End on the functor of the
\* other thread is dropped.
RunInLoop(t, f) ==
  \/ t = "loop" /\ Run(f) /\ UNCHANGED queueVars
  \/ t = "other" /\ ~End /\ WillPush(f) /\ UNCHANGED settingVars
  \/ t = "other" /\ End /\ UNCHANGED <<queueVars, settingVars>>

\* Mutant: the functors capture a plain pointer.
CapturedRaw(h, fs) == FALSE

Captured(h, fs) == \E i \in DOMAIN fs : fs[i].op # "removeFd" /\ fs[i].h = h

\* EventLoop::handleIO() and the constructor; the kernel gives any closed
\* number.
Create(t, h, n) ==
  /\ Acts(t) /\ ~End
  /\ object[h] = "none" /\ n \in Fds \ opened
  /\ object' = [object EXCEPT ![h] = "alive"]
  /\ fd' = [fd EXCEPT ![h] = n]
  /\ opened' = opened \cup {n}
  /\ held' = [held EXCEPT ![h] = {t}]
  /\ UNCHANGED <<settingVars, queueVars, loopVars>>

Share(t, h) ==
  /\ CanUse(t, h) /\ held[h] # Users
  /\ held' = [held EXCEPT ![h] = Users]
  /\ UNCHANGED <<object, fd, opened, settingVars, queueVars, loopVars>>

CallEnable(t, h) ==
  /\ CanUse(t, h)
  /\ RunInLoop(t, Update(h, "Enabled"))
  /\ UNCHANGED <<objectVars, loopVars>>

CallSetCallback(t, h, k, on) ==
  /\ CanUse(t, h)
  /\ RunInLoop(t, SetCallback(h, k, on))
  /\ UNCHANGED <<objectVars, loopVars>>

\* disable() clears the callbacks at once, on whichever thread it is called.
CallDisable(t, h) ==
  /\ CanUse(t, h)
  /\ IF quit \/ t = "loop"
       THEN /\ status' = [status EXCEPT ![h] = "Disabled"]
            /\ epoll' = IF ~quit /\ status[h] = "Enabled"
                          THEN Without(epoll, {fd[h]}) ELSE epoll
            /\ UNCHANGED queueVars
       ELSE WillPush(Update(h, "Disabled")) /\ UNCHANGED <<status, epoll>>
  /\ callbacks' = [callbacks EXCEPT ![h] = {}]
  /\ UNCHANGED <<events, objectVars, loopVars>>

\* The destructors of the handlers in D: the guard closes the descriptor, and
\* the kernel forgets a closed descriptor.
Destroy(D) ==
  /\ object' = [h \in Handlers |-> IF h \in D THEN "freed" ELSE object[h]]
  /\ opened' = opened \ {fd[h] : h \in D}
  /\ epoll' = Without(epoll, {fd[h] : h \in D})
  /\ status' = [h \in Handlers |-> IF h \in D THEN "Disabled" ELSE status[h]]
  /\ callbacks' = [h \in Handlers |-> IF h \in D THEN {} ELSE callbacks[h]]
  /\ UNCHANGED <<fd, events>>

\* The loop holds a plain pointer to the handler.
Dispatched(h) ==
  \/ phase \in {"dispatch", "callback"} /\ running.ptr = h
  \/ \E entry \in batch : entry.ptr = h

\* The push of queueInLoop(): the loop may have gone on since the tests, even to
\* its end.  A destructor that asks for the removal of its descriptor goes on to
\* close it then.
Push ==
  LET f == pushing[1]
      dying == {h \in Handlers : /\ f.op = "removeFd" /\ fd[h] = f.fd
                                 /\ object[h] = "alive"}
  IN /\ pushing # <<>> /\ phase # "dead"
     /\ pushing' = <<>>
     /\ IF phase = "ended"
          THEN late' = Append(late, f) /\ UNCHANGED functors
          ELSE functors' = Append(functors, f) /\ UNCHANGED late
     /\ held' = [h \in Handlers |-> IF h \in dying THEN {} ELSE held[h]]
     /\ Destroy(dying)
     /\ UNCHANGED loopVars

Owned(h, fs) == held[h] # {} \/ Captured(h, fs) \/ Captured(h, pushing)

\* Nobody else has a reference to h.
Last(t, h) ==
  held[h] = {t} /\ \A fs \in {functors, funcs, pushing, late} : ~Captured(h, fs)

\* The last reference may go now.
Careful(t, h) ==
  /\ t = "loop" /\ phase = "callback" => "releaseInCallback" \in Risky
  /\ t = "other" /\ ~End =>
       /\ status[h] = "Enabled" => "releaseEnabled" \in Risky
       /\ Dispatched(h) => "releaseDispatched" \in Risky

\* The destructor of an Enabled handler on the other thread asks the loop to
\* remove the descriptor, by its number; Push goes on with it.
AskToRemove(h) ==
  /\ callbacks' = [callbacks EXCEPT ![h] = {}]
  /\ WillPush(RemoveFd(fd[h]))
  /\ UNCHANGED <<objectVars, status, events, epoll>>

\* Thread t drops its reference.  On the loop thread the destructor removes the
\* descriptor itself before it closes it.
Release(t, h) ==
  /\ CanUse(t, h)
  /\ Last(t, h) => Careful(t, h)
  /\ IF Last(t, h) /\ t = "other" /\ status[h] = "Enabled" /\ ~quit
       THEN AskToRemove(h)
       ELSE /\ held' = [held EXCEPT ![h] = @ \ {t}]
            /\ IF Last(t, h) THEN Destroy({h})
                             ELSE UNCHANGED <<object, fd, opened, settingVars>>
            /\ UNCHANGED queueVars
  /\ UNCHANGED loopVars

EndLoop(t) ==
  /\ Acts(t) /\ ~quit
  /\ quit' = TRUE
  /\ UNCHANGED <<objectVars, settingVars, queueVars,
                 funcs, done, phase, batch, running>>

-----------------------------------------------------------------------------
(* The loop thread *)

\* The callbacks the events epoll may report ask for.  Hang-up and error are
\* reported always; hang-up counts only without EPOLLIN; a handler that asks for
\* "close" asks for EPOLLRDHUP, which calls the read callback.
Reports(n) ==
  LET asked == epoll[n].events
      readable == "read" \in asked \/ "close" \in asked
  IN {kinds \in SUBSET Kinds :
        /\ kinds # {}
        /\ "read" \in kinds => readable
        /\ "write" \in kinds => "write" \in asked
        /\ {"close", "read"} \subseteq kinds => "close" \in asked}

Poll ==
  /\ phase = "poll"
  /\ \E ready \in SUBSET {n \in DOMAIN epoll : Reports(n) # {}} :
       /\ ready # {} \/ functors # <<>> \/ quit
       /\ \E kinds \in [ready -> SUBSET Kinds] :
            /\ \A n \in ready : kinds[n] \in Reports(n)
            /\ batch' = {[ptr |-> epoll[n].ptr, kinds |-> kinds[n]] :
                            n \in ready}
  /\ phase' = "io"
  /\ UNCHANGED <<objectVars, settingVars, queueVars, funcs, done, running,
                 quit>>

\* retEvents() and the test of isEnabled() at the start of run() go through the
\* pointer epoll returned.
Dispatch(entry) ==
  /\ phase = "io" /\ entry \in batch
  /\ batch' = batch \ {entry}
  /\ IF object[entry.ptr] = "freed"
       THEN phase' = "dead" /\ UNCHANGED running
       ELSE IF status[entry.ptr] = "Enabled"
              THEN /\ phase' = "dispatch"
                   /\ running' = [running EXCEPT !.ptr = entry.ptr,
                                                 !.kinds = entry.kinds]
              ELSE UNCHANGED <<phase, running>>
  /\ UNCHANGED <<objectVars, settingVars, queueVars, funcs, done, quit>>

\* The next of the four tests of run(), in their order.
First(kinds) == 
  DispatchOrder[Min({i \in 1..4 : DispatchOrder[i] \in kinds})]

TestKind ==
  /\ phase = "dispatch"
  /\ IF running.kinds = {}
       THEN phase' = "io" /\ UNCHANGED running
       ELSE LET k == First(running.kinds)
            IN /\ running' = [running EXCEPT !.kinds = @ \ {k}, !.now = k]
               /\ phase' = IF k \in callbacks[running.ptr] THEN "callback"
                                                           ELSE "dispatch"
  /\ UNCHANGED <<objectVars, settingVars, queueVars, funcs, done, batch, quit>>

\* Every test but the last one reads revents_ after the callback has returned.
CallbackReturns ==
  /\ phase = "callback"
  /\ phase' = IF object[running.ptr] = "freed" /\ running.now # "write"
                THEN "dead" ELSE "dispatch"
  /\ UNCHANGED <<objectVars, settingVars, queueVars, funcs, done, batch,
                 running, quit>>

SwapFunctors ==
  /\ phase = "io" /\ batch = {}
  /\ phase' = "pending"
  /\ funcs' = functors /\ functors' = <<>> /\ done' = 0
  /\ UNCHANGED <<objectVars, settingVars, pushing, late, batch, running, quit>>

RunFunctor ==
  /\ phase = "pending" /\ done < Len(funcs)
  /\ Run(funcs[done + 1])
  /\ done' = done + 1
  /\ UNCHANGED <<objectVars, queueVars, funcs, phase, batch, running, quit>>

\* The test of quit_, and state_ = End.  The vector goes out of scope, and the
\* handlers only it kept alive.
WhileNotQuit ==
  /\ phase \in {"ready", "pending"} /\ done = Len(funcs)
  /\ phase' = IF quit THEN "clear" ELSE "poll"
  /\ funcs' = <<>> /\ done' = 0
  /\ Destroy({h \in Handlers : object[h] = "alive" /\ ~Owned(h, functors)})
  /\ UNCHANGED <<held, queueVars, batch, running, quit>>

\* Mutant: the loop ends without clearing pendingFunctors_.
EndKeepsFunctors ==
  /\ phase = "clear" /\ phase' = "ended"
  /\ UNCHANGED <<objectVars, settingVars, queueVars, funcs, done, batch,
                 running, quit>>

\* loop() drops what has been queued, and the handlers only that kept alive.
ClearPending ==
  /\ phase = "clear" /\ phase' = "ended"
  /\ functors' = <<>>
  /\ Destroy({h \in Handlers : object[h] = "alive" /\ ~Owned(h, <<>>)})
  /\ UNCHANGED <<held, pushing, late, funcs, done, batch, running, quit>>

-----------------------------------------------------------------------------
UserStep ==
  \E t \in Users :
    \/ EndLoop(t)
    \/ \E h \in Handlers :
         \/ \E n \in Fds : Create(t, h, n)
         \/ Share(t, h) \/ Release(t, h)
         \/ CallEnable(t, h) \/ CallDisable(t, h)
         \/ \E k \in Kinds, on \in BOOLEAN : CallSetCallback(t, h, k, on)

LoopStep ==
  \/ Poll \/ (\E entry \in batch : Dispatch(entry)) \/ TestKind
  \/ CallbackReturns \/ SwapFunctors \/ RunFunctor \/ WhileNotQuit
  \/ ClearPending

Next == UserStep \/ Push \/ LoopStep

-----------------------------------------------------------------------------
(* Properties *)

\* What epoll watches is what the handlers say: a descriptor is registered with
\* a handler exactly when that handler is alive, Enabled and guards it, for the
\* events it asked for (updateIOHandler, EventLoop.cpp:279-297, and the
\* destructor, IOHandler.cpp:40-74).  After endLoop() nobody polls any more.
EpollMatchesHandlers ==
  ~quit =>
    LET Enabled == {h \in Handlers : status[h] = "Enabled"}
    IN epoll = [n \in {fd[h] : h \in Enabled} |->
                  Entry(CHOOSE h \in Enabled : fd[h] = n)]

\* The state of the handlers, whatever their users do.
HandlersLegal == TypeOK /\ EpollMatchesHandlers

\* loop() and run() never touch a handler that has been destroyed.
NoUseAfterFree == phase # "dead"

\* No handler lives for ever after its last user has let it go: it is destroyed
\* and its descriptor closed, even if only functors the ending loop drops own it
\* (EventLoop.cpp:149-152).  The one exception is what a thread pushes after
\* that which has tested state_ before: that functor stays, it owns the handler,
\* and the handler owns the loop (EventLoop.cpp:174-182).
DescriptorReclaimed ==
  \A h \in Handlers :
    []<>(object[h] = "alive" => held[h] # {} \/ Captured(h, late))

=============================================================================
