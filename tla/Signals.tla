------------------------------ MODULE Signals ------------------------------
(***************************************************************************)
(* EventLoop::handleSignal() and handleKeyboard(), SignalHandler           *)
(* (src/src/core/Signal.cpp), and the mask, the dispositions and the       *)
(* terminal mode they set, over the loops a process creates one after the  *)
(* other.  Calls are made on the loop thread (those of other threads are   *)
(* functors there), which is the only one not to block a signal; the       *)
(* signals are such that their default action ends the process.            *)
(***************************************************************************)
EXTENDS Naturals

CONSTANTS
  Signums,     \* the signals in use
  MaxLoops     \* bound: loops created

ASSUME SignalAssumption == MaxLoops \in Nat \ {0}

VARIABLES
  signal,      \* signal[s]: its entry in signalMap_ and in the kernel
  keyboard,    \* interactiveIOHandler_, and the terminal
  loops,       \* how many loops have been created
  ended,       \* whether the state of the last one is End
  process      \* "alive", "killed" by a signal, or "crashed"

signalVars == <<signal, keyboard, loops, ended, process>>

Actions == {"Ignored", "Default", "Handled"}

SignalTypeOK ==
  /\ signal \in [Signums ->
       [action : Actions \cup {"none"},          \* of the SignalHandler
        callback : {"none", "reading", "bare"},  \* of its IOHandler
        enabled : BOOLEAN,                       \* whether that is
        blocked : BOOLEAN, ignored : BOOLEAN, pending : BOOLEAN]]
  /\ keyboard \in [handler : {"none", "own", "orphan"}, enabled : BOOLEAN,
                   terminal : {"normal", "interactive"}, wanted : BOOLEAN]
  /\ loops \in 1..MaxLoops /\ ended \in BOOLEAN
  /\ process \in {"alive", "killed", "crashed"}

NoHandler == [action |-> "none", callback |-> "none", enabled |-> FALSE,
              blocked |-> FALSE, ignored |-> FALSE, pending |-> FALSE]

SignalInit ==
  /\ signal = [s \in Signums |-> NoHandler]
  /\ keyboard = [handler |-> "none", enabled |-> FALSE,
                 terminal |-> "normal", wanted |-> FALSE]
  /\ loops = 1 /\ ended = FALSE /\ process = "alive"

-----------------------------------------------------------------------------
(* SignalHandler: x is the entry of one signal. *)

\* handleSignal() with an action other than Handled.
BackTo(x, action) ==
  [x EXCEPT !.blocked = FALSE, !.pending = FALSE,
            !.ignored = (action = "Ignored")]

\* It unblocks before it sets the action, so a signal that is pending acts.
KilledBy(x) == x.pending

\* handleSignal() with Handled, and createIOHandler().
Watched(x) ==
  [x EXCEPT !.callback = "reading", !.enabled = TRUE,
            !.blocked = TRUE, !.ignored = FALSE]

\* Mutant: the handler is not disabled.
LeaveEnabled(x, action) == BackTo(x, action)

\* From Handled to another action.
Leave(x, action) == BackTo([x EXCEPT !.enabled = FALSE], action)

\* The constructor and update().  An IOHandler that is there already gets the
\* callback as it is, which does not read the signalfd.
Update(x, action) ==
  LET y == [x EXCEPT !.action = action]
      handled == action = "Handled"
  IN CASE x.action = "Handled" /\ handled -> [y EXCEPT !.callback = "bare"]
       [] x.action = "Handled" /\ ~handled -> Leave(y, action)
       [] x.action # "Handled" /\ handled /\ x.callback # "none" ->
            [y EXCEPT !.callback = "bare", !.enabled = TRUE]
       [] x.action # "Handled" /\ handled /\ x.callback = "none" -> Watched(y)
       [] x.action # "Handled" /\ ~handled -> BackTo(y, action)

-----------------------------------------------------------------------------
(* The loop and its users *)

LoopRuns == ~ended /\ process = "alive"

handleSignal(s, action) ==
  /\ LoopRuns
  /\ signal' = [signal EXCEPT ![s] = Update(@, action)]
  /\ process' = IF action # "Handled" /\ KilledBy(signal[s]) THEN "killed"
                                                             ELSE process
  /\ UNCHANGED <<keyboard, loops, ended>>

\* Another process, or this one, sends a signal.
Raise(s) ==
  /\ process = "alive"
  /\ IF signal[s].blocked
       THEN signal' = [signal EXCEPT ![s].pending = TRUE] /\ UNCHANGED process
       ELSE /\ process' = IF signal[s].ignored THEN process ELSE "killed"
            /\ UNCHANGED signal
  /\ UNCHANGED <<keyboard, loops, ended>>

\* The signalfd is readable and the callback is run.
SignalCallback(s) ==
  /\ LoopRuns /\ signal[s].enabled /\ signal[s].pending
  /\ signal' = [signal EXCEPT ![s].pending = (signal[s].callback = "bare")]
  /\ UNCHANGED <<keyboard, loops, ended, process>>

\* handleKeyboard() with a callback, or with nullptr.  The handler a former
\* loop has left has no loop it could go to.
handleKeyboard(on) ==
  /\ process = "alive"
  /\ keyboard' =
       IF \/ ended \/ keyboard.handler = "orphan"
          \/ ~on /\ keyboard.handler = "none"
         THEN [keyboard EXCEPT !.wanted = on]
         ELSE [handler |-> "own", enabled |-> on, wanted |-> on,
               terminal |-> IF on THEN "interactive" ELSE "normal"]
  /\ process' = IF ~ended /\ keyboard.handler = "orphan" THEN "crashed"
                                                         ELSE process
  /\ UNCHANGED <<signal, loops, ended>>

\* loop() returns, or endLoop() runs it when it has not been called.  The
\* handlers go; that of the keyboard stays, without its loop.  One that a former
\* loop has left is disabled through the loop it has not got.
EndLoop ==
  /\ LoopRuns
  /\ ended' = TRUE
  /\ signal' = [s \in Signums |->
       IF signal[s].action = "none" THEN signal[s] ELSE NoHandler]
  /\ process' = IF \E s \in Signums : KilledBy(signal[s]) THEN "killed"
                ELSE IF keyboard.handler = "orphan" THEN "crashed" ELSE process
  /\ keyboard' = IF keyboard.handler = "none" THEN keyboard
                 ELSE [keyboard EXCEPT !.handler = "orphan", !.enabled = FALSE]
  /\ UNCHANGED loops

CreateLoop ==
  /\ ended /\ process = "alive" /\ loops < MaxLoops
  /\ loops' = loops + 1 /\ ended' = FALSE
  /\ UNCHANGED <<signal, keyboard, process>>

SignalNext ==
  \/ \E s \in Signums :
       Raise(s) \/ SignalCallback(s) \/ (\E a \in Actions : handleSignal(s, a))
  \/ \E on \in BOOLEAN : handleKeyboard(on)
  \/ EndLoop \/ CreateLoop

-----------------------------------------------------------------------------
(* Properties *)

\* Whatever actions a signal has gone through, epoll watches it exactly while it
\* is Handled, and otherwise mask and disposition are those of its action, of
\* Default when there is no loop, until a signal kills the process; the terminal
\* is interactive exactly while the keyboard has a handler of the loop
\* (Signal.cpp:84-120, EventLoop.cpp:135-148, 349-386).
SignalsFollowActions ==
  /\ SignalTypeOK
  /\ process # "killed" => \A s \in Signums :
       LET x == signal[s]
       IN /\ x.enabled = (x.action = "Handled")
          /\ x.action # "Handled" =>
               ~x.blocked /\ ~x.pending /\ x.ignored = (x.action = "Ignored")
          /\ ended => x = NoHandler
  /\ keyboard.handler = "own" =>
       keyboard.enabled = (keyboard.terminal = "interactive")

\* "Block signal so it doesn't get handled by the default handler"
\* (Signal.cpp:29)
HandledIsBlocked ==
  \A s \in Signums : signal[s].action = "Handled" => signal[s].blocked

\* "put nullptr to be back to normal" (EventLoop.h:79)
BackToNormal ==
  ~keyboard.wanted => keyboard.terminal = "normal" \/ process # "alive"
=============================================================================
