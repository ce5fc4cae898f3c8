---------------------------- MODULE TCPConnector ----------------------------
(***************************************************************************)
(* A TCPConnector (src/src/net/TCPConnector.cpp): start() and stop() from  *)
(* any thread, the non-blocking connect(), the events of its handler, and  *)
(* the retries with their growing delay.                                   *)
(*                                                                         *)
(* The connector is one record, c, and the methods are operators from      *)
(* records to records, composed as the code calls them.  All of them run   *)
(* on the loop thread; what start() and stop() queue there is in pending.  *)
(* A call made by a callback of the connector, which is always the last    *)
(* thing a method does, is a call that is run next.                        *)
(***************************************************************************)
EXTENDS Integers, Sequences, FiniteSetsExt

CONSTANTS
  Retries,       \* values given to setRetries(), besides -1
  Constants,     \* delays given to setRetryConstantDelay(), in ms
  MaxStarts,      \* bound: calls of start(), stop() and the two setters
  MaxFailures    \* bound: attempts the network fails

DefaultRetryDelayMs == 500
MaxRetryDelayMs == 30000

ASSUME ConnectorAssumption ==
  /\ Retries \subseteq Nat /\ Constants \subseteq Nat
  /\ MaxStarts \in Nat /\ MaxFailures \in Nat

VARIABLES
  c,         \* the connector, see ConnectorTypeOK
  pending,     \* functors of start() and stop() the loop has not run
  timers,    \* retry timers that have not fired
  made,      \* how many calls users have made
  failures   \* how many attempts have failed

connectorVars == <<c, pending, timers, made, failures>>

ConnectorTypeOK ==
  /\ c \in [state : {"Disconnected", "Connecting", "Connected"},
            handler : {"null", "idle", "enabled"}, \* socketHandler_
            socket : {"new", "pending", "up", "failed"}, \* its descriptor
            maxRetries : Int, currentRetries : Nat,
            retryDelayMs : Nat, constantDelay : BOOLEAN,
            handed : Nat,  \* connections handed out since the last call
            outcome : {"none", "trying", "connected", "failed", "stopped"},
            broken : SUBSET {"check", "freed"}]
  /\ pending \in Seq({"start", "stop"})
  /\ timers \in Nat
  /\ made \in 0..MaxStarts /\ failures \in 0..MaxFailures

ConnectorInit ==
  /\ c = [state |-> "Disconnected", handler |-> "idle", socket |-> "new",
          maxRetries |-> 0, currentRetries |-> 0,
          retryDelayMs |-> DefaultRetryDelayMs, constantDelay |-> FALSE,
          handed |-> 0, outcome |-> "none", broken |-> {}]
  /\ pending = <<>> /\ timers = 0 /\ made = 0 /\ failures = 0

-----------------------------------------------------------------------------
(* The methods.  x is the connector before the call. *)

Check(x, condition) ==
  IF condition THEN x ELSE [x EXCEPT !.broken = @ \cup {"check"}]

\* Mutant: no new handler is made.
StopKeepsHandler(x) ==
  IF x.state = "Disconnected" THEN x
  ELSE [x EXCEPT !.state = "Disconnected", !.socket = "new"]

\* stop(): the handler is dropped, unless it was handed out, and a new one made.
Stop(x) ==
  IF x.state = "Disconnected" THEN x
  ELSE [x EXCEPT !.state = "Disconnected", !.handler = "idle",
                 !.socket = "new"]

MayRetry(x) == x.maxRetries < 0 \/ x.currentRetries < x.maxRetries

\* retry(), without its timer: see After.
Retry(x) ==
  IF MayRetry(x)
    THEN [Stop(x) EXCEPT
            !.currentRetries = @ + 1,
            !.retryDelayMs = IF x.constantDelay THEN @
                             ELSE Min({@ * 2, MaxRetryDelayMs})]
    ELSE [Stop(x) EXCEPT !.outcome = "failed"]

\* handleConnectError()
ConnectError(x) == IF x.state = "Connected" THEN x ELSE Retry(x)

Connecting(x) ==
  [Check(x, x.state = "Connecting") EXCEPT !.handler = "enabled"]

\* What connect(2) does: it succeeds, or not, or is in progress; errno is one of
\* the values the switch tells apart.  After a success it is what was there.
Answers == [socket : {"up"}, errno : {"progress", "retry", "fatal"}]
             \cup [socket : {"pending"}, errno : {"progress"}]
             \cup [socket : {"failed"}, errno : {"retry", "fatal"}]

Connect(x, answer) ==
  LET begun == [Check(x, x.state = "Disconnected" /\ x.handler # "null")
                  EXCEPT !.state = "Connecting", !.socket = answer.socket]
  IN CASE answer.errno = "progress" -> Connecting(begun)
       [] answer.errno = "retry" -> Retry(begun)
       [] answer.errno = "fatal" -> ConnectError(begun)

\* Mutant: only the first start() resets the delay.
ResetKeepsDelay(x) == [x EXCEPT !.currentRetries = 0]

Reset(x) ==
  [x EXCEPT !.currentRetries = 0,
            !.retryDelayMs = IF x.constantDelay THEN @ ELSE DefaultRetryDelayMs]

\* Mutant: the state stays Connecting, and the handler its own.
ConnectWriteAgain(x) ==
  IF x.socket = "failed" THEN Retry(x)
  ELSE [x EXCEPT !.outcome = "connected", !.handed = @ + 1]

\* handleConnectWrite()
ConnectWrite(x) ==
  CASE x.state # "Connecting" -> x
    [] x.state = "Connecting" /\ x.socket = "failed" -> Retry(x)
    [] x.state = "Connecting" /\ x.socket # "failed" ->
         [x EXCEPT !.state = "Connected", !.handler = "null",
                   !.outcome = "connected", !.handed = @ + 1]

-----------------------------------------------------------------------------
(* The steps *)

\* Mutant: a retry arms no timer.
AfterWithoutTimer(x, armed, tried, failed) ==
  /\ c' = x
  /\ timers' = armed
  /\ failures' = failures + (IF failed THEN 1 ELSE 0)
  /\ failures' \in 0..MaxFailures

\* The methods have taken the connector from tried to x; retry() has armed a
\* timer if it has counted one more.
After(x, armed, tried, failed) ==
  /\ c' = x
  /\ timers' = armed + (x.currentRetries - tried.currentRetries)
  /\ failures' = failures + (IF failed THEN 1 ELSE 0)
  /\ failures' \in 0..MaxFailures

Attempt(tried, armed) ==
  \E answer \in Answers :
    After(Connect(tried, answer), armed, tried,
          answer.socket = "failed" \/ answer.errno # "progress")

MayCall == made < MaxStarts /\ made' = made + 1

Call(f) ==
  /\ MayCall
  /\ pending' = Append(pending, f)
  /\ UNCHANGED <<c, timers, failures>>

\* The setters write to the connector at once, on any thread.
SetRetries(n) ==
  /\ MayCall
  /\ c' = [c EXCEPT !.maxRetries = n]
  /\ UNCHANGED <<pending, timers, failures>>

SetRetryConstantDelay(ms) ==
  /\ MayCall
  /\ c' = [c EXCEPT !.retryDelayMs = ms, !.constantDelay = TRUE]
  /\ UNCHANGED <<pending, timers, failures>>

Restarted(x) == Reset([Stop(x) EXCEPT !.outcome = "trying", !.handed = 0])

RunStart ==
  /\ pending # <<>> /\ Head(pending) = "start"
  /\ pending' = Tail(pending)
  /\ Attempt(Restarted(c), timers)
  /\ UNCHANGED made

RunStop ==
  /\ pending # <<>> /\ Head(pending) = "stop"
  /\ pending' = Tail(pending)
  /\ c' = [Stop(c) EXCEPT !.outcome = "stopped", !.handed = 0]
  /\ UNCHANGED <<timers, made, failures>>

\* Mutant: the timer connects whatever has happened meanwhile.
TimerConnects ==
  /\ timers > 0
  /\ Attempt(c, timers - 1)
  /\ UNCHANGED <<pending, made>>

RetryTimer ==
  /\ timers > 0
  /\ IF c.state = "Disconnected"
       THEN Attempt(c, timers - 1)
       ELSE timers' = timers - 1 /\ UNCHANGED <<c, failures>>
  /\ UNCHANGED <<pending, made>>

\* The handshake ends one way or the other, or the peer resets the connection
\* before the loop has seen it.
KernelAnswers ==
  /\ \/ c.socket = "pending" /\ c' = [c EXCEPT !.socket = "up"]
        /\ UNCHANGED failures
     \/ /\ c.socket \in {"pending", "up"} /\ c.state = "Connecting"
        /\ failures < MaxFailures /\ failures' = failures + 1
        /\ c' = [c EXCEPT !.socket = "failed"]
  /\ UNCHANGED <<pending, timers, made>>

\* run() of the handler.  A failure raises several events; the first callback of
\* close, error and write ends the attempt and clears the other callbacks, but
\* run() goes on testing after all but the last, in a handler that is freed.
HandleEvents ==
  /\ c.handler = "enabled" /\ c.socket \in {"up", "failed"}
  /\ \/ After(ConnectWrite(c), timers, c, FALSE)
     \/ /\ c.socket = "failed"
        /\ After([ConnectError(c) EXCEPT !.broken = @ \cup {"freed"}],
                 timers, c, FALSE)
  /\ UNCHANGED <<pending, made>>

UserStep ==
  \/ \E f \in {"start", "stop"} : Call(f)
  \/ \E n \in Retries \cup {-1} : SetRetries(n)
  \/ \E ms \in Constants : SetRetryConstantDelay(ms)

ConnectorLoopStep == RunStart \/ RunStop \/ RetryTimer \/ HandleEvents

ConnectorNext == UserStep \/ ConnectorLoopStep \/ KernelAnswers

\* The loop runs functors, events and timers; the network answers.  Functors
\* and events are served however often timers fire.
ConnectorFairness ==
  /\ WF_connectorVars(RunStart \/ RunStop) /\ WF_connectorVars(RetryTimer)
  /\ WF_connectorVars(HandleEvents) /\ WF_connectorVars(KernelAnswers)

-----------------------------------------------------------------------------
(* Properties *)

\* The HCHECKs of connect() and connecting() hold, and connect() never goes
\* through a null handler (TCPConnector.cpp:121-126, 169), with starts and stops
\* during the back-off and timers left over from an earlier start().
ChecksHold == "check" \notin c.broken

\* The connector has a handler exactly while it has no connection to give away,
\* and epoll watches it exactly during an attempt: no attempt is forgotten, none
\* goes on unwatched (TCPConnector.cpp:99-114, 185, 212).
HandlerMatchesState ==
  c.handler = CASE c.state = "Disconnected" -> "idle"
                [] c.state = "Connecting" -> "enabled"
                [] c.state = "Connected" -> "null"

\* The state of a connector, whatever users, timers and the network do.
ConnectorLegal == ConnectorTypeOK /\ ChecksHold /\ HandlerMatchesState

\* The exponential delay is a function of the retries since start(), capped, in
\* whatever order starts, stops and left over timers come
\* (TCPConnector.cpp:74-77, 251-253).
BackoffDoubles ==
  ~c.constantDelay =>
    c.retryDelayMs = Min({DefaultRetryDelayMs * 2^c.currentRetries,
                          MaxRetryDelayMs})

\* Between two calls of start() or stop() at most one connection is handed to
\* the user, though several timers may be armed (TCPConnector.cpp:214, 262).
OneConnectionPerCall == c.handed <= 1

\* Every start() ends in a connection, in failedCallback_ or in a later stop()
\* or start(): no attempt and no retry is lost on the way.
EveryStartEnds == []<>(c.outcome # "trying")

\* "Stop current connector's attempt to connect, thread safe" (TCPConnector.h:51)
StopIsFinal == c.outcome = "stopped" => c.state = "Disconnected"

\* "give shared ownership to both user and eventloop" (IOHandler.h:21): the
\* loop does not go on with a handler the connector has freed.
RunningHandlerLives == "freed" \notin c.broken

=============================================================================
