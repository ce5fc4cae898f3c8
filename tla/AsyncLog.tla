------------------------------ MODULE AsyncLog ------------------------------
(***************************************************************************)
(* AsyncLog (src/src/log/AsyncLogging.cpp), as AsyncLogStdout, with its    *)
(* BlockingQueue and its thread; and the end of a Logger                   *)
(* (src/src/log/Logging.cpp), of any number of threads.  The creator of    *)
(* the thread constructs the log and destroys it when the last Logger is   *)
(* done.  null is the flush.                                               *)
(***************************************************************************)
EXTENDS Thread, Sequences, FiniteSets, Functions

CONSTANTS
  Messages, null,
  MaxFlushes     \* bound: no flush() of a user when that many are queued

ASSUME LogAssumption == null \notin Messages /\ MaxFlushes \in Nat

VARIABLES
  queue,     \* bufferQueue_
  writer,    \* the log thread, in logThreadFunc()
  item,      \* what it has taken
  stop,      \* stop_
  object,    \* the type the object has: its output is that of AsyncLog before
             \* and after it is an AsyncLogStdout
  logged,    \* history: what Loggers and users have queued, flushes included
  stdout,    \* what output_append() and output_flush() have got, as null
  fatal      \* how many Loggers of level FATAL have queued no more than their
             \* message, how many a flush too, and whether one has aborted

queueVars == <<queue, logged>>
writerVars == <<writer, item, stdout>>
logVars == <<threadVars, queueVars, writerVars, stop, object, fatal>>

Entries == Messages \cup {null}

LogTypeOK ==
  /\ ThreadTypeOK
  /\ queue \in Seq(Entries)
  /\ logged \in Seq(Entries) /\ stdout \in Seq(Entries)
  /\ writer \in {"while", "take", "waiting", "output"}
  /\ item \in Entries
  /\ stop \in BOOLEAN
  /\ object \in {"AsyncLog", "AsyncLogStdout"}
  /\ fatal \in [message : Nat, flush : Nat, aborted : BOOLEAN]

LogInit ==
  /\ ThreadInit
  /\ queue = <<>> /\ writer = "while" /\ item = null
  /\ stop = FALSE /\ object = "AsyncLog"
  /\ logged = <<>> /\ stdout = <<>>
  /\ fatal = [message |-> 0, flush |-> 0, aborted |-> FALSE]

Alive == ~fatal.aborted

\* put(), and whom it notifies.
Put(x) ==
  /\ queue' = Append(queue, x)
  /\ writer' = IF writer = "waiting" THEN "take" ELSE writer
  /\ UNCHANGED <<threadVars, item, stdout>>

-----------------------------------------------------------------------------
(* Loggers, and the owner of the log *)

\* start() has not returned to the constructor, or it has.
Constructed ==
  /\ creator = "started" /\ object = "AsyncLog" /\ ~stop
  /\ object' = "AsyncLogStdout"
  /\ UNCHANGED <<threadVars, queueVars, writerVars, stop, fatal>>

Usable == object = "AsyncLogStdout" /\ Alive

\* The end of a Logger, whose level may be FATAL.
addLog(m) ==
  /\ Usable /\ m \notin Range(logged)
  /\ logged' = Append(logged, m)
  /\ fatal' \in {fatal, [fatal EXCEPT !.message = @ + 1]}
  /\ Put(m) /\ UNCHANGED <<stop, object>>

PutFlush ==
  /\ logged' = Append(logged, null)
  /\ Put(null) /\ UNCHANGED <<stop, object>>

\* A user's.
flush ==
  /\ Usable
  /\ Cardinality({i \in DOMAIN logged : logged[i] = null}) < MaxFlushes
  /\ PutFlush /\ UNCHANGED fatal

FatalFlush ==
  /\ Usable /\ fatal.message > 0
  /\ fatal' = [fatal EXCEPT !.message = @ - 1, !.flush = @ + 1]
  /\ PutFlush

Abort ==
  /\ Usable /\ fatal.flush > 0
  /\ fatal' = [fatal EXCEPT !.aborted = TRUE]
  /\ UNCHANGED <<threadVars, queueVars, writerVars, stop, object>>

\* The destructor of AsyncLogStdout does nothing, but the object is an AsyncLog
\* from then on.
Destroy ==
  /\ Usable /\ fatal.message = 0 /\ fatal.flush = 0
  /\ object' = "AsyncLog" /\ stop' = TRUE
  /\ UNCHANGED <<threadVars, queueVars, writerVars, fatal>>

\* Mutant: the writer is left waiting.
JoinAtOnce ==
  /\ creator = "started" /\ stop
  /\ creator' = "join"
  /\ UNCHANGED <<body, tid, latchVars, queueVars, writerVars, stop, object,
                 fatal>>

FlushAndJoin ==
  /\ creator = "started" /\ stop
  /\ creator' = "join"
  /\ queue' = Append(queue, null)
  /\ writer' = IF writer = "waiting" THEN "take" ELSE writer
  /\ UNCHANGED <<body, tid, latchVars, logged, item, stdout, stop, object,
                 fatal>>

-----------------------------------------------------------------------------
(* logThreadFunc() *)

WhileNotStop ==
  /\ body = "func" /\ writer = "while"
  /\ IF stop THEN body' = "finished" /\ UNCHANGED writer
             ELSE writer' = "take" /\ UNCHANGED body
  /\ UNCHANGED <<creator, tid, latchVars, item, stdout, queueVars>>

WaitNotEmpty ==
  /\ writer = "take" /\ queue = <<>>
  /\ writer' = "waiting"
  /\ UNCHANGED <<threadVars, item, stdout, queueVars>>

SpuriousWakeUp ==
  /\ writer = "waiting" /\ writer' = "take"
  /\ UNCHANGED <<threadVars, item, stdout, queueVars>>

\* Mutant: what is taken stays in front.
TakeCopies ==
  /\ writer = "take" /\ queue # <<>>
  /\ item' = Head(queue) /\ UNCHANGED queue
  /\ writer' = "output"
  /\ UNCHANGED <<threadVars, stdout, logged>>

Take ==
  /\ writer = "take" /\ queue # <<>>
  /\ item' = Head(queue) /\ queue' = Tail(queue)
  /\ writer' = "output"
  /\ UNCHANGED <<threadVars, stdout, logged>>

\* output_append() or output_flush(), which are AsyncLog's own, and empty, while
\* the object is no more than that.
Output ==
  /\ writer = "output"
  /\ writer' = "while"
  /\ stdout' = IF object = "AsyncLog" THEN stdout ELSE Append(stdout, item)
  /\ item' = null
  /\ UNCHANGED <<threadVars, queueVars>>

WriterStep == WhileNotStop \/ WaitNotEmpty \/ Take \/ Output

InThread(step) ==
  Alive /\ step /\ UNCHANGED <<queueVars, writerVars, stop, object, fatal>>
InWriter(step) == Alive /\ step /\ UNCHANGED <<stop, object, fatal>>

LogNext ==
  \/ InThread(ThreadStep) \/ InWriter(WriterStep) \/ InWriter(SpuriousWakeUp)
  \/ Constructed \/ Destroy \/ FlushAndJoin \/ flush \/ FatalFlush \/ Abort
  \/ \E m \in Messages : addLog(m)

\* Threads are scheduled, and one that wants the mutex gets it some time.
LogFairness ==
  /\ WF_logVars(InThread(CreatorStep)) /\ SF_logVars(InThread(BodyStep))
  /\ WF_logVars(InWriter(WriterStep))
  /\ WF_logVars(Constructed \/ FlushAndJoin)

-----------------------------------------------------------------------------
(* Properties *)

Taken == IF writer = "output" THEN <<item>> ELSE <<>>

\* Until the log is destroyed the messages and flushes that have reached stdout,
\* are taken and are queued are those that were queued, in order, whichever
\* threads go on to log while others are about to abort (AsyncLogging.cpp:21-47,
\* Logging.cpp:126-135); and the log's thread has been started properly.
LogInOrder ==
  /\ LogTypeOK /\ StartIsComplete
  /\ object = "AsyncLogStdout" => stdout \o Taken \o queue = logged

Settled ==
  /\ creator \in {"new", "failed", "started", "joined"}
  /\ stop => creator = "joined"
  /\ stdout = logged \/ object = "AsyncLog"

\* The constructor and the destructor return, and what is logged meanwhile is
\* written, unless a fatal message ends the process: nobody waits for ever for
\* the latch, the mutex, the queue or the thread (Thread.cpp:110, 117,
\* BlockingQueue.h:46, AsyncLogging.cpp:12-17).
LogIsLive == []<>(Settled \/ ~Alive)

\* What is logged before the log is destroyed is written.
NothingIsDropped == creator = "joined" => stdout = logged
=============================================================================
