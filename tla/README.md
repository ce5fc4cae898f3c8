# A TLA+ verification of Hohnor

Hohnor is a C++11 reactor library for Linux: an event loop over epoll with
cross-thread submission of callbacks, handlers for descriptors, timers and
signals, a TCP layer on top of them, and the threading helpers (queues, pool,
mutexes, asynchronous logging) next to it. This directory holds TLA+ models of
its control flow, TLC configurations for small instances and TLAPS proofs.

Paths below are relative to the repository (`src/core/EventLoop.cpp`,
`include/hohnor/core/EventLoop.h`, ...); `PROJECT.json` maps every definition to
the lines it stands for, from the root of the checkout.

To check everything: `tlc -config <run>.cfg <module>` for the runs of the tables
below and `tlapm <module>.tla` for `Counting` and each module named `..._proofs`.

## 1. Inventory

### Core

| Component | State | Operations | Interacts with |
|---|---|---|---|
| **EventLoop** (`src/core/EventLoop.cpp`) | `state_` (Ready, Polling, IOHandling, PendingHandling, End), `quit_`, `threadId_`, `pendingFunctors_` with its lock, `wakeUpHandler_` (eventfd), the timer queue, a map of signals, an optional pool | `loop`, `runInLoop`, `queueInLoop`, `wakeUp`, `endLoop`, `handleIO`, `updateIOHandler`, `removeFd`, `addTimer`, `runInPool`, `handleSignal` | called from any thread; calls the callbacks of users, who call it back |
| **IOHandler, Epoll** (`src/core/IOHandler.cpp`, `src/io/Epoll.cpp`) | status (Created, Enabled, Disabled), four callbacks, events asked for and reported, the guarded descriptor; the interest list | `enable`, `disable`, `set*Callback`, `run`, the destructor | all changes go through `runInLoop` as functors that hold the handler; epoll holds a raw pointer |
| **Timer, TimerQueue** (`src/core/Timer.cpp`) | expiration, interval, `disabled_`, callback; a heap of timers and one timerfd | `addTimer`, `disable`, `updateCallback`, `handleRead` | functors of the loop, an IOHandler of the timerfd, two clocks |
| **BinaryHeap** (`include/hohnor/common/BinaryHeap.h`) | a vector | `insert`, `top`, `popTop` | used by TimerQueue |
| **SignalHandler** (`src/core/Signal.cpp`) | action per signal, the mask of blocked signals, a signalfd | `update`, `disable`, `run` | an IOHandler; the map of EventLoop |

### Threads and data structures

| Component | State | Operations | Interacts with |
|---|---|---|---|
| **CircularBuffer** (`include/hohnor/common/CircularBuffer.h`) | slots, `head_`, `tail_` | `enqueue`, `dequeue`, `front`, `full`, `empty`, `size` | BoundedBlockingQueue |
| **BoundedBlockingQueue** (`include/hohnor/thread/BoundedBlockingQueue.h`) | the ring, a mutex, `notEmpty_`, `notFull_`, `end_` | `put`, `take`, `giveUp` | ThreadPool |
| **ThreadPool** (`src/thread/ThreadPool.cpp`) | the workers, `running_`, the queue, `busyThreads_` | `start`, `stop`, `run`, the loop of a worker | tasks may call `run` of their own pool |
| **BlockingQueue, AsyncLogging, Logging** (`src/log`) | a queue of log lines and null for a flush, a log thread, `stop_` | `append`, `flush`, the destructor, `abort` after a fatal message | any thread logs |
| **LogFile** (`src/file/LogFile.cpp`) | the file, bytes written, the day, the last flush | append, roll, flush | the writer thread |
| **Mutex, Thread, CountDownLatch** | holder of the mutex, thread id and start state, the count | lock, wait, start, join | everything above |

### Net

| Component | State | Operations | Interacts with |
|---|---|---|---|
| **TCPConnector** (`src/net/TCPConnector.cpp`) | Disconnected, Connecting, Connected; a handler, retries, the back-off delay | `start`, `stop`, `retry`, the write and error callbacks | timers and an IOHandler |
| **TCPConnection, Buffer** (`src/net/TCPConnection.cpp`, `include/hohnor/common/Buffer.h`) | read mode, two buffers, `writing_`, high-water mark | `read*`, `write`, `shutdown`, `forceClose`, the callbacks | an IOHandler; any thread writes |
| **TCPAcceptor, Socket** | the handler, listening or not | `listen`, accept | creates TCPConnections |
| **UDPSocket, InetAddress, SocketWrap** | none of their own | conversions and system calls | |

### Text, time and programs

| Component | State | Operations | Interacts with |
|---|---|---|---|
| **LogStream** (`src/log/LogStream.cpp`) | a fixed buffer | `operator<<`, `formatSI`, `formatIEC` | Logger |
| **Date** (`src/time/Date.cpp`) | a Julian day number | conversions, `weekDay` | |
| **SnakeGame** (`example/SnakeGame`) | snake, food, direction, running | keys, timer, signal | EventLoop, the keyboard |
| **TCPEcho** (`example/TCPEcho`) | client: connection, connector, two flags; server: `clients_`, `listenSocket_` | the callbacks of both, SIGINT | TCPConnector, TCPConnection, TCPAcceptor, timers |

StringPiece, Timestamp, ProcessInfo, FileUtils' reading half, Singleton, the other
examples and the benchmarks are not modelled, see section 6.

### What is hard here, and what makes each component correct

* **EventLoop.** A callback may be submitted at any point of the loop by any
  thread, and `queueInLoop` writes the eventfd only under a condition made of three
  separate reads. Correct is: the loop never blocks with work waiting, functors run
  once and in order on one thread, a loop that is asked to end ends.
* **IOHandler.** Three kinds of ownership meet (users, queued functors, raw pointers
  in epoll and in the batch of events), and descriptor numbers are reused. Correct
  is: epoll watches exactly what the handlers say, no destroyed handler is used, no
  descriptor leaks.
* **Timer.** A single timerfd stands for a heap, repeating timers travel through the
  queue of functors, expirations are wall-clock times while the timerfd counts on the
  monotonic clock. Correct is: the timerfd covers the heap, no timer is lost or
  doubled, periods do not drift, disabling silences.
* **Queues and pool.** `notify` wakes one waiter, waiters wake for no reason, the
  ring wraps, `giveUp` races with everything, tasks submit tasks. Correct is: a
  linearizable FIFO, no lost notification, `stop` returns, no task lost.
* **TCPConnector.** A back-off timer races with `stop` and `start`, a handler is made
  and given away per attempt. Correct is: handler and state agree, at most one connection
  per call, the delay grows as promised, every `start` comes to an end.
* **TCPConnection, Buffer.** Writes go out at once, in part or later, callbacks call
  back (one of them between the two parts of a message), users fill the write buffer
  themselves, four events end a connection. Correct is: each byte once and in order, the write
  event while bytes wait to be written, the close callback once; a Buffer is a string of bytes.
* **Log.** Messages pass a queue and a thread that has to be started and joined, and any
  thread may log while another is about to abort. Correct is: the order is kept, the
  constructor and destructor return, messages are written.
* **Signals, keyboard.** Action, mask, signalfd, disposition and terminal mode change one
  after the other, over several loops. Correct is: they agree after any sequence.
* **Echo programs.** Two processes end the same connection in many orders. Correct is:
  echoes in order, nothing used after it is gone, every client gets its echoes or ends.

`PROJECT.json` lists the hazards one by one, at their lines.

## 2. Modules

```
FunctorQueue          abstract: an ordered queue of functors, each run once
  ^ refined by
EventLoop             loop(), submission from other threads, shutdown
  MCEventLoop         instance for TLC

IOHandler             handlers, descriptors, epoll, dispatch
  MCIOHandler         two instances for TLC

Timer                 TimerHandler and TimerQueue, over BinaryHeap

BoundedFIFO           abstract: a linearizable bounded queue, with progress
  ^ refined by
BoundedBlockingQueue  mutex and conditions, over CircularBuffer
  CircularBuffer      the ring
ThreadPool            workers and submitters, over BoundedBlockingQueue

MCData                one of these at a time, for TLC:
  PriorityQueue         abstract: take a least element out
    ^ refined by
  HeapQueue             a heap in use, over BinaryHeap
  ByteQueue             abstract: a string of bytes that changes at its ends
    ^ refined by
  BufferQueue           a Buffer in use, over Buffer
  LogStream, Date, LogFile, SnakeGame

MCServices            one of these at a time, for TLC:
  TCPConnector          the attempts of one connector
  TCPConnection         one connection, its loop and its peer, over Buffer
  AsyncLog              a log and its thread, over Thread
    Thread                start(), the latch, join(), Mutex
  Signals               signals and keyboard over several loops
  TCPEcho               echo clients, their server and TCP between them

Counting              lemmas the proofs share
BinaryHeap_proofs     of BinaryHeap; instances of it in Timer_proofs and Data_proofs
EventLoop_proofs, IOHandler_proofs, Timer_proofs
                      of the module of that name
ThreadPool_proofs     of CircularBuffer, BoundedBlockingQueue and ThreadPool
TCP_proofs            of BufferQueue, TCPConnector, TCPConnection and TCPEcho
Data_proofs           of HeapQueue, LogFile, Date, LogStream, SnakeGame, AsyncLog and Signals
```

### EventLoop

One step is one access to state another thread can see. `lp[t]` is where thread
`t` is inside `loop()`, `cp[t]` where it is inside a public method. The eventfd is
a Boolean (readable or not), user descriptors are one descriptor the environment
makes ready. `UpdateThreadId`, `WhileNotQuit`, `StartPolling`, `PollReturns`,
`handleWakeUp`, `HandleUserIO`, `StartPendingHandling`, `SwapPending`,
`RunFunctor`, `FunctorsDone`, `ResetHandlers`, `ClearPending` are the lines of
`loop()` in their order; `QueueUnlessEnd`, `Push`, `WakeIf...`, `WakeUnlessEnd`,
`WriteWakeFd` those of `queueInLoop` and `wakeUp`; `SetQuit`, `EndWakes`,
`EndRunsLoop` those of `endLoop`. Callbacks call any of these methods, also before
`loop()` (where `runInLoop` runs its argument at once). A dereferenced null
`wakeUpHandler_` stops all threads (`Crash`).

`Creator`, `Runner` and `EndBeforeLoop` are parameters because the code behaves
differently: see the discipline `SafeUse` in section 4.

Plain members read by several threads (`state_`, `quit_`, `threadId_`) are read and
written atomically in the model, in program order. The destructor, which calls
`endLoop` itself, is not an action.

### IOHandler

`object[h]` and `held[h]` give the life of a handler: alive while a thread holds a `shared_ptr`
or a queued functor captures one, freed by `Destroy` when the last goes, which closes the
descriptor; `Create` may reuse the number. Public methods either act at once (loop thread) or
append a functor (other thread); `Enable`, `Disable`, `Install` and `removeFd` are what the
functors do, including the call of `epoll_ctl`. The other thread's `queueInLoop` is two steps:
`RunInLoop` (or `AskToRemove`, in a destructor) tests `state_` and leaves the functor in
`pushing`, `Push` puts it into the queue. The loop may have got to its end in between: phase
`clear` is that of `state_` End before `ClearPending` empties the queue, and what is pushed
after that is `late`, where it stays. `Poll`, `Dispatch`, `TestKind`, `CallbackReturns` are
`epoll_wait`, the dispatch of one event and the four tests of `run()`, in their order. A step on
a freed handler leads to phase `dead`. `funcs` with the position `done` is the swapped vector,
whose captured handlers live until the whole vector goes.

`Risky` names the uses that the code accepts but does not protect its users from; with
none of them allowed, all properties hold. Allowing any of `releaseInCallback`,
`releaseDispatched` and `releaseEnabled` breaks `NoUseAfterFree`, allowing the last
`EpollMatchesHandlers` as well (section 5). MCIOHandler chooses between two handlers that
follow each other on one descriptor, and one handler shared by both threads.

What a callback may do to its own handler through `disable()` while it runs (destroying
the `std::function` being executed) is undefined behaviour in C++ and not modelled as a
crash.

### Timer, BinaryHeap

The wall clock `now` and the countdown of the timerfd both move on `Tick`; `SetClock`
sets the wall clock only. The countdown keeps going when the wall clock has reached
`MaxTime`. `StartRead`, `RunTimer`, `CallbackReturns`, `Reload`, `FinishRead` are
`handleRead`; functors queued by `AddTimer`, `disable`, `updateCallback` and `Reload`
wait in `functors`, the first `swapped` of which the loop has taken. The heap operations
are those of BinaryHeap, whose two loops are given by the path of indexes they visit.
`DestroyTimerQueue` is the destructor. `first`, `fired` and `silenced` are history.

### CircularBuffer, BoundedBlockingQueue, ThreadPool

A condition variable is the set of threads waiting on it; a critical section from the
lock to the wait or the return is one step; `WakeUp` is a spurious wake-up. ThreadPool
extends the queue: a worker's `take` and a submitter's `put` are calls of the queue that
go on when the call is over. `start` chooses the number of workers, zero included (the
caller then runs the task). The pool's `Owner` starts and stops it once. Not modelled:
`setMaxQueueSize` after `start`, the destruction of a pool somebody is still in, the
exceptions of tasks (they abort the process).

### Buffer, BinaryHeap, LogStream, Date, LogFile, SnakeGame

Buffer and BinaryHeap are operators on records and sequences, one per method;
BufferQueue and HeapQueue call them in any order and refine ByteQueue and PriorityQueue.
A Buffer's vector has elements: `makeSpace` moves or grows, `resize` fills with 0,
`readFd` spills into `extrabuf` (of `ExtraSize`, 64 KiB in the code). LogStream prints all
integers of `Width` bits through `convert`; a quantity of `formatSI` and `formatIEC` is
its leading digits, its unit and whether one less is meant, with the rounding of doubles
that `printf` does. Date steps from day to day of the calendar and compares. LogFile is
`append`, `flush` and `rollFile` with the count, the two intervals and the day, over what
`fflush` has passed on. SnakeGame has the keys, the timer and the signal as actions; where
the food goes is any place `generateFood` may find.

### TCPConnector

The connector is a record, its methods are operators on it, composed as the code calls
them; `RunStart`, `RunStop`, `RetryTimer` and `HandleEvents` are what the loop runs.
`Answers` are the results of `connect(2)` with the `errno` the code reads, which after a
success is an old one. Timers that `stop` does not disable stay in `timers`. When `stop`
is called by a callback of the handler that is freed, `broken` notes it; what `run()` then
does with freed memory is not modelled.

### TCPConnection

The connection, its handler, its socket and its user are a record `k`; a method is an
operator from a record to the set of records it may leave, because each callback it calls
(read, write complete, high water, close, error) may call a method in turn: `Replies` is
nothing, a write of one byte, or one of `Changes` (another read mode, a byte appended to
`getWriteBuffer()`, `write()` without a message, `shutdown`, `forceClose`). The callback for the
high-water mark is called in the middle of `writeInLoop`, before the rest of its message is
appended (`HighWater`); what it writes is `Between`, which may cross the mark in turn. `Poll`,
`Run`, `Swap`, `HandlePending` are the loop; `Call...` and `CallerEnables`
the calls of the loop's and of another thread, whose `runInLoop` and `enable` are two
steps; `Arrive`, `Drain` and the actions of the peer are the network's. None of these excludes
another.
`filled` says that bytes wait which the user has appended with nobody writing, `overtaken` that
a high-water callback has written before the rest of a message. A write that fails with
a reset stops the model (`HCHECK`).

### Thread, AsyncLog

`start()` waits for the latch under its mutex, `threadStarter()` counts down;
`unlock()` is two steps, since `currentHolder` is cleared after the mutex is free. AsyncLog
adds the queue (`put` and `take` of BlockingQueue), `logThreadFunc`, the constructor and the
destructor with the flush they queue, and `flush` of a user. A Logger of level FATAL queues its
message (`addLog`), then a flush (`FatalFlush`), then aborts (`Abort`); other Loggers, of that
level too, go on in between (`fatal` counts those at either step). `object` is the class whose
virtual `output` runs. The log is destroyed when no Logger is left in its destructor.

### Signals

`signal[s]` holds the action SignalHandler knows and what the kernel has: blocked, ignored,
pending, and what its IOHandler would call. `keyboard` is `interactiveIOHandler_` and the
terminal mode. `EndLoop` is the clean-up at the end of `loop()`, `CreateLoop` makes another
loop in the same process. `Raise` may kill the process; `handleKeyboard` crashes it, and so
does the end of a second loop, when the keyboard's handler is that of a former one (`orphan`),
whose `loop_` is null.

### TCPEcho

`client[c]` and `server` are the members of EchoClient and EchoServer and where their
process is; `link[c]` is the connection as the kernels see it, with what is on its way
`there` and `back`. Closing with unread data, or writing to a closed end, resets the link,
and a process that then writes dies: by `SIGPIPE` or `HCHECK(!faultError)`. A loop in
state `quit` may still run handlers of the same round. `HandleClientData` finds the
connection by the descriptor its callback was given, which the next connection may get
again. Writes and reads are whole; their buffering is TCPConnection's.

## 3. Runs

### Passing runs

| Run | Properties | Instance |
|---|---|---|
| `EventLoop` (module MCEventLoop) | `TypeOK`, `NoLostWakeUp`, `SingleLoopThread`, `RunsEveryFunctor`, `EndLoopEnds` | main runs the loop, two workers, two functors; main and one worker may end it, or nobody does |
| `IOHandler` (MCIOHandler) | `HandlersLegal`, `NoUseAfterFree`, `DescriptorReclaimed` | two handlers on one descriptor number that is reused, or one handler with two callbacks both threads hold |
| `Timer` | `TimerLegal`, `TimerfdCoversHeap`, `NoDrift`, `DisabledIsSilent`, `EveryTimerFires` | two timers, one-shot or repeating, two threads, the clock set once |
| `ThreadPool` | `PoolLegal`, `NoLostNotification`, `StopReturns`, `EveryTaskRuns`, `IsLiveFIFO` | zero to two workers, one submitter, four tasks, two slots |
| `Data` (MCData) | `HeapOrder`, `TakesLeast`, `BufferLegal`, `IsByteQueue`, `NumbersReadBack`, `NumbersAreDays`, `LogFileLegal`, `BoardLegal`, `NeverTurnsBack` | heaps of seven of eight items, buffers that grow twice, integers of five bits, the days of 1900 to 2500, eight seconds of a log file, a board of four by two |
| `Services` (MCServices) | connector: `ConnectorLegal`, `BackoffDoubles`, `OneConnectionPerCall`, `EveryStartEnds`; connection: `ConnectionLegal`, `BytesInOrder`, `ClosesOnce`, `BytesLeave`; log: `LogInOrder`, `LogIsLive`; `SignalsFollowActions`; echo: `EchoLegal`, `EchoIsLive` | four calls and eight failing attempts; three bytes, three inputs of users and peer; three messages and a flush; two signals and two loops; two clients with two messages each |

What they show:

* `NoLostWakeUp`: whenever the loop is in `epoll_wait` and a functor is queued or
  `quit_` is set, the eventfd is readable or a thread is on its way to write it.
  `RunsEveryFunctor` is the refinement of FunctorQueue with its fairness: order, at most
  once, none lost, and run some time. `EndLoopEnds`: `quit_` leads to End.
* `HandlersLegal` contains `EpollMatchesHandlers`: the interest list is the function from
  the descriptors of the Enabled handlers to those handlers and the events they ask for,
  whatever order two threads' functors arrive in. `DescriptorReclaimed`: a handler
  that no user holds is destroyed and its descriptor closed, at the end of the loop at the
  latest; the exception it names is a functor pushed after the queue has been cleared.
* `TimerfdCoversHeap` relates the countdown of the timerfd to every timer of the heap;
  `OnePlace` (in `TimerLegal`) follows a timer through heap, queue and the hands of
  `handleRead`; `NoDrift` relates the expiration to the number of calls.
* `TakesLeast`, `IsLiveFIFO`, `IsByteQueue` are refinements of the abstract queues.
* `TaskInOnePlace` (in `PoolLegal`) counts a task over the queue, the calls in progress and
  the workers; `EveryTaskRuns` excuses a pool all of whose workers wait for ever in `run()`,
  which the code permits (a task that submits to its own full pool); `StopReturns` shows
  that `stop()` frees even such a pool.
* `ConnectorLegal`: the HCHECKs of `connect()` hold and there is a watched handler exactly
  during an attempt, also with timers of earlier calls still armed. `EveryStartEnds`: a
  connection, the failure callback, or a later call.
* `BytesInOrder`: every byte is with the peer or waits, once, in the order of the writes, but
  for what a high-water callback writes; and what has arrived is what the user may read.
  `ConnectionLegal`: bytes wait exactly while `writing_` is set, which asks for the event, or
  because the user put them into an idle buffer, and when none waits the user has been told.
  `BytesLeave`: what waits goes out, or the connection ends, or it is left in the idle buffer.
  The two exceptions are what the code does (section 5).
* `LogInOrder`: messages and flushes reach the output in the order they were queued, also
  while Loggers are about to abort. `LogIsLive`: nobody waits for ever, and what is
  logged is written unless the process aborts or the log is destroyed.
* `SignalsFollowActions`: mask, disposition and signalfd are those of the action, the terminal
  mode that of the keyboard's handler, until the process is killed or crashes.
* `EchoLegal`: a client has got a prefix of what it has sent, the rest is under way while
  both ends are open, `clients_` holds exactly the open connections, and no timer that is
  left over writes through a connection that is gone. `EchoIsLive`: no client runs on
  without its echoes or a server.

**Why the bounds are enough.** Two submitters besides the loop thread give every pair of racing
accesses; two functors give order and a second round of the loop. For every safety property of a
passing run the theorems of section 4 cover the rest, for every number; what the bounds have to
be enough for is liveness. One descriptor number and two handlers are the smallest reuse. Two
timers with two expirations and two intervals give every position in a heap of two, ties and a
timer that overtakes the armed one (the heap of `Data` is deeper); three times of the clock give
a timer asked for too late, just then and ahead. Four threads on two slots let several wait on
the same condition and wrap the ring. Four tasks are enough to fill a queue of two behind a
running worker. Seven items are three full levels of a heap. Eight failing attempts pass the cap
of the delay (500 * 2^6 > 30000). A kernel buffer of one byte and a high-water mark of one let a
message of two go out in part, cross the mark with its second byte and be overtaken by the
third, which a callback writes or appends; messages of callbacks have one byte, a call that
writes none counts as one of the three, and a callback makes one call at most (the high-water
callback that a high-water callback's write calls makes a change at most). Three inputs, of
users outside callbacks and of the peer, let bytes arrive, the peer end and another thread call
next to them. A flush and three messages let one Logger log between the fatal flush and the
abort of another. Five bits have a least number without a positive one; the width does not occur
in the code otherwise. Two clients use one descriptor one after the other, or two at a time.
Bounds are constants: `MaxQueue`, `MaxTimers`, `MaxTime`, `MaxSteps`, `MaxSize`, `MaxLength`,
`MaxStarts`, `MaxFailures`, `MaxBytes`, `MaxInputs`, `MaxFlushes`, `MaxLoops`, `MaxMessages`.

**Deadlock** is checked except where the system may stop: a loop that has ended, a pool
that has been stopped, a timer queue that is gone, a process that has ended, a bound that is
reached.

**Fairness.** Loop threads and workers are scheduled (weak fairness of their steps), a
callback returns (strong fairness in EventLoop because it may interleave any number of
calls), time passes. In the queue and the pool a thread that wants the mutex gets it some
time (weak fairness per thread; pthread mutexes do not promise it formally, schedulers
provide it). Functors and events of a connector, events of a connection and the loops of the echo
programs are served, since epoll is level-triggered and a round serves them all; a
connection's `Drain` says that a peer reads what has been sent or ends, the connector's
`KernelAnswers` that `connect(2)` succeeds or times out. The thread that starts to run needs
strong fairness of its steps in AsyncLog, because the mutex it wants is free only at times.
Nothing is assumed of users: they need not submit, disable, stop or end
anything, and no descriptor needs to become ready.

Each property of a passing run has at least one mutant in `PROJECT.json`: a plausible
bug in a mapped definition (defined next to it, marked `Mutant:`) that makes TLC find the
property violated under the same configuration.

### Runs that find a disagreement

| Run | Violated | What happens |
|---|---|---|
| `EventLoopSubmitAtEnd` | `WakeUpHandlerAlive` | `wakeUp` tests `state_`, the loop ends and resets `wakeUpHandler_`, `wakeUp` dereferences it |
| `ThreadPoolDropsTasks` | `QueuedTaskRuns` | `stop` leaves queued tasks unrun, though the documentation promises their completion |
| `TCPConnectorStop` | `StopIsFinal` | `stop` during the back-off leaves the timer armed, which connects |
| `TCPConnectionUntil` | `ReadsUntilDelimiter` | `readUntil` searches only what `append` has counted last: a delimiter read into the buffer directly, or before the call, is overlooked |
| `SignalHandledAgain` | `HandledIsBlocked` | a signal that goes from Handled to Default and back is not blocked, its default action stays |
| `LogStreamSI` | `FiveCharacters` | `formatSI(99949999999999999)` is `100.0P` |

`PROJECT.json` quotes the documents these contradict. Section 4 proves of four of them
(`EventLoopSubmitAtEnd`, `TCPConnectorStop`, `SignalHandledAgain`, `LogStreamSI`) that what the
trace shows is the only exception.

## 4. Proofs

The theorems hold for every value of the constants that satisfies the assumptions named in
the modules: types and signs (`Keys \subseteq Nat`), finiteness where places are counted,
what the code asserts or its users must give (a ring of two slots, a board on which the
first snake lies, a calendar that starts in 1900). The bounds of TLC (`MaxQueue`,
`MaxTimers`, ...) are any natural numbers there. `Spec`, and the `...Spec` the proof
modules define, are the specifications without fairness, so they hold with it.

| Theorem | States | Also assumes |
|---|---|---|
| **EventLoop_proofs** | | |
| `TypeCorrect` | `TypeOK`: no null functor is ever queued | |
| `WakeUpIsNotLost` | `NoLostWakeUp` | `SafeUse` |
| `LoopIsSingleThreaded` | `SingleLoopThread` | `SafeUse` |
| `LoopImplementsQueue` | the loop implements FunctorQueue (safety of `RunsEveryFunctor`) | `SafeUse` |
| `FunctorsRunOnce` | no functor is run twice | `SafeUse` |
| `HandlerOutlivesWriters` | `WakeUpHandlerAlive` | `SafeUse`; no thread is between the test and the write of `wakeUp` when the loop resets the handler |
| **IOHandler_proofs** | | |
| `LivesAreLegal` | `Life`: types, references and lives, whatever users risk and however late a functor is pushed | |
| `HandlersAreLegal` | `HandlersLegal` | `releaseEnabled` not in `Risky` |
| `HandlersAreNotUsedFreed` | `NoUseAfterFree` | `Risky = {}` |
| **Timer_proofs** | | |
| `TimersAreLegal`, `TimerfdIsArmed`, `TimersDoNotDrift`, `DisabledTimersAreSilent` | `TimerLegal`, `TimerfdCoversHeap`, `NoDrift`, `DisabledIsSilent` | |
| **BinaryHeap_proofs** | | |
| `InsertKeepsAll`, `PopKeepsAll` | `insert`, `popTop` lose and double nothing | |
| `InsertKeepsOrder`, `PopKeepsOrder` | they leave a heap | `Less` is a strict weak order |
| `TopIsLeast` | no element is less than the top of a heap | the same |
| **ThreadPool_proofs** | | |
| `QueueIsFIFO`, `PoolQueueIsFIFO` | the queue, and the pool's, implements BoundedFIFO (safety of `IsLiveFIFO`) | |
| `PoolLosesNoNotification`, `PoolIsLegal` | `NoLostNotification`, `PoolLegal` | |
| `StoppedPoolIsQuiet` | once `stop` has returned no worker is left in the pool or its queue, and no task is run any more | |
| **TCP_proofs** | | |
| `BufferStaysLegal`, `BufferIsByteQueue` | `BufferLegal`, `IsByteQueue` | |
| `ConnectorIsLegal`, `ConnectorBacksOff`, `ConnectorHandsOutOnce` | `ConnectorLegal`, `BackoffDoubles`, `OneConnectionPerCall` | |
| `StopIsFinalWithoutTimers` | `StopIsFinal` | no retry timer is armed when `stop` runs |
| `ConnectionStaysLegal`, `ConnectionKeepsOrder`, `ConnectionClosesOnce` | `ConnectionLegal`, `BytesInOrder`, `ClosesOnce` | |
| `EchoIsLegal` | `EchoLegal` | |
| `ServerDiesOfLeavers` | the server aborts only when a client has closed its end of a connection that is open at the server | |
| **Data_proofs** | | |
| `HeapStaysOrdered`, `HeapTakesLeast` | `HeapOrder`, `TakesLeast` | |
| `LogFileStaysLegal` | `LogFileLegal` | |
| `NumbersDoNameDays` | `NumbersAreDays` | |
| `NumbersDoReadBack` | `NumbersReadBack` | |
| `IECIsShort` | `formatIEC` writes four characters and a unit at most, of every quantity | |
| `SIIsShortWhenExact` | the same of `formatSI` | doubles tell the quantity from the next one, or it is 1 E or more |
| `BoardStaysLegal`, `SnakeNeverTurnsBack` | `BoardLegal`, `NeverTurnsBack` | |
| `LogStaysInOrder` | `LogInOrder` | |
| `SignalsDoFollow` | `SignalsFollowActions` | |
| `HandledOnceIsBlocked` | `HandledIsBlocked`, and the signalfd is read | no signal is made Handled twice in a loop |
| `KeyboardGoesBack` | `BackToNormal` | the keyboard is given back before the loop ends |
| `OneLoopDoesNotCrash` | the process does not crash | no loop is created after one that has used the keyboard |

Each step lemma has one step per action, and under it one per part of the invariant that
the action can disturb.

**EventLoop.** `SafeUse` is `Creator = Runner /\ EndBeforeLoop = FALSE`: the thread that
created the loop runs it and no other thread calls `endLoop()` before it does. Section 5
says what happens without either half. Type correctness is inductive with `HoldsFunctor` (a
thread about to push has a functor). `NoLostWakeUp` is not inductive: it speaks only of the
moment the loop is in `epoll_wait` and of wake-ups that follow from the first operand of
`queueInLoop`'s condition. The inductive invariant `IInv` adds

* `OnlyRunnerLoops`, `RunnerCalls`: only Runner is in `loop()` or a callback, and calls
  methods only from there or from outside the loop;
* `StateFollowsLoop`: `state_` is a function of Runner's position, which is what makes
  the reads of `state_` in `queueInLoop` reliable on the loop thread;
* `EndersStartedLate`: nobody else in `endLoop()` can still find Ready;
* `PendingWakes`: from the end of the swap to the next poll, queued functors imply a
  readable eventfd or a thread that will write it, counting a thread at the third operand
  only while `state_` is Ready;
* `QuitWakes`: between the test of `quit_` and `epoll_wait`, `quit_` implies the same.

The refinement needs two more parts (`QueueInv`): `InOnePlace`, every functor is with its
user, in the queue, in the round that is run, or run; and `RoundsAreWhole`, a round is run
to its end before the next swap, and the clean-up empties the queue only after the last
one. A step is then a submission, a run of the first of round and queue, or a stutter.

**IOHandler.** `Life` is inductive by itself: a living handler guards an open descriptor of
its own (`GuardsApart`), who refers to a handler keeps it alive (`KeptAlive`), epoll has
only living handlers under their own numbers (`WatchesLiving`), events are left only
where the loop is among them (`LoopInPhase`), the removal a thread is about to push is that of
a handler whose destructor it is in (`RemovalIsDue`), and a functor is late only at the end,
after which the thread pushes no more (`LateIsLast`). That epoll has *exactly* the Enabled ones
(`Matches`) is inductive as long as no functor removes a descriptor by its number
(`NoRemoval`), which only the destructor of an Enabled handler on the other thread queues.
That nothing freed is used is `DispatchesLiving`: the handlers of the batch, and the one
that runs, live. `HandlersAreLegal` excludes one risk only. `HandlersAreNotUsedFreed` excludes
all: between the test and the push of the removal of an Enabled handler the loop may take up
events of it, so `releaseEnabled` endangers memory as well.

**Timer.** `TimerInv` counts the places of a timer (`PlacesLegal`: heap, queue and the hands
of `handleRead`) with `InHands` and `QueuedAreCreated`. `Covered` extends
`TimerfdCoversHeap` to the time the timerfd is readable but not read; it needs `IsHeap`,
since `Reload` arms for the top only, and with `TopIsLeast` for all. `Finished` and
`SilencedAreDisabled` say that a disabled timer neither repeats nor runs.

**BinaryHeap.** The percolations are paths of indexes. That a path ends where the order is
restored, and that an order along every edge is one along every path, are inductions over
the indexes, done with sets: the least number for which the statement fails (`WFMin`) has a
parent for which it holds.

**BoundedBlockingQueue, ThreadPool.** `QueueInv` relates the two sets of waiting threads to
what is in the ring (`NoLostNotification` itself, once it is known that a thread waits only
inside the call that waits, and that the ring is a sequence): a thread may sleep only while
no more items are there than takers on their way, and the same of free slots and putters.
The queue is proved under any use (`QueueNext`), the
pool's steps are shown to be such (`PoolQueue`), so the pool has the queue's theorems.
`PoolInv` counts each task over the queue and three sets of threads (`Places`), the sum
being one until it has run; the counting is that of FiniteSetTheorems and `Counting`.

**Buffer, TCPConnector, TCPConnection.** Each method is an operator on the object's record and
has a lemma that says what it makes of a legal record; a step follows from those of the methods
it calls. `Fits` says where the bytes of a Buffer lie. `LegalConnector` ties the handler and the
delay of a connector to its state and its retries, `HandsOutOnce` the connection to the state. A
connection is `Good` when its bytes are in their places (`FineIn`, `FineOut`) and the writes
that wait in the queue are paid for by what was requested (`Budget`). While `writeInLoop` calls
the high-water callback only `Half` of that holds: the bytes are in their places together with
the rest of the message (`Placed`), each number once, and still are when that rest is appended
behind those of the callback. `Closing` says where in the loop a connection that was closed may
still have its callbacks, which is the reason `ClosesOnce` holds: they are taken by a functor
that was queued before the swap and runs before the next poll.

**TCPEcho.** `EchoInv` is a conjunction over pairs of a client and its link (`ClientFine`)
plus `ClientsAreOpen`. `InFlight` splits the messages of a client into received, on the way
back and on the way there, which follow each other without a gap until the server's end is
closed or the link reset. That the server finds a free descriptor for a client it accepts is
an argument by cardinality: the clients outnumber the open connections.

**Data.** HeapQueue's refinement takes the heap from BinaryHeap_proofs. `LogFileInv` adds that
no more appends are late than have been counted since the last check (`LateIsCounted`).
Date's formulas count in years that begin in March: `NextMonth` says that each month begins
behind the last day of the one before, February's leap day included, so numbers follow each
other (`NextDayIs`); `DateIsFound` takes a number apart into centuries, years and days, each
found by a division because a scaled remainder is less than the longest of its kind.
The digits of LogStream and the value they are read back as are recursive functions. That there
are such functions is `Recursion` (in Counting): the finite pieces of the recursion, of which any
two agree where both are defined, put together. What they compute is then shown for the least
number for which it fails: the digits of a number are those of its quotient and its remainder,
of both signs, and one more digit needs at least three more bits, so that a number of `Width`
bits fits what is kept free for it. A quantity of `formatIEC` needs its bounds: below each of
them the rounded number has not got another digit.
`SnakeInv` adds that the neck lies behind the head and that the next direction does not lead
to it. `LogInv` says that nothing is queued before the log is constructed, and that from then on
output, writer and queue follow each other; `ThreadInv` gives the start of the thread.
`SignalInv` says what `SignalsFollowActions` says of every entry of a signal, also one that
has never been used (`Follows`).

**Where the documents hold.** A run that finds a disagreement shows one trace, and leaves open
whether there are others. Five theorems say that there are none of another kind:
`HandlerOutlivesWriters`, `StopIsFinalWithoutTimers` and `HandledOnceIsBlocked` for the violated
property of their runs and `KeyboardGoesBack` for the observation `BackToNormal` have the form
`Spec /\ [][the step of the trace is not taken]_vars => []Claim`; `SIIsShortWhenExact` has the
claim for every input outside a named set. `ServerDiesOfLeavers` is the same for
`ClientEndsAlone`: the step in which the server aborts finds a client that has left. Ordinary
use meets all of these conditions: `stop` once the connection is there or during the first
attempt, one `handleSignal(s, Handled)` for each signal, a keyboard that is given back before
`endLoop`. `OneLoopDoesNotCrash` says in that form when the keyboard's handler, which outlives
its loop, does no harm. `ThreadPoolDropsTasks` has no such theorem, since what is queued at
`stop` is left whatever users do; `StoppedPoolIsQuiet` says what `stop` does guarantee, and why
the queue can be destroyed as soon as the workers are joined. `TCPConnectionUntil` has none
either: what `readUntil` overlooks depends on how the bytes arrive, which no user decides.

Proving changed the models where they said less than they meant: the constants of BufferQueue,
Signals, AsyncLog, TCPConnection, LogFile, Date, LogStream and SnakeGame have assumptions, and
the release of a handler between `endLoop()` and End, which TLC's instance excluded as a risk,
is allowed since the proofs showed it to be none.

Only model-checked:

* liveness under fairness, which is out of TLAPS' reach here: `EndLoopEnds`,
  `DescriptorReclaimed`, `EveryTimerFires`, `StopReturns`, `EveryTaskRuns`,
  `EveryStartEnds`, `BytesLeave`, `LogIsLive`, `EchoIsLive`, and the fairness in
  `RunsEveryFunctor` and `IsLiveFIFO`;
* the expected violations, each a trace.

## 5. Observations without a run

Met while modelling. Where a property of a module is named, it is not among the checked
ones because it does not hold: `INVARIANT <name>` in the configuration shows a trace.

Loop, handlers, timers:

* With `Creator # Runner` a functor queued by the creator while `loop()` takes over
  `threadId_` is not followed by a wake-up (`EventLoop.cpp:94`, `:183`).
* With `EndBeforeLoop = TRUE` another thread's `endLoop()` in Ready calls `loop()` itself,
  next to the thread that is about to; or it sees Ready, then Polling, wakes nobody, and the
  loop blocks with `quit_` set (`EventLoop.cpp:258-266`).
* A callback or another thread that drops the last reference to a handler the loop is
  using, or that epoll has reported, leaves a freed object (`EventLoop.cpp:109`;
  `releaseInCallback`, `releaseDispatched`). TCPConnector does so
  when it is stopped by its own callback (`RunningHandlerLives`, `TCPConnector.cpp:105`),
  and so do the echo server, which erases a connection in its close callback, and the echo
  client, which drops it in the callback of SIGINT.
* The destructor of an enabled handler on another thread queues the removal of a descriptor
  number that may be reused before (`IOHandler.cpp:58`; `releaseEnabled`).
* A thread that has found the loop running in `queueInLoop` may push its functor after the loop
  has ended and cleared its queue (`EventLoop.cpp:174-182`, `:149-152`). The functor is neither
  run nor refused, and if it captures a handler, functor, handler and loop own each other for
  ever, and the descriptor stays open (`late` in IOHandler).
* `IOHandler::disable()` clears the callbacks on the calling thread (`IOHandler.cpp:151`),
  also while the loop thread executes one; `TimerHandler::disable()` does so after
  `endLoop()` (`Timer.cpp:88-91`).
* `IOHandler::run()` tests `isEnabled()` once: a handler that its callback disables and
  gives a new callback is called again in the same dispatch (`IOHandler.cpp:92`).
* `updateCallback()` tests `disabled_` on the calling thread and stores the callback later,
  possibly into a timer that has finished and then holds it (`Timer.cpp:104-111`).
* `setThreadPools()` replaces the pool `runInPool()` of other threads uses, without a lock.

TCP:

* `TCPConnector.h:45` says that zero retries or less are retries for ever; the code does not
  retry with 0, which is the default (`TCPConnector.cpp:248`).
* A write after the peer's reset fails `HCHECK(!faultError)` or raises `SIGPIPE`, which
  nothing blocks: the process dies (`NoFaultError`, `TCPConnection.cpp:395`). One echo client
  that goes at the wrong moment ends the server and with it the others (`ClientEndsAlone`).
* A failed `accept()` is not reported with a null connection but dereferenced
  (`FailedAcceptIsReported`, `TCPAcceptor.h:28`); the echo server's test for it cannot help.
* `isClosed()` is never true: nothing resets the handler of a connection. A `write()` after
  `forceClose()` enables it again without callbacks, and a level-triggered event that nobody
  handles keeps the loop busy. The destructor disables the handler only if it is *not*
  enabled (`TCPConnection.cpp:46`).
* `write(StringPiece)`, `write(string)` and `write(Buffer*)` of another thread queue a pointer
  to the caller's bytes, though `TCPConnection.h:56` says they are copied.
* `shutdown()` does not wait for the bytes in the buffer, which are lost.
* `write()` after filling `getWriteBuffer()` asks for the event but does not set `writing_`
  (`TCPConnection.cpp:173-187`), and `handleWrite` then returns at once (`:296-299`): the bytes
  stay until another message is written, and the level-triggered event keeps the loop busy
  (`filled`).
* A write in the high-water callback is appended before the rest of the message that caused it
  (`TCPConnection.cpp:402-406`), in the middle of which the peer finds it (`overtaken`).

Signals, log, threads:

* `update()` from Handled to Handled installs the user's callback without the read of the
  signalfd: after one signal the loop spins. A signal that is pending when the action leaves
  Handled, or when the loop ends, kills the process.
* In a second loop after one that has used the keyboard, `handleKeyboard()` goes through the
  handler of the first, whose `loop_` is null, and so does the end of that loop, used or not:
  it disables the handler (`EventLoop.cpp:140-147`), which dereferences `loop_`
  (`IOHandler.cpp:152-164`, `:130`). `OneLoopDoesNotCrash` says that nothing else crashes.
* `handleKeyboard(nullptr)` after the end leaves the terminal interactive
  (`BackToNormal`), as the end of the snake game does (`snake_game.cpp:318`).
  `generateFood()` does not return on a full board.
* A log that is destroyed drops what is queued: `stop_` is tested before the queue, and
  `output` is that of the base class by then (`NothingIsDropped`). After a fatal message
  `abort()` does not wait for the log thread. AsyncLogFile does not derive from AsyncLog.
* `Mutex::unlock()` clears the holder when the next thread may have set it (`HolderIsTold`).
* A LogStream that is nearly full drops the newline of the message.

## 6. Not modelled, and the plan

Not modelled:

* **UDPSocket, InetAddress, SocketWrap**: one system call or one conversion per method, no
  state between them; the errors `accept` expects appear in TCPConnection's `Accept`.
* **StringPiece, Timestamp, ProcessInfo, the reading half of FileUtils**: views of strings,
  formatting, and parsing of `/proc`, which reads once and keeps nothing.
* **Singleton**: one `pthread_once`.
* **The other examples and the benchmarks**: counters around the components above. The UDP
  echo programs and the pipes of the core examples have no state of their own.
* Of modelled components: `setThreadPools`, `runInPool` and the destructor of EventLoop; the
  callback setters of TCPConnection and TCPConnector (one assignment on the loop thread);
  a pool that is destroyed, or gets another queue, while it is used; detached threads and
  timed waits; the levels and formats of Logger.

Plan of what is left: the composition of the loop with a pool (`runInPool`), and a connector
that hands its handler to a TCPConnection, which the two modules now model on either side of
the hand-over; of both the safety as a theorem over those of the parts.
