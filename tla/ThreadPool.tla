----------------------------- MODULE ThreadPool -----------------------------
(***************************************************************************)
(* ThreadPool (src/src/thread/ThreadPool.cpp): workers that take tasks     *)
(* from a BoundedBlockingQueue, a thread Owner that starts and stops the   *)
(* pool, and threads that submit tasks.  The calls of the queue are those  *)
(* of the module BoundedBlockingQueue: a thread that has called put() or   *)
(* take() goes on when its call is over.  Items are the tasks, empty_item  *)
(* the null task.                                                          *)
(***************************************************************************)
EXTENDS BoundedBlockingQueue

CONSTANTS
  Workers,      \* the threads start() can put into pool_
  Submitters    \* the other threads that call run()

ASSUME PoolAssumption ==
  /\ Threads = Workers \cup Submitters
  /\ Workers \cap Submitters = {}

VARIABLES
  pool,       \* the workers in pool_
  threadNum,  \* the argument of start()
  running,    \* running_
  owner,      \* where Owner is: in start(), in stop() or outside
  at,         \* where each worker is in runInThread()
  task,       \* the local variable t of each worker
  busy,       \* busyThreads_
  submitted,  \* history: tasks passed to run()
  ran         \* history: tasks run

poolVars == <<pool, threadNum, running, owner>>
workerVars == <<at, task, busy>>
historyVars == <<submitted, ran>>
vars == <<queueVars, poolVars, workerVars, historyVars>>

PoolTypeOK ==
  /\ TypeOK
  /\ pool \subseteq Workers /\ threadNum \in 0..Cardinality(Workers)
  /\ running \in BOOLEAN
  /\ owner \in {"new", "start", "started", "giveUp", "join", "stopped"}
  /\ at \in [Workers -> {"none", "while", "take", "task", "exited"}]
  /\ task \in [Workers -> Items \cup {empty_item}]
  /\ busy = Cardinality({w \in Workers : at[w] = "task"})
  /\ submitted \subseteq Items /\ ran \subseteq submitted

PoolInit ==
  /\ Init
  /\ pool = {} /\ threadNum = 0 /\ running = FALSE /\ owner = "new"
  /\ at = [w \in Workers |-> "none"]
  /\ task = [w \in Workers |-> empty_item]
  /\ busy = 0
  /\ submitted = {} /\ ran = {}

-----------------------------------------------------------------------------
(* Owner: start() and stop() *)

Start ==
  /\ owner = "new"
  /\ running' = TRUE /\ owner' = "start"
  /\ threadNum' \in 0..Cardinality(Workers)
  /\ UNCHANGED <<queueVars, pool, workerVars, historyVars>>

\* Thread::start() returns when the new thread runs.
StartWorker(w) ==
  /\ owner = "start" /\ w \notin pool /\ Cardinality(pool) < threadNum
  /\ pool' = pool \cup {w}
  /\ at' = [at EXCEPT ![w] = "while"]
  /\ UNCHANGED <<queueVars, threadNum, running, owner, task, busy, historyVars>>

StartReturns ==
  /\ owner = "start" /\ Cardinality(pool) = threadNum
  /\ owner' = "started"
  /\ UNCHANGED <<queueVars, pool, threadNum, running, workerVars, historyVars>>

Stop ==
  /\ owner = "started"
  /\ running' = FALSE /\ owner' = "giveUp"
  /\ UNCHANGED <<queueVars, pool, threadNum, workerVars, historyVars>>

\* Mutant: stop() only clears running_.
StopDoesNotWake ==
  /\ owner = "giveUp"
  /\ owner' = "join"
  /\ UNCHANGED <<queueVars, pool, threadNum, running, workerVars, historyVars>>

StopGivesUp ==
  /\ owner = "giveUp"
  /\ giveUp
  /\ owner' = "join"
  /\ UNCHANGED <<pool, threadNum, running, workerVars, historyVars>>

StopJoins ==
  /\ owner = "join" /\ \A w \in pool : at[w] = "exited"
  /\ owner' = "stopped"
  /\ UNCHANGED <<queueVars, pool, threadNum, running, workerVars, historyVars>>

-----------------------------------------------------------------------------
(* run() *)

\* Without workers the caller runs the task.
RunHere(s, x) ==
  /\ owner # "start" /\ pool = {}
  /\ submitted' = submitted \cup {x} /\ ran' = ran \cup {x}
  /\ UNCHANGED <<queueVars, poolVars, workerVars>>

\* Called by a Submitter or by a task, before or after start().
RunInPool(t, x) ==
  /\ owner # "start" /\ pool # {}
  /\ CallPut(t, x)
  /\ submitted' = submitted \cup {x}
  /\ UNCHANGED <<poolVars, workerVars, ran>>

InTask(w) == at[w] = "task" /\ call[w] = "none"

Submit(x) ==
  /\ x \notin submitted
  /\ \/ \E s \in Submitters : RunHere(s, x) \/ RunInPool(s, x)
     \/ \E w \in Workers : InTask(w) /\ RunInPool(w, x)

-----------------------------------------------------------------------------
(* runInThread() *)

WhileRunning(w) ==
  /\ at[w] = "while"
  /\ IF running
       THEN CallTake(w) /\ at' = [at EXCEPT ![w] = "take"]
       ELSE at' = [at EXCEPT ![w] = "exited"] /\ UNCHANGED queueVars
  /\ UNCHANGED <<poolVars, task, busy, historyVars>>

\* Mutant: a null task does not count as busy when it begins.
NullIsNotBusy(w) ==
  /\ at[w] = "take" /\ call[w] = "none"
  /\ at' = [at EXCEPT ![w] = "task"]
  /\ task' = [task EXCEPT ![w] = value[w]]
  /\ busy' = IF value[w] = empty_item THEN busy ELSE busy + 1
  /\ UNCHANGED <<queueVars, poolVars, historyVars>>

\* A null task, from a queue that was given up, counts as busy but is not run.
TakeReturns(w) ==
  /\ at[w] = "take" /\ call[w] = "none"
  /\ at' = [at EXCEPT ![w] = "task"]
  /\ task' = [task EXCEPT ![w] = value[w]]
  /\ busy' = busy + 1
  /\ UNCHANGED <<queueVars, poolVars, historyVars>>

TaskReturns(w) ==
  /\ InTask(w)
  /\ at' = [at EXCEPT ![w] = "while"]
  /\ task' = [task EXCEPT ![w] = empty_item]
  /\ busy' = busy - 1
  /\ ran' = ran \cup ({task[w]} \ {empty_item})
  /\ UNCHANGED <<queueVars, poolVars, submitted>>

\* The steps the threads make inside the queue.
QueueStep(t) == Step(t) /\ UNCHANGED <<poolVars, workerVars, historyVars>>
SpuriousWakeUp(t) ==
  WakeUp(t) /\ UNCHANGED <<poolVars, workerVars, historyVars>>

-----------------------------------------------------------------------------
WorkerStep(w) == WhileRunning(w) \/ TakeReturns(w) \/ TaskReturns(w)

OwnerReturns ==
  \/ \E w \in Workers : StartWorker(w)
  \/ StartReturns \/ StopGivesUp \/ StopJoins

PoolNext ==
  \/ Start \/ Stop \/ OwnerReturns
  \/ \E x \in Items : Submit(x)
  \/ \E w \in Workers : WorkerStep(w)
  \/ \E t \in Threads : QueueStep(t) \/ SpuriousWakeUp(t)

PoolSpec == PoolInit /\ [][PoolNext]_vars

(* Every thread is scheduled, tasks return, and a thread that wants the    *)
(* mutex of the queue gets it some time.  Nobody has to submit or to stop. *)
PoolFairSpec ==
  /\ PoolSpec
  /\ \A w \in Workers : WF_vars(WorkerStep(w))
  /\ \A t \in Threads : WF_vars(QueueStep(t))
  /\ WF_vars(OwnerReturns)

-----------------------------------------------------------------------------
(* Properties *)

Queue(x) == {i \in 1..size : Contents[i] = x}
Putting(x) == {t \in Threads : call[t] = "put" /\ value[t] = x}
Taken(x) == {w \in Workers : at[w] = "take" /\ call[w] = "none" /\ value[w] = x}
Running(x) == {w \in Workers : at[w] = "task" /\ task[w] = x}

\* A task is in the hands of one thread or once in the queue, and comes to an
\* end only by being run, as long as nobody has called giveUp().
TaskInOnePlace ==
  \A x \in submitted :
    LET places == Cardinality(Queue(x)) + Cardinality(Putting(x))
                    + Cardinality(Taken(x)) + Cardinality(Running(x))
    IN places + (IF x \in ran THEN 1 ELSE 0) = 1 \/ (end /\ places = 0)

\* stop() returns if tasks do, even when tasks wait to submit others.
StopReturns == owner = "giveUp" ~> owner = "stopped"

\* Every worker is in run(), called by its task.
WorkersSubmit == pool # {} /\ \A w \in pool : call[w] = "put"

\* The state of the pool, of its tasks, and of the ring under it, which keeps no
\* task that has been taken (CircularBuffer.h:77).
PoolLegal == PoolTypeOK /\ RingIsClean /\ TaskInOnePlace

\* As long as the pool is not stopped every task is run some time, unless all
\* the workers wait for ever in run(), which a task may call on its own pool.
EveryTaskRuns ==
  \/ <>[]WorkersSubmit
  \/ \A x \in Items : x \in submitted ~> (x \in ran \/ ~running)

\* A task in the queue is run, even if the pool is stopped meanwhile ("Graceful
\* shutdown with task completion", doc/DesignSpecific.md:199).
QueuedTaskRuns == \A x \in Items : Queue(x) # {} ~> x \in ran
=============================================================================
