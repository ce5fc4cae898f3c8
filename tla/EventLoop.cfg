\* The loop's own callbacks and two workers submit while the loop is ended, by
\* main at any time or by a worker once it has started, or never.
SPECIFICATION FairSpec
CONSTANTS
  Threads = {main, worker1, worker2}
  Workers = {worker1, worker2}
  Creator = main
  Runner = main
  Functors = {f1, f2}
  Enders = {main, worker1}
  EndBeforeLoop = FALSE
  NoFunctor = NoFunctor
CHECK_DEADLOCK FALSE
INVARIANTS TypeOK NoLostWakeUp SingleLoopThread
PROPERTIES RunsEveryFunctor EndLoopEnds
