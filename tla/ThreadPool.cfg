\* No, one or two workers; more tasks than slots, tasks that submit tasks,
\* stop() at any time.
SPECIFICATION PoolFairSpec
CONSTANTS
  maxSize = 2
  Items = {x1, x2, x3, x4}
  empty_item = empty_item
  Workers = {w1, w2}
  Submitters = {s1}
  Threads = {w1, w2, s1}
CHECK_DEADLOCK FALSE
INVARIANTS PoolLegal NoLostNotification
PROPERTIES StopReturns EveryTaskRuns IsLiveFIFO
