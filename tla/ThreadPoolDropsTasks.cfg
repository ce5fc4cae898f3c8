CHECK_DEADLOCK FALSE
SPECIFICATION PoolFairSpec
CONSTANTS
  maxSize = 2
  Items = {x1, x2}
  empty_item = empty_item
  Workers = {w1}
  Submitters = {s1}
  Threads = {w1, s1}
PROPERTY QueuedTaskRuns
