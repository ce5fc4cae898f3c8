\* Two timers of either thread, asked for at once or for the last time of the
\* wall clock, which is set once.
SPECIFICATION FairSpec
CONSTANTS
  MaxTimers = 2
  MaxTime = 2
  Whens = {0, 2}
  Intervals = {0, 1}
  Users = {"loop", "other"}
  MaxSteps = 1
  MaxQueue = 1
CHECK_DEADLOCK FALSE
INVARIANTS TimerLegal TimerfdCoversHeap NoDrift
PROPERTIES DisabledIsSilent EveryTimerFires
