\* stop() during the back-off: the timer that is left over connects again.
SPECIFICATION Spec
CONSTANTS
  Retries = {2}
  Constants = {100}
  MaxStarts = 4
  MaxFailures = 8
  kCheapPrepend = 1
  kInitialSize = 1
  ExtraSize = 1
  Delimiter = 2
  ReadBytes = 2
  Chunks <- MCChunks
  ShrinkAbove = 2
  highWaterMark = 1
  Capacity = 1
  Lengths = {2}
  MaxBytes = 3
  MaxInputs = 3
  Messages = {m1, m2, m3}
  MaxFlushes = 1
  null = null
  Signums = {s1, s2}
  MaxLoops = 2
  Clients = {c1, c2}
  nobody = nobody
  MaxMessages = 2
CHECK_DEADLOCK FALSE
INVARIANT StopIsFinal
