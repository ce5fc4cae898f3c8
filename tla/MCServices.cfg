\* The connector: four calls and up to eight failing attempts, enough to reach
\* the cap of the delay, to start and stop during the back-off and to leave
\* timers over.  The connection: a kernel buffer of one byte and a high-water
\* mark of one, so that a message of two crosses it with its second; three calls
\* or bytes by callbacks, other threads and the loop's own, and three inputs
\* from outside, among them both ends of the peer.
\* The log: three messages and a flush.  Two signals, and a second loop after
\* the first.  Two echo clients with two messages each: a descriptor is used
\* twice.
SPECIFICATION Spec
CONSTANTS
  Retries = {2}
  Constants = {100}
  MaxStarts = 4
  MaxFailures = 8
  kCheapPrepend = 1
  kInitialSize = 1
  ExtraSize = 1
  Delimiter = 2
  ReadBytes = 2
  Chunks <- MCChunks
  ShrinkAbove = 2
  highWaterMark = 1
  Capacity = 1
  Lengths = {2}
  MaxBytes = 3
  MaxInputs = 3
  Messages = {m1, m2, m3}
  MaxFlushes = 1
  null = null
  Signums = {s1, s2}
  MaxLoops = 2
  Clients = {c1, c2}
  nobody = nobody
  MaxMessages = 2
CHECK_DEADLOCK FALSE
INVARIANTS ConnectorLegal BackoffDoubles OneConnectionPerCall
INVARIANTS ConnectionLegal BytesInOrder ClosesOnce LogInOrder SignalsFollowActions EchoLegal
PROPERTIES EveryStartEnds BytesLeave LogIsLive EchoIsLive
