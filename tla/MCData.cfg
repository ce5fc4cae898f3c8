\* Heaps of up to seven items (three full levels) with equal keys; a buffer that
\* grows twice, moves and reads past its end; all integers of five bits; every
\* day the comment in Date.h allows; the snake on a board of four by two, which it
\* can fill; a log file for eight seconds.
SPECIFICATION Spec
CONSTANTS
  Keys = {1, 2, 3, 4}
  Ids = {a, b}
  MaxSize = 7
  kCheapPrepend = 1
  kInitialSize = 2
  ExtraSize = 2
  Strings <- MCStrings
  MaxLength = 6
  SIZE = 10
  kMaxNumericSize = 5
  Width = 5
  FirstYear = 1900
  LastYear = 2500
  gameWidth = 6
  gameHeight = 4
  checkEveryN = 3
  flushInterval = 1
  rollSize = 6
  rollInterval = 4
  Lengths = {1, 3}
  MaxTime = 8
CHECK_DEADLOCK FALSE
INVARIANTS HeapOrder BufferLegal NumbersReadBack NumbersAreDays BoardLegal LogFileLegal
PROPERTIES TakesLeast IsByteQueue NeverTurnsBack
