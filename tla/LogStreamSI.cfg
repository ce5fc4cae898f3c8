\* Quantities around the bounds where the text of formatSI() gets shorter.
SPECIFICATION Spec
CONSTANTS
  Keys = {1, 2, 3, 4}
  Ids = {a, b}
  MaxSize = 7
  kCheapPrepend = 1
  kInitialSize = 2
  ExtraSize = 2
  Strings <- MCStrings
  MaxLength = 6
  SIZE = 10
  kMaxNumericSize = 5
  Width = 5
  FirstYear = 1900
  LastYear = 2500
  gameWidth = 6
  gameHeight = 4
  checkEveryN = 3
  flushInterval = 1
  rollSize = 6
  rollInterval = 4
  Lengths = {1, 3}
  MaxTime = 8
CHECK_DEADLOCK FALSE
INVARIANT FiveCharacters
