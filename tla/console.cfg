SPECIFICATION FairSpec
CONSTANTS
  BUF_LEN = 3
  DEPTH = 2
  THRESHOLD = 1
  TIMEOUT = 1
  TICKS = 3
  MOD = 8
  MaxInterrupts = 1
  Messages <- Long
INVARIANTS
  SentInOrder
  NoneStranded
  AlarmKeepsPace
PROPERTIES
  WritesEnd
CHECK_DEADLOCK FALSE
