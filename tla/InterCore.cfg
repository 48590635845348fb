CONSTANTS
  FifoSize = 2
  Burst = 2
  LoopCalls = 1
  ChangeCalls = 0
SPECIFICATION FairSpec
INVARIANTS TypeOK FlashAlone
PROPERTIES CoresKeepGoing DisplayCatchesUp FatalShutsDown
CHECK_DEADLOCK FALSE
