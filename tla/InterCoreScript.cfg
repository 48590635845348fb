CONSTANTS
  FifoSize = 2
  Burst = 2
  LoopCalls = 4
  ChangeCalls = 1
SPECIFICATION FairSpec
PROPERTY MenuChangeArrives
CHECK_DEADLOCK FALSE
