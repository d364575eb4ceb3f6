SPECIFICATION FairSpec
CONSTANTS
  Producers = {t1, t2}
  Loggers = {l1, l2}
  Levels = {1}
  kMaxCharPerLog = 2
  kFlushThreshold = 4
  MaxMsg = 3
  MaxStart = 1
  MaxStop = 1
  MaxNest = 1
CHECK_DEADLOCK FALSE
PROPERTY EventuallyWritten
PROPERTY StopReturns
