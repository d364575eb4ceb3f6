SPECIFICATION Spec
CONSTANTS
  Producers = {t1}
  Loggers = {l1}
  Levels = {1}
  kMaxCharPerLog = 2
  kFlushThreshold = 4
  MaxMsg = 3
  MaxStart = 1
  MaxStop = 1
  MaxNest = 2
SYMMETRY Symmetry
CHECK_DEADLOCK FALSE
INVARIANT FlushLevel
