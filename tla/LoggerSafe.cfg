SPECIFICATION Spec
CONSTANTS
  Producers = {t1, t2}
  Loggers = {l1, l2}
  Levels = {1}
  kMaxCharPerLog = 2
  kFlushThreshold = 4
  MaxMsg = 4
  MaxStart = 2
  MaxStop = 1
  MaxNest = 1
SYMMETRY Symmetry
CHECK_DEADLOCK FALSE
INVARIANT BufferOwned
INVARIANT FramesWhole
INVARIANT ExactlyOnce
INVARIANT ProgramOrder
INVARIANT EndedClean
INVARIANT StoppedDrained
