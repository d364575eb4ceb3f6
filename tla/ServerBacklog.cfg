SPECIFICATION FairSpec
CONSTANTS
  Signals = {TERM}
  StopSignals = {TERM}
  PipeCap = 2
  RecvMax = 3
  MaxBacklog = 2
  MaxConn = 2
PROPERTY
  ConnectionsServed
CHECK_DEADLOCK FALSE
