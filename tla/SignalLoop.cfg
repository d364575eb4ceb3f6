SPECIFICATION FairSpec
CONSTANTS
  Signals = {TERM, HUP, CHLD}
  StopSignals = {TERM}
  PipeCap = 2
  RecvMax = 3
  MaxBacklog = 2
  MaxConn = 2
INVARIANTS
  StopAsked
  NoForgottenSignal
PROPERTY
  StopHonoured
CHECK_DEADLOCK FALSE
