SPECIFICATION Spec
CONSTANTS
  Producers = {p1, p2}
  Consumers = {c1, c2}
  Closers = {s1}
  Openers = {o1}
  Msg = {m1, m2, m3}
  NULL = NULL
  NoThread = NoThread
  maxlen = 1
  SIZE_MAX = 4
  Spurious = TRUE
SYMMETRY Symmetry
INVARIANT ListShape
INVARIANT TakeSafe
INVARIANT NoLostGetWakeup
INVARIANT NoLostPutWakeup
PROPERTY ImplementsFifo
