SPECIFICATION FairSpec
CONSTANTS
  Producers = {p1}
  Consumers = {c1, c2}
  Closers = {s1}
  Openers = {}
  Msg = {m1, m2, m3}
  NULL = NULL
  NoThread = NoThread
  maxlen = 1
  SIZE_MAX = 4
  Spurious = FALSE
INVARIANT PendingBound
PROPERTY Delivered
PROPERTY CloseReleases
