SPECIFICATION FairSpec
CONSTANTS
  Threads = {t1, t2, t3}
  Nodes = {n1, n2}
  Values = {v1, v2}
  Head = Head
  Null = Null
  Nobody = Nobody
INVARIANTS
  OffDeletedNodes
  NoNodeLost
  NothingSkipped
  NoOvertaking
PROPERTY
  Returns
