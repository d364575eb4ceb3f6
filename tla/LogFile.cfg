SPECIFICATION FairSpec
CONSTANTS
  Files = {l1, l2}
  NoFile = NoFile
  Zero = 0
  kDefaultSize = 2
  kMaxCharPerLog = 3
  Suffix = 2
  MaxLen = 5
  kDefaultLogSize = 7
  MaxLine = 3
  MaxPid = 2
  MaxFail = 1
INVARIANTS
  OneWriter
  Kept
  FileBound
  SyncCovers
PROPERTY
  LineEnds
CHECK_DEADLOCK FALSE
