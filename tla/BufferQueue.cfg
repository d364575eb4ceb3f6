SPECIFICATION Spec
CONSTANTS
  Buffers = {b1, b2}
  Bytes = {1, 2}
  Junk = 0
  kDefaultSize = 2
  kMaxBufferSize = 5
  kKeep = 2
  kMinSize = 2
  MaxPush = 1
  MaxStream = 2
SYMMETRY Symmetry
INVARIANT BuffersSound
INVARIANT TotalRight
PROPERTY ImplementsQueue
