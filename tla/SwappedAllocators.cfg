SPECIFICATION SceneSpec
CONSTANTS
  Scenes = {"objects"}
  TableKeys = {"a", "b", "c", "d"}
  Hash <- Hashes
  SLOT_PER_BUCKET = 2
  MAX_BFS_PATH_LEN = 3
  MAX_CUCKOO_COUNT = 8
  DefaultMinLoad <- Twentieth
  NoMaximum = 20
  kMaxNumLocks = 4
  Vals = {"u"}
  Handles = {h1, h2}
  Iterators = {i1, i2}
  CKeys = {"a", "b"}
  CMinLoad <- Half
  CHash <- Colliding
  Sizes = {1}
  Drift = 0
  Objects = {"o", "p"}
  Keys = {"a"}
  Allocators = {1, 2}
  Default = 1
  Traits <- OnSwap
  Hashpowers = {0, 1}
  Maps = {"m", "n"}
  NoMap = NoMap
  NoIterator = NoIterator
  NoTable = NoTable
  NoFile = NoFile
  Null = Null
  NoObject = NoObject
  Unspecified = Unspecified
INVARIANTS
  RightAllocator
CHECK_DEADLOCK FALSE
