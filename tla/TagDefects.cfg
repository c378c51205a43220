SPECIFICATION SceneSpec
CONSTANTS
  Scenes = {"packed", "single", "block"}
  SemiSortedWidths = {9}
  PairLookups = {9}
  Threads = {t1, t2}
  Widths = {2}
  num_buckets_ = 1
  Hashes <- SampleHashes
  Idle = Idle
  MaxKeys = 3000
  WordSize = 31
  TagWidths = {2, 4, 8, 12, 16}
  PackedWidths = {5, 6, 7, 8, 9, 13, 17}
  Keys <- BlockKeys
  hasher_ <- BlockHashes
  TopBits <- Products
  LogHeapSpaces = {5}
INVARIANTS
  PairLookupRight
  HeapSpaceRespected
PROPERTIES
  WritesLand
CHECK_DEADLOCK FALSE
