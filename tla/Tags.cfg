SPECIFICATION SceneSpec
CONSTANTS
  Scenes = {"packed", "single", "sizes", "block"}
  SemiSortedWidths = {5, 6, 7, 8, 9, 13, 17}
  PairLookups = {13}
  Threads = {t1, t2}
  Widths = {4, 8, 12, 16}
  num_buckets_ = 1
  Hashes <- SampleHashes
  Idle = Idle
  MaxKeys = 3000
  WordSize = 31
  TagWidths = {2, 4, 8, 12, 16}
  PackedWidths = {5, 6, 7, 8, 9, 13, 17}
  Keys <- BlockKeys
  hasher_ <- BlockHashes
  TopBits <- Products
  LogHeapSpaces = {6, 7, 8}
INVARIANTS
  PairLookupRight
  FindsExactly
  StorageCovers
  MaskAndRoom
  LoadsInside
  FindsWhatWasAdded
PROPERTIES
  BucketsAreBags
  WritesAreAtomic
  WritesLand
CHECK_DEADLOCK FALSE
