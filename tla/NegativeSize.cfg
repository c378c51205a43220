SPECIFICATION SceneSpec
CONSTANTS
  Keys = {"a", "b", "c", "d"}
  Hash <- MixedPartials
  SLOT_PER_BUCKET = 1
  MAX_BFS_PATH_LEN = 3
  MAX_CUCKOO_COUNT = 8
  DefaultMinLoad <- Twentieth
  NoMaximum = 99
  Threads = {t1, t2}
  Vals = {"u", "w"}
  Calls <- SizeCalls
  BaseCalls <- SizeCalls
  Rebuild <- RebuiltAlone
  Start <- Loaded
  Preload <- OneElement
  InitHp = 2
  kMaxNumLocks = 4
  MinLoad <- Twentieth
  InitMaximum = 3
  NothrowTypes = TRUE
  TrivialTypes = TRUE
  MaxCalls = 4
  Scenes = {"base"}
INVARIANTS
  SizeNotNegative
CHECK_DEADLOCK FALSE
