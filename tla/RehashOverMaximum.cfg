SPECIFICATION SceneSpec
CONSTANTS
  Keys = {"a", "b", "c"}
  Hash <- TightFit
  SLOT_PER_BUCKET = 1
  MAX_BFS_PATH_LEN = 3
  MAX_CUCKOO_COUNT = 8
  DefaultMinLoad <- Twentieth
  NoMaximum = 99
  Threads = {t1}
  Vals = {"u", "w"}
  Calls <- RehashCalls
  BaseCalls <- RehashCalls
  Rebuild <- RebuiltAlone
  Start <- Loaded
  Preload <- ThreeElements
  InitHp = 2
  kMaxNumLocks = 4
  MinLoad <- Twentieth
  InitMaximum = 2
  NothrowTypes = TRUE
  TrivialTypes = TRUE
  MaxCalls = 1
  Scenes = {"base"}
PROPERTIES
  MaximumRespected
CHECK_DEADLOCK FALSE
