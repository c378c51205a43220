SPECIFICATION SceneSpec
CONSTANTS
  Keys = {"a", "b", "c"}
  Hash <- SameLowBits
  SLOT_PER_BUCKET = 1
  MAX_BFS_PATH_LEN = 5
  MAX_CUCKOO_COUNT = 256
  DefaultMinLoad <- Twentieth
  NoMaximum = 99
  Threads = {t1}
  Vals = {"u", "w"}
  Calls <- RehashCalls
  BaseCalls <- RehashCalls
  Rebuild <- RebuiltAlone
  Start <- Loaded
  Preload <- ThreeElements
  InitHp = 0
  kMaxNumLocks = 4
  MinLoad <- Zero
  InitMaximum = 99
  NothrowTypes = TRUE
  TrivialTypes = FALSE
  MaxCalls = 1
  Scenes = {"base"}
PROPERTIES
  StrongGuarantee
CHECK_DEADLOCK FALSE
