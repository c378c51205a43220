SPECIFICATION FairSceneSpec
CONSTANTS
  Keys = {"a", "b", "c", "d"}
  Hash <- RealPartials
  SLOT_PER_BUCKET = 1
  MAX_BFS_PATH_LEN = 5
  MAX_CUCKOO_COUNT = 256
  DefaultMinLoad <- Twentieth
  NoMaximum = 99
  Threads = {t1}
  Vals = {"u", "w"}
  Calls <- InsertCalls
  BaseCalls <- InsertCalls
  Rebuild <- RebuiltAlone
  Start <- Loaded
  Preload <- Nothing
  InitHp = 2
  kMaxNumLocks = 4
  MinLoad <- Twentieth
  InitMaximum = 3
  NothrowTypes = TRUE
  TrivialTypes = TRUE
  MaxCalls = 4
  Scenes = {"base"}
PROPERTIES
  CallsReturn
CHECK_DEADLOCK FALSE
