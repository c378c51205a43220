SPECIFICATION SceneSpec
CONSTANTS
  Keys = {"a", "b", "c", "d"}
  Hash <- ZeroPartials
  SLOT_PER_BUCKET = 1
  MAX_BFS_PATH_LEN = 3
  MAX_CUCKOO_COUNT = 8
  DefaultMinLoad <- Twentieth
  NoMaximum = 99
  Threads = {t1, t2}
  Vals = {"u", "w"}
  Calls <- InsertCalls
  BaseCalls <- InsertCalls
  Rebuild <- RebuiltAlone
  Start <- Loaded
  Preload <- TwoElements
  InitHp = 1
  kMaxNumLocks = 4
  MinLoad <- ThreeFifths
  InitMaximum = 3
  NothrowTypes = TRUE
  TrivialTypes = TRUE
  MaxCalls = 1
  Scenes = {"base"}
PROPERTIES
  RefusedWhenFull
CHECK_DEADLOCK FALSE
