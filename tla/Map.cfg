SPECIFICATION SceneSpec
CONSTANTS
  Keys = {"a", "b", "c", "d", "e", "f", "g", "h", "i", "p", "q", "r", "s"}
  Hash <- Hashes
  SLOT_PER_BUCKET = 1
  MAX_BFS_PATH_LEN = 3
  MAX_CUCKOO_COUNT = 8
  DefaultMinLoad <- Twentieth
  NoMaximum = 99
  Threads = {t1, t2}
  Vals = {"u", "w"}
  Calls <- SceneCalls
  BaseCalls <- ResizingCalls
  Rebuild <- RebuiltAlone
  Start <- Loaded
  Preload <- TwoElements
  InitHp = 2
  kMaxNumLocks = 4
  MinLoad <- Twentieth
  InitMaximum = 3
  NothrowTypes = TRUE
  TrivialTypes = TRUE
  MaxCalls = 2
  Scenes = {"base", "paths", "expands", "two slots"}
INVARIANTS
  UniqueHome
  SizeExact
PROPERTIES
  AtomicCalls
CHECK_DEADLOCK FALSE
