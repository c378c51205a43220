SPECIFICATION FairSpec
CONSTANTS
  Threads = {t1, t2, t3}
  Resizers = {t1}
  Shrinks = FALSE
  InitHp = 0
  MaxHp = 2
  kMaxNumLocks = 2
  MaxCalls = 1
INVARIANTS
  TypeOK
  Exclusion
  IndexInContainer
  LockOrder
PROPERTIES
  CallsReturn
CHECK_DEADLOCK FALSE
