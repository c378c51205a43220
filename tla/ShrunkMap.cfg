SPECIFICATION Spec
CONSTANTS
  Threads = {t1, t2, t3}
  Resizers = {t1}
  Shrinks = TRUE
  InitHp = 0
  MaxHp = 1
  kMaxNumLocks = 4
  MaxCalls = 1
INVARIANTS
  Exclusion
CHECK_DEADLOCK FALSE
