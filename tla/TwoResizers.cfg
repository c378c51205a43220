SPECIFICATION Spec
CONSTANTS
  Threads = {t1, t2, t3}
  Resizers = {t1, t2}
  Shrinks = FALSE
  InitHp = 0
  MaxHp = 2
  kMaxNumLocks = 4
  MaxCalls = 1
INVARIANTS
  Exclusion
CHECK_DEADLOCK FALSE
