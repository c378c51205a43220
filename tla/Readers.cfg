SPECIFICATION FairBudgetSpec
CONSTANTS
    t1 = t1
    t2 = t2
    k1 = k1
    k2 = k2
    k3 = k3
    k4 = k4
    v1 = v1
    v2 = v2
    NoThread = NoThread
    NoCall = NoCall
    NoReply = NoReply
    Threads = {t1, t2}
    Keys = {k1, k2, k3}
    Vals = {v1, v2}
    NumBuckets = 2
    SlotsPerBucket = 2
    CounterMax = 15
    kMaxCuckooCount = 3
    Index1 <- FirstBuckets
    Index2 <- SecondBuckets
    Tag <- CollidingTags
    Calls <- ReaderCalls
    Preload <- NearlyFull
    Garbage <- ZeroPair
    MaxCalls <- Two
PROPERTIES
    CallsReturn
CHECK_DEADLOCK FALSE
