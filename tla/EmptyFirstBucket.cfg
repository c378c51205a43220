SPECIFICATION Spec
CONSTANTS
    t1 = t1
    t2 = t2
    k1 = k1
    k2 = k2
    k3 = k3
    k4 = k4
    v1 = v1
    v2 = v2
    NoThread = NoThread
    NoCall = NoCall
    NoReply = NoReply
    Threads = {t1}
    Keys = {k1, k2, k3}
    Vals = {v1}
    NumBuckets = 2
    SlotsPerBucket = 2
    CounterMax = 1
    kMaxCuckooCount = 2
    Index1 <- FirstBuckets
    Index2 <- SecondBuckets
    Tag <- CollidingTags
    Calls <- SequentialCalls
    Preload <- Empty
    Garbage <- ZeroPair
INVARIANTS
    InsertedIsFound
