CONSTANTS
    Threads = {t1, t2, t3}
    MaxConnections = 2
    Keys = {k1}
    LimitOf <- TwoEach
    Second = 2
    Window = 3
    NoKey = NoKey
    NoBucket = NoBucket
    MaxTime = 5
SPECIFICATION FairSpec
INVARIANTS
    SlotsMatchThreads
    RateIsBounded

    
