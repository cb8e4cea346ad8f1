CONSTANTS
    t1 = t1
    t2 = t2
    t3 = t3
    Tasks = {t1, t2, t3}
    StrandOf <- OneEach
    Threads = 3
    PoolSize = 2
    NoTask = NoTask
SPECIFICATION Spec
INVARIANT TypeOK
INVARIANT OneHolder
PROPERTY WarmPoolNeverBlocks
PROPERTY EveryRequestServed
