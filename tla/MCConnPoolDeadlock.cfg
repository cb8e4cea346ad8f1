CONSTANTS
    t1 = t1
    t2 = t2
    t3 = t3
    Tasks = {t1, t2}
    StrandOf <- Pipelined
    Threads = 3
    PoolSize = 2
    NoTask = NoTask
SPECIFICATION Spec
PROPERTY EveryRequestServed
CHECK_DEADLOCK FALSE
