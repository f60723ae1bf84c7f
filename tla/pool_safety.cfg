SPECIFICATION Spec
CONSTANTS
    p1 = p1
    p2 = p2
    MinThr = 1
    MaxThr = 3
    QueueMax = 2
    DefaultThreadNum = 2
    MinWaitTaskNum = 1
    Producers <- TwoProducers
    MaxTasks = 3
    TasksMayExit = TRUE
    MaxFailures = 2
INVARIANTS
    TypeOK
    PoolSize
    LiveExact
    BusyExact
    RingConsistent
    BlockedOnlyWhenFull
PROPERTIES
    RefinesTaskQueue
    FreedArgNotQueued
CHECK_DEADLOCK FALSE
SYMMETRY ProducerSymmetry
