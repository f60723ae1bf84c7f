SPECIFICATION Spec
CONSTANTS
    p1 = p1
    p2 = p2
    MinThr = 1
    MaxThr = 2
    QueueMax = 1
    DefaultThreadNum = 2
    MinWaitTaskNum = 1
    Producers <- OneProducer
    MaxTasks = 2
    TasksMayExit = FALSE
    MaxFailures = 0
INVARIANTS
    AllWorkersJoined
CHECK_DEADLOCK FALSE
