SPECIFICATION FairSpec
CONSTANTS
    p1 = p1
    p2 = p2
    MinThr = 2
    MaxThr = 2
    QueueMax = 2
    DefaultThreadNum = 1
    MinWaitTaskNum = 1
    Producers <- OneProducer
    MaxTasks = 3
    TasksMayExit = FALSE
    MaxFailures = 1
INVARIANTS
    TasksCovered
    AllWorkersJoined
PROPERTIES
    Served
    ProducerProgress
    AdminTerminates
CHECK_DEADLOCK FALSE
