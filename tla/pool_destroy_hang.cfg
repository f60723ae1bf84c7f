SPECIFICATION FairSpec
CONSTANTS
    p1 = p1
    p2 = p2
    MinThr = 1
    MaxThr = 1
    QueueMax = 1
    DefaultThreadNum = 1
    MinWaitTaskNum = 1
    Producers <- OneProducer
    MaxTasks = 1
    TasksMayExit = FALSE
    MaxFailures = 0
PROPERTIES
    DestroyCompletes
CHECK_DEADLOCK FALSE
