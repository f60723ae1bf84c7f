SPECIFICATION FairSpec
CONSTANTS
    p1 = p1
    p2 = p2
    MinThr = 1
    MaxThr = 2
    QueueMax = 2
    DefaultThreadNum = 2
    MinWaitTaskNum = 2
    Producers <- OneProducer
    MaxTasks = 3
    TasksMayExit = FALSE
    MaxFailures = 0
PROPERTIES
    Served
CHECK_DEADLOCK FALSE
