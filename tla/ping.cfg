SPECIFICATION FairSpec
CONSTANTS
    h1 = h1
    h2 = h2
    Hosts <- TwoHosts
    Target = h1
    TableSize = 2
    ShortRange = 2
    MaxSent = 3
    NetCap = 1
INVARIANTS
    TypeOK
    SeqsConsecutive
PROPERTIES
    StatisticsFinal
    Stops
CHECK_DEADLOCK FALSE
