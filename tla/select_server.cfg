SPECIFICATION FairSpec
CONSTANTS
    c1 = c1
    c2 = c2
    c3 = c3
    Clients <- ThreeClients
    MaxClient = 3
    RecvCap = 1
    SendCap = 1
INVARIANTS
    TypeOK
    SlotsOpen
    CountExact
    BelowCapacity
PROPERTIES
    PendingAnswered
CHECK_DEADLOCK FALSE
