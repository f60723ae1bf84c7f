SPECIFICATION FairSpec
CONSTANTS
    c1 = c1
    c2 = c2
    c3 = c3
    child1 = child1
    child2 = child2
    n1 = n1
    n2 = n2
    n3 = n3
    x1 = x1
    x2 = x2
    Clients <- ThreeClients
    FewClients <- TwoClients
    RecvCap = 1
    SendCap = 1
    MaxEvents = 3
    MaxClient = 3
    ChatLength = 3
    QueueMax = 2
    Workers = 2
    Parent = Parent
    Children <- TwoProcs
    MsgProcs <- TwoProcs
    People <- PeopleCells
    Names <- ThreeNames
    NoName = NoName
    Numbers <- TwoNumbers
    Elements <- TwoNumbers
    Cells <- ListCells
    Header = 0
    NULL = NULL
    MaxRounds = 3
    First = 1
    MaxSem = 3
    MaxRuns = 4
    Total = 5
    Capacity = 3
    PipeBuf = 2
    ReadSize = 2
    Nobody = Nobody
    Length = 5
    Values <- ThreeValues
INVARIANTS
    TypeOK
    EventsTrue
    OwnSlot
    HandlesOpen
    ChildrenApart
    FreshQueue
    DataSound
    ResultsRight
PROPERTIES
    DataRead
    AllHear
    Answered
    RefinesBook
    RefinesSequence
    Ends
CHECK_DEADLOCK FALSE
