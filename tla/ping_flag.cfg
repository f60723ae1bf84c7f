SPECIFICATION Spec
CONSTANTS
    h1 = h1
    h2 = h2
    Hosts <- TwoHosts
    Target = h1
    TableSize = 2
    ShortRange = 3
    MaxSent = 2
    NetCap = 1
INVARIANTS
    AnsweredCleared
CHECK_DEADLOCK FALSE
