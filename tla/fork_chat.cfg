SPECIFICATION Spec
CONSTANTS
    c1 = c1
    c2 = c2
    c3 = c3
    Clients <- ThreeClients
    NoClient = NoClient
    MaxClient = 3
    MaxRestarts = 1
INVARIANTS
    TypeOK
    
    SameMeaning
PROPERTIES
    InheritedHear
SYMMETRY ClientSymmetry
CHECK_DEADLOCK FALSE
