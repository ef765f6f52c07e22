SPECIFICATION FairSpec
CONSTANTS
    Network = {n1, n2}
    n1 = n1
    n2 = n2
    Empty = Empty
    MaxRequests = 2
    MaxFaults = 1
INVARIANTS
    TypeOK
    WayBack
    RunsOnSaved
    DarkOnlyWhileHeld
PROPERTIES
    AlwaysServes
    Provisioned
