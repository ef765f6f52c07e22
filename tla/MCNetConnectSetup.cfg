SPECIFICATION Spec
CONSTANTS
    Network = {n1, n2}
    n1 = n1
    n2 = n2
    Empty = Empty
    MaxRequests = 1
    MaxFaults = 1
INVARIANTS
    SetupPageInApMode
