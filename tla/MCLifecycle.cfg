SPECIFICATION FairSpec
CONSTANTS
    Instance = {i1, i2}
    p1 = p1
    p2 = p2
    p3 = p3
    p4 = p4
    p5 = p5
    p6 = p6
    Password <- Passwords
    NoPassword = NoPassword
    Torn = Torn
    MaxCrashes = 3
INVARIANTS
    TypeOK
    ConfigOpensCluster
    ServingIsReady
PROPERTIES
    NoOrphanServer
    ServesAgain
