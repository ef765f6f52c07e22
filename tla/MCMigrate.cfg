SPECIFICATION FairSpec
CONSTANTS
    Runner = {r1, r2}
    r1 = r1
    r2 = r2
    Last = 4
    MaxCrashes = 2
INVARIANTS
    TypeOK
    NothingSkipped
    ServesUpToDate
    OnceIfAlone
PROPERTIES
    EveryRunEnds
