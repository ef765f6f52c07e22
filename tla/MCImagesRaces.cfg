SPECIFICATION FairSpec
CONSTANTS
    Worker = {w1, w2}
    w1 = w1
    w2 = w2
    Row <- ThreeIds
    Absent = Absent
    Clean = Clean
    Kind <- Everything
    Uploaded = 1
    StalePages = TRUE
INVARIANTS
    TypeOK
PROPERTIES
    PrimaryChoiceHeals
    EveryRequestEnds
