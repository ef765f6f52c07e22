SPECIFICATION FairSpec
CONSTANTS
    Worker = {w1, w2}
    f1 = f1
    s1 = s1
    Row <- Rows
    Field <- Fields
    Sku <- OneSku
    Existing <- None
    Blank = Blank
    Absent = Absent
    Clean = Clean
    Label = {l1, l2}
    Value = {v1}
    Kind <- Requests
    MaxNew = 2
INVARIANTS
    TypeOK
    PageLabelled
PROPERTIES
    ImplementsSpecStore
    EveryRequestEnds
