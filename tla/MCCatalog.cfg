SPECIFICATION Spec
CONSTANTS
    volt = volt
    color = color
    max_volt = max_volt
    min_volt = min_volt
    n9 = n9
    n10 = n10
    exp1 = exp1
    words = words
    red = red
    i1 = i1
    i2 = i2
    Field = {volt, color}
    Order <- Fields
    NumberField = {volt}
    MinParam <- MinInput
    MaxParam <- MaxInput
    Item = {i1, i2}
    Entered <- EnteredIn
    Number <- NumberOf
    Plain = {n9, n10}
    Empty = Empty
    Absent = Absent
    Limit = {n9, n10}
    MaxChanges = 2
SYMMETRY SameItems
INVARIANTS
    TypeOK
    ListsMatching
    FiltersFitList
PROPERTIES
    FailsOnlyByLimit
