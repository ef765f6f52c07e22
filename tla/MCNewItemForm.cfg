SPECIFICATION Spec
CONSTANTS
    color = color
    mass = mass
    Mass = Mass
    v1 = v1
    v2 = v2
    Field = {color, mass}
    Options = {color, mass}
    Name = {Mass}
    KeyOf <- NameKey
    Value = {v1, v2}
    Empty = Empty
    NewField = NewField
    NoSelection = NoSelection
    MaxRows = 2
    MaxLoads = 2
    AttributeText <- UpToQuote
INVARIANTS
    SelectedFieldsSaved
CHECK_DEADLOCK FALSE
