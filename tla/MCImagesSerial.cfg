SPECIFICATION Spec
CONSTANTS
    Worker = {w1}
    w1 = w1
    Row <- FourIds
    Absent = Absent
    Clean = Clean
    Kind <- Everything
    Uploaded = 0
    StalePages = FALSE
INVARIANTS
    AtMostOnePrimary
    SomePrimary
PROPERTIES
    ImplementsGallery
CHECK_DEADLOCK FALSE
