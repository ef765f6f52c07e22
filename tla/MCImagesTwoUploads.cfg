SPECIFICATION Spec
CONSTANTS
    Worker = {w1, w2}
    w1 = w1
    w2 = w2
    Row <- ThreeIds
    Absent = Absent
    Clean = Clean
    Kind <- UploadsOnly
    Uploaded = 0
    StalePages = FALSE
INVARIANTS
    AtMostOnePrimary
