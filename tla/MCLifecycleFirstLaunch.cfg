SPECIFICATION Spec
CONSTANTS
    Instance = {i1}
    p1 = p1
    p2 = p2
    p3 = p3
    p4 = p4
    p5 = p5
    p6 = p6
    Password <- Passwords
    NoPassword = NoPassword
    Torn = Torn
    MaxCrashes = 0
INVARIANTS
    LaunchSucceeds
