SPECIFICATION Spec
CONSTANTS
    x = x
    y = y
    z = z
    Companions = {c}
    Onions <- TwoOnions
    Credentials <- Windows
    Keys = {k}
    ReusedTor = FALSE
    MayCrash = FALSE
    ControlFails = FALSE
INVARIANTS
    RemovedIsGone
