SPECIFICATION Spec
CONSTANTS
    x = x
    y = y
    z = z
    Companions = {c}
    Onions <- TwoOnions
    Credentials <- Linux
    Keys = {k}
    ReusedTor = TRUE
    MayCrash = FALSE
    ControlFails = FALSE
INVARIANTS
    LockTakesEffect
