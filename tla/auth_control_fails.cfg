SPECIFICATION Spec
CONSTANTS
    x = x
    y = y
    z = z
    Companions = {c}
    Onions <- TwoOnions
    Credentials <- Linux
    Keys = {k}
    ReusedTor = FALSE
    MayCrash = FALSE
    ControlFails = TRUE
INVARIANTS
    LockTakesEffect
