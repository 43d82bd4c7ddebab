SPECIFICATION Spec
CONSTANTS
    x = x
    y = y
    z = z
    Companions = {c}
    Onions <- TwoOnions
    Credentials <- Linux
    Keys = {k}
    ReusedTor = FALSE
    MayCrash = TRUE
    ControlFails = FALSE
INVARIANTS
    NoVaultKeyWhileLocked
