SPECIFICATION Spec
CONSTANTS
    x = x
    y = y
    z = z
    Companions = {c, d}
    Onions <- TwoOnions
    Credentials <- Linux
    Keys = {k, l}
    ReusedTor = FALSE
    MayCrash = FALSE
    ControlFails = FALSE
INVARIANTS
    TypeOK
PROPERTIES
    SecretsPersist
