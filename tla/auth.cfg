SPECIFICATION Spec
CONSTANTS
    x = x
    y = y
    z = z
    Companions = {c}
    Onions <- ThreeOnions
    Credentials <- OneTierEach
    Keys = {k}
    ReusedTor = FALSE
    MayCrash = TRUE
    ControlFails = FALSE
INVARIANTS
    IndexMatchesVaults
    LiveKeysAreAvailable
    LockTakesEffect
    HeldKeyOpensVault
PROPERTIES
    SecretsPersist
