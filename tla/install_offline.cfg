SPECIFICATION Spec
CONSTANTS
    Installers = {a}
    Versions = {1, 2}
    Names <- ThreeNames
    Pinned = 1
    NetworkFails = TRUE
    BadDownloads = FALSE
    MayCrash = FALSE
    DiskFills = FALSE
INVARIANTS
    FailsOnlyWithoutTor
