SPECIFICATION Spec
CONSTANTS
    Installers = {a}
    Versions = {1}
    Names <- ThreeNames
    Pinned = 1
    NetworkFails = FALSE
    BadDownloads = FALSE
    MayCrash = TRUE
    DiskFills = FALSE
INVARIANTS
    IntegrityVerified
