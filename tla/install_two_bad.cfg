SPECIFICATION Spec
CONSTANTS
    Installers = {a, b}
    Versions = {1}
    Names <- ThreeNames
    Pinned = 1
    NetworkFails = TRUE
    BadDownloads = TRUE
    MayCrash = FALSE
    DiskFills = FALSE
INVARIANTS
    TypeOK
    OnlyVerifiedBytes
