SPECIFICATION FairSpec
CONSTANTS
    Installers = {a}
    Versions = {1, 2, 3}
    Names <- ThreeNames
    Pinned = 1
    NetworkFails = TRUE
    BadDownloads = TRUE
    MayCrash = TRUE
    DiskFills = TRUE
INVARIANTS
    ReturnedIsWhole
    OnlyVerifiedBytes
    ReportedIsWhole
    NewestIsReported
PROPERTIES
    WholeForGood
    EventuallyInstalled
