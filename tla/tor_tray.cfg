SPECIFICATION FairSpec
CONSTANTS
    Companions = {c}
    Tray = tray
    Ports = {9050, 9051, 40001}
    DEFAULT_SOCKS_PORT = 9050
    DEFAULT_CONTROL_PORT = 9051
    NoPort = 0
    TakenPorts = {9050}
    SystemTor = FALSE
    TrayExists = TRUE
    MayCrash = TRUE
    TorMayExit = TRUE
    PidReuse = TRUE
    DownloadEnds = TRUE
INVARIANTS
    NoOrphanTor
    OwnerIsParent
PROPERTIES
    SearchEnds
