SPECIFICATION Spec
CONSTANTS
    Companions = {c, d}
    Tray = tray
    Ports = {9050, 9051, 40001, 40002}
    DEFAULT_SOCKS_PORT = 9050
    DEFAULT_CONTROL_PORT = 9051
    NoPort = 0
    TakenPorts = {}
    SystemTor = FALSE
    TrayExists = FALSE
    MayCrash = FALSE
    TorMayExit = FALSE
    PidReuse = FALSE
    DownloadEnds = TRUE
INVARIANTS
    OwnedPortIsTors
