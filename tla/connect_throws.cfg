SPECIFICATION Spec
CONSTANTS
    p1 = p1
    p2 = p2
    r1 = r1
    r2 = r2
    none = none
    Ports = {p1}
    NoPort = none
    Ids = {1, 2, 3}
    NoId = 0
    Builds <- ThisBuild
    Requests <- OneRequest
    Probes = {}
    Commands = {}
    ConnectThrows = TRUE
    MayTimeOut = {}
    MaxInFlight = 1
    Base = 3
    MAX_INBOUND_BYTES = 3
    JsonTexts <- ShortTexts
    Json <- ShortJson
INVARIANTS
    NobodyWaitsAtOpenGate
