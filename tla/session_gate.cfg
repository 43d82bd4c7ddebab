SPECIFICATION Spec
CONSTANTS
    p1 = p1
    p2 = p2
    r1 = r1
    r2 = r2
    none = none
    Ports <- TwoPorts
    NoPort = none
    Ids = {1, 2, 3, 4, 5, 6}
    NoId = 0
    Builds <- ThisBuild
    Requests <- TwoRequests
    Probes = {}
    Commands = {}
    ConnectThrows = FALSE
    MayTimeOut = {}
    MaxInFlight = 2
    Base = 3
    MAX_INBOUND_BYTES = 3
    JsonTexts <- ShortTexts
    Json <- ShortJson
SYMMETRY Symmetry
INVARIANTS
    TypeOK
    NobodyWaitsAtOpenGate
    NoStrandedRequest
PROPERTIES
    ImplementsGate
