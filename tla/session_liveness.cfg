SPECIFICATION FairSpec
CONSTANTS
    p1 = p1
    p2 = p2
    r1 = r1
    r2 = r2
    none = none
    Ports = {p1}
    NoPort = none
    Ids = {1, 2, 3, 4, 5, 6}
    NoId = 0
    Builds <- AnyBuild
    Requests <- OneRequest
    Probes = {}
    Commands = {"auth-add"}
    ConnectThrows = FALSE
    MayTimeOut = {}
    MaxInFlight = 2
    Base = 3
    MAX_INBOUND_BYTES = 3
    JsonTexts <- ShortTexts
    Json <- ShortJson
INVARIANTS
    PipesSurviveCuts
PROPERTIES
    RequestsSettle
