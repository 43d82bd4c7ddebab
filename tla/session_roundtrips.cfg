SPECIFICATION Spec
CONSTANTS
    p1 = p1
    p2 = p2
    r1 = r1
    r2 = r2
    none = none
    Ports = {p1}
    NoPort = none
    Ids = {1, 2, 3, 4}
    NoId = 0
    Builds <- AnyBuild
    Requests <- OneRequest
    Probes = {"ping"}
    Commands = {"auth-unlock", "auth-lock"}
    ConnectThrows = TRUE
    MayTimeOut = {"auth-list", "ping"}
    MaxInFlight = 2
    Base = 3
    MAX_INBOUND_BYTES = 3
    JsonTexts <- ShortTexts
    Json <- ShortJson
INVARIANTS
    StatusFollowsBackend
    EveryPendingHasItsReply
