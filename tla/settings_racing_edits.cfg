SPECIFICATION Spec
CONSTANTS
    Hosts = {}
    Domains <- SomeDomains
    MaxEdits = 2
    EarlyEdits = TRUE
INVARIANTS
    TypeOK
    EditsAccumulate
