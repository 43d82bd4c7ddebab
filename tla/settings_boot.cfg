SPECIFICATION Spec
CONSTANTS
    Hosts <- SomeHosts
    Domains <- SomeDomains
    MaxEdits = 1
    EarlyEdits = FALSE
INVARIANT AllMeansAll
