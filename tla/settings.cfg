SPECIFICATION FairSpec
CONSTANTS
    Hosts <- SomeHosts
    Domains <- SomeDomains
    MaxEdits = 1
    EarlyEdits = FALSE
INVARIANTS
    RoutedAsStored
    WebRTCAsStored
    EditsAccumulate
PROPERTY ModeTakesEffect
