SPECIFICATION Spec
CONSTANTS
    NumPairs = 1
    Servers <- Spaced
    Onions = {"x"}
    Cookies = {"own", "theirs"}
    MaxOps = 1
INVARIANTS
    FirstFitIsFound
CHECK_DEADLOCK FALSE
