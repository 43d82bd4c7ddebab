SPECIFICATION FairSpec
CONSTANTS
    NumPairs = 2
    Servers <- Unspaced
    Onions = {"x"}
    Cookies = {"own", "theirs"}
    MaxOps = 2
INVARIANTS
    FirstFitIsFound
    RepliesAnswerTheirCommand
    OkMeansDone
    ProofsGoToTheKnowing
PROPERTIES
    OperationEnds
CHECK_DEADLOCK FALSE
