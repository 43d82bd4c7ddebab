SPECIFICATION FairSpec
CONSTANTS
    Onions = {x}
    Tabs = {t1, t2}
    Ids = {1, 2, 3}
    MaxInFlight = 2
    MaxEvents = 3
    TimingOut = {"auth-list"}
    SlowStorage = FALSE
INVARIANTS TypeOK BelievedUnlockedIsUnlocked CacheFollowsIndex
PROPERTIES LetThroughWasUnlocked RedirectedReaches
