\* A request times out and its command is carried out later: after an auth-lock
\* the page still takes the vault for open (background.js:658-661, 774-781).
SPECIFICATION Spec
CONSTANTS
    Onions = {x}
    Tabs = {t1}
    Ids = {1, 2, 3}
    MaxInFlight = 2
    MaxEvents = 3
    TimingOut = {"auth-lock"}
    SlowStorage = FALSE
PROPERTY LetThroughWasUnlocked
