\* The companion answers before storage.local does: loadAuthIndex overwrites the
\* newer copy (background.js:693-706), and the interceptor asks again.
SPECIFICATION Spec
CONSTANTS
    Onions = {x}
    Tabs = {t1}
    Ids = {1, 2, 3}
    MaxInFlight = 2
    MaxEvents = 3
    TimingOut = {}
    SlowStorage = TRUE
INVARIANT CacheFollowsIndex
