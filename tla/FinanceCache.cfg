SPECIFICATION CacheSpec
CONSTANTS
    queue = queue files = files
    Keys = {queue, files}
    Sensitive = {queue}
    Screens = {"import", "review", "dashboard", "settings"}
    Shows <- MCShows
    Queue = queue
    Imports = {i1, i2}
    Tags = {t1}
    Patches = {p1}
    Restores = {r1}
    MaxRequests = 2
    NoData = NoData
INVARIANTS NoneFromBefore SettledIsFresh
CHECK_DEADLOCK FALSE
