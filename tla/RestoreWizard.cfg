SPECIFICATION Spec
CONSTANTS
    f1 = f1
    other = other
    p1 = p1
    None = None
    Files = {f1, other}
    Backups = {f1}
    Posts = {p1}
    MaxMishaps = 2
    MaxCalls = 2
INVARIANTS
    OneCallAtATime
    RestoresWhatWasShown
PROPERTIES
    SignedInStays
    StuckLockGetsCleared
