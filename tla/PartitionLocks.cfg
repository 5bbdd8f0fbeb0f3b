SPECIFICATION FairSpec
CONSTANTS
    Restores = {r1, r2}
    Imports = {i1, i2}
    NoRequest = NoRequest
    AbortLiveRestores = FALSE
    StaleReads = TRUE
INVARIANTS
    SingleFlight
PROPERTIES
    LocksDrain
