SPECIFICATION Spec
CONSTANTS
    r1 = r1
    r2 = r2
    i1 = i1
    i2 = i2
    Restores = {r1}
    Imports = {i1}
    Keys <- MCKeys
    ClusterKeys <- MCClusterKeys
    Absent = Absent
    Initial <- OneRow
    Snapshot <- OneFile
    NewKey <- FreshKeys
    NoJob = NoJob
    AbortPolicy = "never"
    RacyAcquires = FALSE
    ChunkMayFail = TRUE
INVARIANTS
    Recoverable
    FailureReleasesLock
PROPERTIES
    ImplementsAtomicLedger
\* Every request has been answered or has died.
CHECK_DEADLOCK FALSE
