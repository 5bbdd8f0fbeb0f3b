SPECIFICATION Spec
CONSTANTS
    r1 = r1
    r2 = r2
    i1 = i1
    i2 = i2
    Restores = {r1, r2}
    Imports = {}
    Keys <- MCKeys
    ClusterKeys <- MCClusterKeys
    Absent = Absent
    Initial <- TwoRows
    Snapshot <- TwoFiles
    NewKey <- FreshKeys
    NoJob = NoJob
    AbortPolicy = "stopped"
    RacyAcquires = FALSE
    ChunkMayFail = TRUE
PROPERTIES
    RestoredExactly
