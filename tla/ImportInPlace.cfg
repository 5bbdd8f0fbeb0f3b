SPECIFICATION Spec
CONSTANTS
    u1 = u1
    u2 = u2
    u3 = u3
    bank = bank
    empty = empty
    Uploads = {u1, u2, u3}
    File <- MCFile
    Length <- MCLength
    NewAccount = {u3}
    Before = Before
    OldRows = 1
    NoUpload = NoUpload
    Absent = Absent
INVARIANTS
    RecordedFileIsComplete
    NoDanglingBlob
PROPERTIES
    SuccessCommitsEverything
    LateDuplicateRefused
    ImplementsLocks
\* Every upload has been answered or has died.
CHECK_DEADLOCK FALSE
