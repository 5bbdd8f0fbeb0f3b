SPECIFICATION Spec
CONSTANTS
    N = 5
    MinSamples = 3
    Inputs <- MCInputs
    Close <- MCClose
    StoredClusters <- MCStoredClusters
    NoCluster = NoCluster
INVARIANTS DenseGroups MatchingTogether NothingTorn JoinedForCause RegroupedReported
CHECK_DEADLOCK FALSE
