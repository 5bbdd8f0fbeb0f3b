SPECIFICATION Spec
CONSTANTS
    t1 = t1 t2 = t2 t3 = t3 f1 = f1 f2 = f2 c1 = c1 n1 = n1
    i1 = i1
    Tags = {}
    Patches = {p1}
    Imports = {i1}
    Exports = {}
    Restores = {}
    Stored = {t1, t2}
    NewRow <- MCNewRow
    FileOf <- MCFileOf
    OldClusters = {c1}
    Remint <- MCRemint
    FirstCluster <- MCFirstCluster
    Categories = {food}
    Pending = Pending
    Currencies = {USD}
    NoCurrency = NoCurrency
    FirstCurrency = EUR
    Absent = Absent
INVARIANT RestorableAfterSuccess
CHECK_DEADLOCK FALSE
