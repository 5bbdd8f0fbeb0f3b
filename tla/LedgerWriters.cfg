SPECIFICATION Spec
CONSTANTS
    t1 = t1 t2 = t2 t3 = t3 f1 = f1 f2 = f2 c1 = c1 n1 = n1
    i1 = i1
    Tags = {g1}
    Patches = {p1}
    Imports = {i1}
    Exports = {e1}
    Restores = {r1}
    Stored = {t1, t2}
    NewRow <- MCNewRow
    FileOf <- MCFileOf
    OldClusters = {c1}
    Remint <- MCRemint
    FirstCluster <- MCFirstCluster
    Categories = {food}
    Pending = Pending
    Currencies = {USD}
    NoCurrency = NoCurrency
    FirstCurrency = EUR
    Absent = Absent
SYMMETRY SameStart
CONSTRAINT TwoTogether
INVARIANTS ExportsAccepted CurrencyUniform CountsAtRest WaitingIsQueued MetricsCurrent RestorableAtRest
CHECK_DEADLOCK FALSE
