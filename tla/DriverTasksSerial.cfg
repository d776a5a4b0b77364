SPECIFICATION Spec
CONSTANTS
    Tasks = {t1, t2}
    Units = {u1, u2}
    Calls = {c1, c2}
    Ids = {k1, k2, k3}
    Serial = TRUE
    NoTask = NoTask
    NoUnit = NoUnit
    NoId = NoId
INVARIANTS OneManager StoredIsWatched CommandsOwnTheirUnit NothingLeaks
PROPERTIES KeepsOwnership
SYMMETRY MCSymmetry
