SPECIFICATION Spec
CONSTANTS
    Tasks = {t1, t2}
    Units = {u1}
    Calls = {c1, c2}
    Ids = {k1, k2, k3}
    Serial = FALSE
    NoTask = NoTask
    NoUnit = NoUnit
    NoId = NoId
INVARIANTS OneManager
SYMMETRY MCSymmetry
