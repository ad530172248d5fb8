\* A violation: the admin check comes first.
SPECIFICATION Spec
CONSTANTS
    k1 = k1
    k2 = k2
    p1 = p1
    Ids = {k1, k2, p1}
    Pdas = {p1}
    NoId = NoId
    NoData = NoData
    AutoWrap = TRUE
    Targets = {}
    Values = {0}
SYMMETRY Symmetry
INVARIANTS
    UninitializedSaysSo
