\* A violation: an account that is not the holder tries to release a marker.
SPECIFICATION Spec
CONSTANTS
    k1 = k1
    k2 = k2
    p1 = p1
    Ids = {k1, k2, p1}
    Pdas = {p1}
    NoId = NoId
    NoData = NoData
    AutoWrap = TRUE
    Targets = {k1, k2}
    Values = {0, 1}
SYMMETRY Symmetry
INVARIANTS
    ReleaseRefusedAsListed
