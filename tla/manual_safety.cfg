\* Two keys and a derived address, markers for the keys.
SPECIFICATION Spec
CONSTANTS
    k1 = k1
    k2 = k2
    p1 = p1
    Ids = {k1, k2, p1}
    Pdas = {p1}
    NoId = NoId
    NoData = NoData
    AutoWrap = FALSE
    Targets = {k1, k2}
    Values = {0, 1}
SYMMETRY Symmetry
INVARIANTS
    TypeOK
    BrakeUngated
    OnlyFreezesStopWrites
PROPERTIES
    ImplementsLifecycle
    FrozenStateStands
