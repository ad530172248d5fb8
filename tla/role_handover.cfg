\* Three keys and a derived address, so that the admin, the holder, the
\* nominee and somebody else can differ. Markers and values play no part.
\* No symmetry: FreezeRecovers is a liveness property.
SPECIFICATION DutifulSpec
CONSTANTS
    k1 = k1
    k2 = k2
    k3 = k3
    p1 = p1
    Ids = {k1, k2, k3, p1}
    Pdas = {p1}
    NoId = NoId
    NoData = NoData
    AutoWrap = TRUE
    Targets = {}
    Values = {0}
INVARIANTS
    AuditTypeOK
    MandateStands
PROPERTIES
    RoleTakenWithConsent
    FreezeRecovers
