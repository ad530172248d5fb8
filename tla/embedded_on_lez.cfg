\* Two keys and a derived address, a marker for the latter.
SPECIFICATION Spec
CONSTANTS
    k1 = k1
    k2 = k2
    p1 = p1
    Ids = {k1, k2, p1}
    Pdas = {p1}
    NoId = 0
    NoData = NoData
    Cells = {0, 1, k1, k2, p1}
    AutoWrap = TRUE
    Targets = {p1}
    Values = {0, 1}
    Admins = {p1}
    AdminAccount = program_config
    ConfigAccount = program_config
    ProgramAccount = program_config
    AdminOffset = 2
    FreezeOffset = 4
SYMMETRY Symmetry
INVARIANTS
    ChainTypeOK
    WindowsReadable
    LezAccepts
    OnlyOwnConfigRead
PROPERTIES
    NeighboursKept
    ImplementsRecords
    NoLostWrite
