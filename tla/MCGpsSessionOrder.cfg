SPECIFICATION Spec
CONSTANTS
    Conn = {c1, c2}
    Device = {d1}
    ZeroId = ZeroId
    NoDevice = NoDevice
    Packet <- Whole
    MinSat = 1
    Tomorrow = 4
    PerDay = 10
    MaxPackets = 4
    MaxLogins = 2
    Overlap = FALSE
    SaveMayFail = FALSE
    ResetMayHappen = FALSE
SYMMETRY ConnSymmetry
INVARIANT SessionSorted
INVARIANT EarlyHasLater
PROPERTY NameIsKept
