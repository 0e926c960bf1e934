SPECIFICATION Spec
CONSTANTS
    Conn = {c1, c2}
    Device = {d1, d2, d0}
    ZeroId = d0
    NoDevice = NoDevice
    Packet <- AllKinds
    MinSat = 1
    Tomorrow = 4
    PerDay = 2
    MaxPackets = 2
    MaxLogins = 2
    Overlap = TRUE
    SaveMayFail = TRUE
    ResetMayHappen = TRUE
SYMMETRY Symmetry
INVARIANT TypeOK
INVARIANT AckedIsStored
INVARIANT TracksAreOwn
