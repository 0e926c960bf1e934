SPECIFICATION Spec
CONSTANTS
    Conn = {c1, c2}
    Device = {d1, d2}
    NoName = NoName
    Parser = {"Wialon", "M01"}
    Packet <- Packets
    Weak = {2}
    Tomorrow = 4
    PerDay = 2
    MaxPackets = 4
    SaveMayFail = TRUE
SYMMETRY Symmetry
INVARIANT TypeOK
INVARIANT TracksAreOwn
INVARIANT PacketIsStored
INVARIANT EarlyHasLater
