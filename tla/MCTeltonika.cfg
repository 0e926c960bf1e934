SPECIFICATION Spec
CONSTANTS
    Conn = {c1, c2}
    Device = {5, 6}
    NoDevice = NoDevice
    Parser = {"Teltonika", "Bitrek", "Cargo"}
    Sending <- Packets
    Cuts = {2, 11}
    Weak = {3}
    Tomorrow = 4
    PerDay = 2
    MaxPackets = 2
    SaveMayFail = TRUE
SYMMETRY ConnSymmetry
INVARIANT TypeOK
INVARIANT TableIsSound
INVARIANT AckedIsStored
INVARIANT StoredWasSent
INVARIANT TracksAreOwn
