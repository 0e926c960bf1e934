SPECIFICATION FairSpec
CONSTANTS
    Port = {p1, p2}
    Contested = {p2}
    Client = {c1}
    Caller = {k1, k2, k3}
    NoPort = NoPort
    CountForStop = 10
    Deadline = 20
INVARIANT TypeOK
INVARIANT TimeoutNeedsTwoSlow
INVARIANT StopIsComplete
INVARIANT AllOrNone
PROPERTY PortsAreGates
PROPERTY FailedStopHappens
