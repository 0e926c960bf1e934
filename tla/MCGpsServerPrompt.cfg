SPECIFICATION FairSpec
CONSTANTS
    Loop = {l1, l2, l3}
    Conn = {c1, c2}
    NoConn = NoConn
    NoListener = NoListener
    CountForStop = 2
    PortMayBeTaken = FALSE
    Prompt = TRUE
INVARIANT StopIsGraceful
INVARIANT PauseIsQuiet
PROPERTY ServesAgain
PROPERTY ImplementsGate
PROPERTY GateMovesOn
