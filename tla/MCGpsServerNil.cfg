SPECIFICATION Spec
CONSTANTS
    Loop = {l1}
    Conn = {c1}
    NoConn = NoConn
    NoListener = NoListener
    CountForStop = 2
    PortMayBeTaken = TRUE
    Prompt = TRUE
INVARIANT ShutdownSurvivesListenFailure
