SPECIFICATION Spec
CONSTANTS
    Loop = {l1}
    Conn = {c1, c2}
    NoConn = NoConn
    NoListener = NoListener
    CountForStop = 2
    PortMayBeTaken = FALSE
    Prompt = TRUE
INVARIANT ForceCloseCompletes
