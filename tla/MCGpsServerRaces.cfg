SPECIFICATION Spec
CONSTANTS
    Loop = {l1, l2, l3}
    Conn = {c1, c2}
    NoConn = NoConn
    NoListener = NoListener
    CountForStop = 2
    PortMayBeTaken = TRUE
    Prompt = FALSE
SYMMETRY Symmetry
INVARIANT TypeOK
INVARIANT Registered
INVARIANT OneWriter
PROPERTY NoNewClients
