SPECIFICATION Spec
CONSTANTS
    Sockets <- ThreeSockets
    NoSocket = "none"
    Backends <- TcpAndSerial
    Reconnects <- Always
    Sharings <- Always
    Ops <- ReadOnly
    Troubles = {"eof"}
    Overflow = 3
    MaxConnects = 3
INVARIANTS
    ClosedForGood
