SPECIFICATION FairSpec
CONSTANTS
    Sockets <- ThreeSockets
    NoSocket = "none"
    Backends <- TcpAndSerial
    Reconnects <- Always
    Sharings <- Never
    Ops <- ReadOnly
    Troubles = {}
    Overflow = 3
    MaxConnects = 3
PROPERTIES
    ReadReturns
