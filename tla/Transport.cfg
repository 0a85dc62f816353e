SPECIFICATION FairSpec
CONSTANTS
    Sockets <- ThreeSockets
    NoSocket = "none"
    Backends <- TcpAndSerial
    Reconnects <- Both
    Sharings <- Both
    Ops <- ReadWrite
    Troubles = {"refuse", "eof", "error"}
    Overflow = 3
    MaxConnects = 3
INVARIANTS
    TypeOK
    NoSocketLost
    FlagIsTrue
    EmptyIsTheEnd
    WriteCopies
PROPERTIES
    CloseEndsCall
    GivesUpAtLimit
