SPECIFICATION FairSpec
CONSTANTS
    Clients <- AllClients
    Maxes <- FewMaxes
    NoMax <- None
    UnitsPerFrame = 2
    MaxChunk = 5
    MaxUnits = 7
    Window = 2
INVARIANTS
    TypeOK
    LogInRaw
    RawIsComplete
    EofIsComplete
    StopsAtMax
    MetaCounts
    LinkReleased
    TxOnce
PROPERTIES
    ClientEnds
