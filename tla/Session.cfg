SPECIFICATION FairSpec
CONSTANTS
    Walk <- TwoCaps
    SkipIds <- SkipNone
    ArmOnPrompt = TRUE
    MaxFrames = 3
    MaxChunk = 2
    Faults = {}
    NoCap = NoCap
    NoStatus = NoStatus
INVARIANTS
    ExtractIsSlice
    CleanShutdown
    ReaderOutlivesWalk
PROPERTIES
    KeepsJournal
    QuitEnds
    ReadFrameLogged
