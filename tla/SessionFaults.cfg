SPECIFICATION Spec
CONSTANTS
    Walk <- ThreeCaps
    SkipIds <- SkipFirst
    ArmOnPrompt = FALSE
    MaxFrames = 2
    MaxChunk = 2
    Faults = {"interrupt", "open", "disk"}
    NoCap = NoCap
    NoStatus = NoStatus
INVARIANTS
    TypeOK
    RowsMatchLog
    LinesAreNumbered
    LogFollowsRaw
    IndexCoversWalk
PROPERTIES
    RowsAreFinal
