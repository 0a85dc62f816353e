SPECIFICATION Spec
CONSTANTS
    Walk <- TwoCaps
    SkipIds <- SkipNone
    ArmOnPrompt = TRUE
    MaxFrames = 1
    MaxChunk = 1
    Faults = {}
    NoCap = NoCap
    NoStatus = NoStatus
INVARIANTS
    EveryChunkInRaw
