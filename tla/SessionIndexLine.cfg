SPECIFICATION Spec
CONSTANTS
    Walk <- TwoCaps
    SkipIds <- SkipNone
    ArmOnPrompt = TRUE
    MaxFrames = 1
    MaxChunk = 1
    Faults = {"interrupt"}
    NoCap = NoCap
    NoStatus = NoStatus
INVARIANTS
    OneLinePerCapability
