SPECIFICATION Spec
CHECK_DEADLOCK FALSE
CONSTANTS
    DefaultCatalog <- TwoCaps
    Reserved = {"cell"}
    Malformed = Malformed
    None = None
    Failed = Failed
    DefaultDevice = "ttyUSB0"
    DefaultHost = "ew11"
    DefaultPort = 8899
    Blank = Blank
    NotANumber = NotANumber
    Launches <- SomeLaunches
    Files = {"bus.hex"}
    Answers <- AllAnswers
    NoFile = NoFile
    NoCap = NoCap
    MaxRuns = 2
    MaxLines = 2
INVARIANTS
    RunAnswersFlags
    TriageDescribesRun
    ExtractRecovers
PROPERTIES
    OthersKept
