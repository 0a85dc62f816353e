SPECIFICATION Spec
CONSTANTS
    Byte <- SixBytes
    B00 = 0
    BFF = 5
    BA5 = 4
    B10 = 2
    B02 = 1
    B03 = 3
    Header = 1
    LenMod = 2
    ICMax = 7
    MaxFeed = 2
PROPERTIES
    ShortestFrameTaken
