CONSTANTS
    Capacity = 3
    Limit = 3
    Block = 2
    MaxBuffer = 3
    SizeDef <- MCSizeDef
    Sizes <- MCSizes
    Files <- MCFiles
    Counts <- MCCounts
    Texts <- MCTexts
SPECIFICATION Spec
INVARIANTS
    ReadsWhatIsThere
    WritesItsText
PROPERTIES
    ReadingEnds
