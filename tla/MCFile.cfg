SPECIFICATION SpecTruncating
CONSTANTS
    Blocks = {2, 3, 4, 5, 6, 7, 8}
    BlockSize = 2
    MaxDataBlk = 2
    Values = {1}
    MaxSize <- MCMaxSize
INVARIANTS TypesUntilLost HandleAgreesUnlessAstray BlocksAccountedUntilLost ChainAgreesUntilLost
CONSTRAINT MCFewMarked
VIEW MCView
PROPERTIES ImplementsByteFile
