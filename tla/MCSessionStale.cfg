CONSTANTS
    Blocks <- MCBlocks
    RootBlock = 4
    BitmapBlock = 5
    Names <- MCNames
    Fold <- MCFold
    Hash <- MCHash
    Cut <- MCCut
    Buckets <- MCBuckets
    InitDisk <- MCInitDisk
    MoveAcross = FALSE
    MayBeCut = FALSE
    Paths <- MCPaths
    Replacements <- MCReplacements
    MaxOpen = 2
SPECIFICATION SessionSpec
PROPERTY ClosingKeepsEntries
