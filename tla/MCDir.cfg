CONSTANTS
    Blocks <- MCBlocks
    RootBlock = 4
    BitmapBlock = 5
    Names <- MCNames
    Fold <- MCFold
    Hash <- MCHash
    Cut <- MCCut
    Buckets <- MCBuckets
    InitDisk <- MCInitDisk
    MoveAcross = TRUE
    MayBeCut = FALSE
SPECIFICATION Spec
INVARIANTS
    TypeOK
    TreeSound
    ListedEntriesAreFound
    TreeIsMarkedUsed
    MoveCheckIsExact
PROPERTIES
    SuccessLeaksNothing
    ImplementsNamespace
VIEW MCView
