CONSTANTS
    Blocks <- MCBlocks
    RootBlock = 4
    BitmapBlock = 5
    Names <- MCNames
    Fold <- MCFold
    Hash <- MCHash
    Cut <- MCCut
    Buckets <- MCBuckets
    InitDisk <- MCInitDisk
    MoveAcross = FALSE
    MayBeCut = TRUE
SPECIFICATION Spec
VIEW MCView
PROPERTIES
    ImplementsNamespace
    CreateAndRemoveKeepOthers
    RemoveExposesNothing
    RenameLossIsLocal
