CONSTANTS
    Blocks <- MCBlocks
    RootBlock = 4
    BitmapBlock = 5
    Names <- MCNames
    Fold <- MCFold
    Hash <- MCHash
    Cut <- MCCut
    Buckets <- MCBuckets
    InitDisk <- Empty
    MoveAcross = TRUE
    MayBeCut = FALSE
    RecordLen <- MCRecordLen
    RecordSpace = 5
    Sizes <- MCSizes
    InitVolumes <- MCInitVolumes
    Followed = {"spilled", "cut", "kept"}
SPECIFICATION CacheSpec
INVARIANTS
    CacheTypeOK
    CacheMirrorsDirectory
    TreeOutlivesCache
PROPERTIES
    SuccessLeaksOnlyFurtherBlocks
VIEW MCView
