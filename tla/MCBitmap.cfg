CONSTANTS
    LastBlock = 5
    RootBlock = 4
    BlocksPerPage = 3
    MaxRequest = 3
SPECIFICATION Spec
INVARIANTS
    TypeOK
    UnmarkedPagesAreSaved
    ValidMeansSaved
PROPERTIES
    RequestsAreExact
    ImplementsBlockPool
