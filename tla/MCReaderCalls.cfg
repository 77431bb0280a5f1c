SPECIFICATION Spec
CONSTANTS
    AllocLimit = 100
    Images <- MCImages
    Lengths <- MCLengths
    Positions <- MCPositions
INVARIANTS
    TypeOK
    CacheCoherent
    FailedOnlyAtEnd
PROPERTIES
    FailureIsSticky
    ImplementsByteSource
