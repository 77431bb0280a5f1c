SPECIFICATION FairSpec
CONSTANTS
    h1 = h1
    h2 = h2
    Hashes = {h1, h2}
    Batches <- MCBatches
    MaxInserts = 3
INVARIANTS
    TypeOK
    AckedAreStored
    RefusedAreNotStored
    BatchesAreAtomic
PROPERTIES
    InsertReturns
CHECK_DEADLOCK FALSE
