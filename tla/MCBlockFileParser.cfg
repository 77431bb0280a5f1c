SPECIFICATION FairSpec
CONSTANTS
    AllocLimit = 150
    Images <- DamagedImages
INVARIANTS
    TypeOK
    RunningReaderCoherent
    BlocksTile
    TransactionsTile
    FieldsTile
    PayloadsExact
    ReturnsTheBlocks
    DocumentsComplete
PROPERTIES
    NeverBack
    Terminates
CHECK_DEADLOCK FALSE
