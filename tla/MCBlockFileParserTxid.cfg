SPECIFICATION Spec
CONSTANTS
    AllocLimit = 1000
    Images <- WholeImages
INVARIANTS
    TxidWithoutWitness
CHECK_DEADLOCK FALSE
