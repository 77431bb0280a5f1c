SPECIFICATION Spec
CONSTANTS
    AllocLimit = 150
    Images <- DamagedImages
INVARIANTS
    AnswersWithACode
CHECK_DEADLOCK FALSE
