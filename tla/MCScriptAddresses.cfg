SPECIFICATION Spec
CONSTANTS
    OutputScripts <- MCOutputScripts
    InputScripts <- MCInputScripts
    Hash160 <- MCHash160
    MaxOutputs = 2
    MaxInputs = 1
INVARIANTS
    TypeOK
    AddressesTellScriptsApart
    SpenderHasSameAddress
CHECK_DEADLOCK FALSE
