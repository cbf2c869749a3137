SPECIFICATION Spec
CONSTANTS
    MaxLength = 2
    MaxStarts = 2
    MaxFuncs = 2
    NoArg = NoArg
    Bytecodes <- MCBytecodes
INVARIANTS
    TypeOK
    ReturnedWellFormed
    OwnFrame
    ControlFlowMatches
PROPERTIES
    FreshFunction
    ReturnedFrozen
CHECK_DEADLOCK FALSE
