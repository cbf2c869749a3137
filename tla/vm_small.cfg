SPECIFICATION Spec
CONSTANTS
    FixLimit = 4
    StackSize = 3
    LocalsSize = 1
    MaxArrayLen = 2
    MaxLength = 3
    Undef = Undef
    Programs <- MCPrograms
    Calls <- MCCalls
    Refs <- MCRefs
    Ivars <- MCIvars
INVARIANTS
    TypeOK
    LiveSlotsWritten
    CertificateHolds
    NoOverrun
PROPERTIES
    NoUninitialisedRead
    ImplementsStackMachine
