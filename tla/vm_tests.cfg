SPECIFICATION Spec
CONSTANTS
    FixLimit = 16
    StackSize = 8
    LocalsSize = 2
    MaxArrayLen = 4
    Undef = Undef
    Programs <- MCPrograms
    Calls <- MCCalls
    Refs <- MCRefs
    Ivars <- MCIvars
PROPERTIES
    SimpleLoopCounts
    ArrayLoopDoubles
    LeakyLoopOverruns
    
    ForwardCodeEnds
