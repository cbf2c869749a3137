SPECIFICATION Spec
CONSTANTS
    FixLimit = 8
    MaxArrayLen = 5
    Arrays <- MCArrays
INVARIANTS
    TypeOK
    StaysInArray
    Reverses
    AddsOne
PROPERTIES
    Ends
