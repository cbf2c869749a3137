SPECIFICATION Spec
CONSTANTS
    Objects = {o1, o2, o3}
    Addresses = {a1, a2}
    Activations = {r1, r2}
    None = None
CHECK_DEADLOCK FALSE
INVARIANTS
    TypeOK
    CallPushesLiteral
    
PROPERTIES
    ReachableIsPushed
