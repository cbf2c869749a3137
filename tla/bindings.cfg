SPECIFICATION Spec
CONSTANTS
    MaxHeld = 3
CHECK_DEADLOCK FALSE
INVARIANTS
    ClassesHonest
    ChecksProtect
    ClassesSuffice
