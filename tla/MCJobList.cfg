CONSTANTS
    MaxPid = 4
    Careful = TRUE
SPECIFICATION Spec
INVARIANTS
    TypeOK
    ListIntact
    
    
PROPERTIES
    ImplementsJobTable
CHECK_DEADLOCK FALSE
