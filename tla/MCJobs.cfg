CONSTANTS
    MaxPid = 3
    ChildPidSlots = 20
    Menu <- JobAndSessionMenu
    PreemptPoints <- CalmPoints
    KeyPoints <- KeyLabels
    PatientUser = TRUE
SPECIFICATION Spec
CONSTRAINTS OneLongRunner SessionOrPrograms
INVARIANTS
    NoFault
    QueuesIntact
    PlacedByStatus
    BlockedHasWaker
    JobsMatchProcesses
PROPERTIES
    ImplementsLifecycle
CHECK_DEADLOCK FALSE
