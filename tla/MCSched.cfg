CONSTANTS
    MaxPid = 4
    ChildPidSlots = 20
    Menu <- SchedAndKillMenu
    PreemptPoints <- CalmPoints
    KeyPoints <- NoKeys
    PatientUser = TRUE
SPECIFICATION Spec
CONSTRAINTS KillsOrPrograms KilledAsleep StoppedOnce
INVARIANTS
    TypeOK
    NoFault
    QueuesIntact
    PlacedByStatus
    ActiveIsLast
    BlockedHasWaker
PROPERTIES
    ImplementsLifecycle
