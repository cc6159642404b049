CONSTANTS
    MaxPid = 4
    ChildPidSlots = 20
    Menu <- LiveMenu
    PreemptPoints <- CalmPoints
    KeyPoints <- NoKeys
    PatientUser = TRUE
SPECIFICATION FairSpec
PROPERTIES
    ReadyIsScheduled
    ForegroundReturns
    SleepersEnd
