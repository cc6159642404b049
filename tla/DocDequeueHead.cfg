CONSTANTS
    MaxPid = 3
    ChildPidSlots = 20
    Menu <- RaceHeadMenu
    PreemptPoints <- CalmPoints
    KeyPoints <- KeyLabels
    PatientUser = TRUE
SPECIFICATION Spec
PROPERTY
    ReadyStaysQueued
