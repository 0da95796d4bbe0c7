SPECIFICATION Spec
CONSTANTS
    Commands <- MCCommands
    Files <- MCFiles
    Builds = {"on", "off"}
    MaxFd = 8
    MaxRows = 2
CHECK_DEADLOCK FALSE
INVARIANTS
    TypeOK
    SettingsAreGiven
    PortIsServed
    WorkerDetached
PROPERTY
    StartEnds
