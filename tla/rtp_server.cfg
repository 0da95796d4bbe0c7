SPECIFICATION Spec
CONSTANTS
    ClientScale = 2
    ServerPortBase = 5000
    LastDuration = 1
    MaxTime = 5
    MaxFragments = 2
    DstEnd = 3
    DstShift = 3
CHECK_DEADLOCK FALSE
INVARIANTS
    TypeOK
    StreamsSeparated
    PauseStartsFile
    FilesInOrder
PROPERTY
    SigintStops
