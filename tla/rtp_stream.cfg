SPECIFICATION Spec
CONSTANTS
    SEQ_MOD = 16
    TS_MOD = 32
    MaxRqSize = 3
    SsrcThres = 2
    SEND_LEN = 2
    Lengths = {3}
    Starts = {0, 11, 30}
    Runs = {1, 2}
    MaxSent = 4
    MaxRepeats = 1
    Reorder = 2
CHECK_DEADLOCK FALSE
INVARIANTS
    TypeOK
    QueueSorted
PROPERTY
    RecordedInOrder
    QueueDrains
