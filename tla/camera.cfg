SPECIFICATION Spec
CONSTANTS
    Width = 4
    Height = 4
    DiffPixels = 2
    DiffDeviation = 20
    ReqCount = 2
    Grants = {1, 2, 3}
    Frames <- MCFrames
CHECK_DEADLOCK FALSE
INVARIANTS
    BuffersConserved
    MotionIsChange
    PlanarIsExact
    RgbIsClose
PROPERTY
    BuffersCirculate
