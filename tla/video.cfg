CONSTANTS
  NULL = NULL
  working_mode = "video"
  video_duration = 1
  UIntMax = 3
  SignalPoints <- AnyPoint
  Faults <- DeviceFaults
  MaxClock = 2
  MaxFrames = 3
  MaxSigint = 1
  DstEnd = 1
  DstShift = 2
SPECIFICATION Spec
INVARIANTS TypeOK AssertionsHold FileIsNamed MotionsStored
PROPERTIES LogKept
CHECK_DEADLOCK FALSE
