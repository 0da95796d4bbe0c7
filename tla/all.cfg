CONSTANTS
  NULL = NULL
  working_mode = "all"
  video_duration = 1
  UIntMax = 3
  SignalPoints <- AnyPoint
  Faults <- DeviceFaults
  MaxClock = 1
  MaxFrames = 2
  MaxSigint = 1
  DstEnd = 1
  DstShift = 1
SPECIFICATION Spec
INVARIANTS ThreadsDoneWhenFreed NoLostWakeup TotalsConsistent
CHECK_DEADLOCK FALSE
