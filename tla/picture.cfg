CONSTANTS
  NULL = NULL
  working_mode = "picture"
  video_duration = 1
  UIntMax = 3
  SignalPoints <- AnyPoint
  Faults <- AllFaults
  MaxClock = 2
  MaxFrames = 3
  MaxSigint = 2
  DstEnd = 1
  DstShift = 2
SPECIFICATION Spec
INVARIANTS TotalsConsistent
CHECK_DEADLOCK FALSE
