CONSTANTS
  NULL = NULL
  working_mode = "picture"
  video_duration = 1
  UIntMax = 3
  SignalPoints <- AnyPoint
  Faults <- NoFaults
  MaxClock = 0
  MaxFrames = 1
  MaxSigint = 1
  DstEnd = 1
  DstShift = 1
SPECIFICATION FairSpec
PROPERTIES SigintExits
CHECK_DEADLOCK FALSE
