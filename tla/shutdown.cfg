CONSTANTS
  NULL = NULL
  working_mode = "all"
  video_duration = 1
  UIntMax = 3
  SignalPoints <- LockFree
  Faults <- NoFaults
  MaxClock = 1
  MaxFrames = 1
  MaxSigint = 1
  DstEnd = 1
  DstShift = 1
SPECIFICATION FairSpec
INVARIANTS NoWaitForWaiter
PROPERTIES SigintExits TargetsTaken
