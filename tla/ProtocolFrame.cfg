SPECIFICATION FairSpec
CONSTANTS
  MaxFrames = 6
  Waits = {w1}
  None = None
  MaxConfigs = 2
  MaxEager = 1
INVARIANTS FramesAreSound
PROPERTIES WaitsGetTheFrame DownComesBack WaitsEnd
CHECK_DEADLOCK FALSE
