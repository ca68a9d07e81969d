SPECIFICATION FairSpec
CONSTANTS
  Lens = {27}
  BlockSizes = {0, 2}
  FCFrames <- MCFCFrames
  SemMax = 1
  MaxMsgs = 2
  MaxFCs = 2
  RacyTimers = FALSE
  LateTx = FALSE
  EarlyFC = FALSE
CHECK_DEADLOCK FALSE
PROPERTY AwaitedFCApplied
