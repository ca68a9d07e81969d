SPECIFICATION FairSpec
CONSTANTS
  Lens = {7, 27}
  BlockSizes = {0, 2}
  FCFrames <- MCFCFrames
  SemMax = 1
  MaxMsgs = 2
  MaxFCs = 2
  RacyTimers = TRUE
  LateTx = FALSE
  EarlyFC = FALSE
CHECK_DEADLOCK FALSE
INVARIANT OneConclusion
